--------------------------- MODULE AccountLinking ---------------------------
(***************************************************************************)
(* Account linking (src/src/linking): a device that has an account, the    *)
(* producer, delegates it to devices that want it, the consumers, over a   *)
(* broadcast channel named after the account.                              *)
(*                                                                         *)
(*   consumer --- temporary DID (a fresh RSA key, every 2 s) ---> producer *)
(*   consumer <-- session key encrypted for that RSA key -------- producer *)
(*   consumer --- challenge: pin, encrypted with session key ---> producer *)
(*   consumer <-- delegation or denial, same encryption --------- producer *)
(*                                                                         *)
(* Both sides run on an event loop: a handler runs alone until it awaits.  *)
(* Every action below is the code between two awaits, and `tasks' holds    *)
(* the calls that are awaited, with the values that were read before.      *)
(*                                                                         *)
(* A temporary key is the pair <<c, n>>: the n-th key of all, of consumer c. *)
(* The session key generated for it, and the pin chosen for that session   *)
(* key, are named by the same pair: a message is delivered once, so each   *)
(* is generated at most once.  The audience of a challenge is its sender.  *)
(*                                                                         *)
(* The channel hands a message to every other open participant, in any     *)
(* order (a handler first awaits data.arrayBuffer()).  A participant that  *)
(* cannot decrypt a message only warns, so a message is handed here to the *)
(* producer or to the one consumer that could decrypt it.                  *)
(***************************************************************************)
EXTENDS Naturals

CONSTANTS
  Consumers,   \* the devices that want to be linked
  MaxKeys,     \* bound: temporary keys the consumers generate, together
  MaxFaults,   \* bound: calls into the auth component that throw
  NoKey        \* null

Keys == Consumers \X (1..MaxKeys)

ASSUME LinkingAssumption ==
  /\ MaxKeys \in Nat
  /\ MaxFaults \in Nat
  /\ NoKey \notin Keys

VARIABLES
  net,        \* messages on their way
  tasks,      \* calls being awaited
  faults,     \* calls that have thrown
  pstep,      \* producer: ls.step
  pkey,       \* producer: ls.sessionKey
  popen,      \* producer: its channel, "opening", "open" or "closed"
  shown,      \* producer: pins shown to the user and not yet answered
  confirmed,  \* pins the user has confirmed on the producer
  rejected,   \* pins the user has rejected on the producer
  cstep,      \* consumer: ls.step
  rsa,        \* consumer: ls.temporaryRsaPair
  ckey,       \* consumer: ls.sessionKey
  copen,      \* consumer: its channel is open and its event emitter is set
  ticking,    \* consumer: rsaExchangeInterval is set
  nkeys,      \* temporary keys generated so far, by all consumers
  pins,       \* consumer: pins it has shown to its user
  linked,     \* consumer: pin of the delegation it has stored
  declined    \* consumer: it was told that the delegation was denied

producer == <<pstep, pkey, popen, shown, confirmed, rejected>>
consumer == <<cstep, rsa, ckey, copen, ticking, nkeys, pins, linked, declined>>
vars == <<net, tasks, faults, producer, consumer>>

LinkingStep == {"BROADCAST", "NEGOTIATION", "DELEGATION"}

Message ==
  [type: {"did", "session", "challenge"}, key: Keys]
    \union [type: {"response"}, key: Keys, pin: Keys, approved: BOOLEAN]

Task ==
  [call: {"generateTemporaryExchangeKey", "generateSessionKey",
          "generateUserChallenge"}, key: Keys]
    \union [call: {"handleSessionKey", "handleUserChallenge"},
            key: Keys, with: Keys]
    \union [call: {"delegateAccount", "linkDevice"},
            key: Keys, pin: Keys, approved: BOOLEAN]

(* Some consumers are never created: they do not tick. *)
Init ==
  /\ net = {} /\ tasks = {} /\ faults = 0
  /\ pstep = "BROADCAST" /\ pkey = NoKey /\ popen = "opening"
  /\ shown = {} /\ confirmed = {} /\ rejected = {}
  /\ cstep = [c \in Consumers |-> "BROADCAST"]
  /\ rsa = [c \in Consumers |-> NoKey]
  /\ ckey = [c \in Consumers |-> NoKey]
  /\ copen = [c \in Consumers |-> TRUE]
  /\ ticking \in [Consumers -> BOOLEAN]
  /\ nkeys = 0
  /\ pins = [c \in Consumers |-> {}]
  /\ linked = [c \in Consumers |-> NoKey]
  /\ declined = [c \in Consumers |-> FALSE]

(* What passes between the producer and consumer c: dropped unless both    *)
(* channels are open.                                                      *)
Sent(c, m) == IF copen[c] /\ popen = "open" THEN {m} ELSE {}

-----------------------------------------------------------------------------
(* CONSUMER *)

(* The interval fires every two seconds; it does not wait for the key of   *)
(* an earlier tick.                                                        *)
Tick(c) ==
  /\ ticking[c]
  /\ ckey[c] = NoKey
  /\ nkeys < MaxKeys
  /\ nkeys' = nkeys + 1
  /\ tasks' = tasks \union
       {[call |-> "generateTemporaryExchangeKey", key |-> <<c, nkeys + 1>>]}
  /\ UNCHANGED <<net, faults, producer, cstep, rsa, ckey, copen, ticking, pins,
                 linked, declined>>

(* It stops once there is a session key. *)
StopTicking(c) ==
  /\ ticking[c]
  /\ ckey[c] # NoKey
  /\ ticking' = [ticking EXCEPT ![c] = FALSE]
  /\ UNCHANGED <<net, tasks, faults, producer, cstep, rsa, ckey, copen, nkeys,
                 pins, linked, declined>>

(* The key pair is there: store it, step to Negotiation and broadcast the  *)
(* DID.  Whether a session key came in meanwhile is not looked at.         *)
BroadcastTemporaryDID(t) ==
  LET c == t.key[1] IN
  /\ t.call = "generateTemporaryExchangeKey"
  /\ rsa' = [rsa EXCEPT ![c] = t.key]
  /\ cstep' = [cstep EXCEPT ![c] = "NEGOTIATION"]
  /\ net' = net \union Sent(c, [type |-> "did", key |-> t.key])
  /\ tasks' = tasks \ {t}
  /\ UNCHANGED <<faults, producer, ckey, copen, ticking, nkeys, pins, linked,
                 declined>>

(* What a session key message meets in handleMessage. *)
AwaitsSessionKey(c) == cstep[c] = "NEGOTIATION" /\ ckey[c] = NoKey /\ rsa[c] # NoKey

(* A session key message in Negotiation, when no session key is known: try *)
(* to open it with the RSA key of this moment.  Otherwise it is ignored.   *)
ReceiveSessionKey(m) ==
  LET c == m.key[1] IN
  /\ m.type = "session"
  /\ copen[c]
  /\ net' = net \ {m}
  /\ tasks' = IF AwaitsSessionKey(c)
              THEN tasks \union
                {[call |-> "handleSessionKey", key |-> m.key, with |-> rsa[c]]}
              ELSE tasks
  /\ UNCHANGED <<faults, producer, consumer>>

(* The message was encrypted for another RSA key: a warning. *)
SessionKeyUndecryptable(t) ==
  /\ t.call = "handleSessionKey"
  /\ t.key # t.with
  /\ tasks' = tasks \ {t}
  /\ UNCHANGED <<net, faults, producer, consumer>>

(* The message was opened: keep the session key, choose a pin, encrypt.    *)
AcceptSessionKey(t) ==
  LET c == t.key[1] IN
  /\ t.call = "handleSessionKey"
  /\ t.key = t.with
  /\ ckey' = [ckey EXCEPT ![c] = t.key]
  /\ tasks' = (tasks \ {t}) \union
       {[call |-> "generateUserChallenge", key |-> t.key]}
  /\ UNCHANGED <<net, faults, producer, cstep, rsa, copen, ticking, nkeys, pins,
                 linked, declined>>

(* Send the challenge, show the pin, step to Delegation. *)
SendChallenge(t) ==
  LET c == t.key[1] IN
  /\ t.call = "generateUserChallenge"
  /\ net' = net \union Sent(c, [type |-> "challenge", key |-> t.key])
  /\ pins' = IF copen[c] THEN [pins EXCEPT ![c] = @ \union {t.key}] ELSE pins
  /\ cstep' = [cstep EXCEPT ![c] = "DELEGATION"]
  /\ tasks' = tasks \ {t}
  /\ UNCHANGED <<faults, producer, rsa, ckey, copen, ticking, nkeys, linked,
                 declined>>

(* Mutant: the step is still Negotiation when the answer comes. *)
AwaitsResponseTooEarly(m) ==
  cstep[m.key[1]] = "NEGOTIATION" /\ ckey[m.key[1]] = m.key

(* What an answer meets in handleMessage. *)
AwaitsResponse(m) == cstep[m.key[1]] = "DELEGATION" /\ ckey[m.key[1]] = m.key

(* The answer in Delegation, encrypted with the session key: link.  In any *)
(* other step, or with another key, it is ignored with a warning.          *)
ReceiveResponse(m) ==
  LET c == m.key[1] IN
  /\ m.type = "response"
  /\ copen[c]
  /\ net' = net \ {m}
  /\ tasks' = IF AwaitsResponse(m)
              THEN tasks \union
                {[call |-> "linkDevice", key |-> m.key, pin |-> m.pin,
                  approved |-> m.approved]}
              ELSE tasks
  /\ UNCHANGED <<faults, producer, consumer>>

(* Mutant: a denial is not told from a delegation. *)
DeliveredUnchecked(t) ==
  linked' = [linked EXCEPT ![t.key[1]] = t.pin] /\ UNCHANGED declined

(* What linkDevice finds in the answer: a delegation, or a denial. *)
Delivered(t) ==
  LET c == t.key[1] IN
  IF t.approved
  THEN linked' = [linked EXCEPT ![c] = t.pin] /\ UNCHANGED declined
  ELSE declined' = [declined EXCEPT ![c] = TRUE] /\ UNCHANGED linked

(* The delegation is stored, or the denial reported; then done(): the      *)
(* emitter is dropped, the channel closed, the interval cleared.           *)
LinkDevice(t) ==
  LET c == t.key[1] IN
  /\ t.call = "linkDevice"
  /\ Delivered(t)
  /\ copen' = [copen EXCEPT ![c] = FALSE]
  /\ ticking' = [ticking EXCEPT ![c] = FALSE]
  /\ tasks' = tasks \ {t}
  /\ UNCHANGED <<net, faults, producer, cstep, rsa, ckey, nkeys, pins>>

(* The user of the consumer gives up: done(). *)
CancelConsumer(c) ==
  /\ copen[c]
  /\ copen' = [copen EXCEPT ![c] = FALSE]
  /\ ticking' = [ticking EXCEPT ![c] = FALSE]
  /\ UNCHANGED <<net, tasks, faults, producer, cstep, rsa, ckey, nkeys, pins,
                 linked, declined>>

-----------------------------------------------------------------------------
(* PRODUCER *)

(* createProducer has checked canDelegateAccount; the channel opens. *)
OpenProducer ==
  /\ popen = "opening"
  /\ popen' = "open"
  /\ UNCHANGED <<net, tasks, faults, pstep, pkey, shown, confirmed, rejected,
                 consumer>>

(* In Broadcast any message is taken for a DID; what is not one throws.    *)
ReceiveInBroadcast(m) ==
  /\ m.type \in {"did", "challenge"}
  /\ popen = "open"
  /\ pstep = "BROADCAST"
  /\ net' = net \ {m}
  /\ tasks' = IF m.type = "did"
              THEN tasks \union {[call |-> "generateSessionKey", key |-> m.key]}
              ELSE tasks
  /\ UNCHANGED <<faults, producer, consumer>>

(* The session key is generated: keep it, step to Negotiation, send it. *)
SendSessionKey(t) ==
  /\ t.call = "generateSessionKey"
  /\ pkey' = t.key
  /\ pstep' = "NEGOTIATION"
  /\ net' = net \union Sent(t.key[1], [type |-> "session", key |-> t.key])
  /\ tasks' = tasks \ {t}
  /\ UNCHANGED <<faults, popen, shown, confirmed, rejected, consumer>>

(* A DID in Negotiation cannot be parsed as a challenge: a warning, and    *)
(* the step has moved to Delegation all the same.                          *)
ReceiveDIDInNegotiation(m) ==
  /\ m.type = "did"
  /\ popen = "open"
  /\ pstep = "NEGOTIATION"
  /\ pkey # NoKey
  /\ net' = net \ {m}
  /\ pstep' = "DELEGATION"
  /\ UNCHANGED <<tasks, faults, pkey, popen, shown, confirmed, rejected, consumer>>

(* A challenge in Negotiation is decrypted with the session key of now. *)
ReceiveChallenge(m) ==
  /\ m.type = "challenge"
  /\ popen = "open"
  /\ pstep = "NEGOTIATION"
  /\ pkey # NoKey
  /\ net' = net \ {m}
  /\ tasks' = tasks \union
       {[call |-> "handleUserChallenge", key |-> m.key, with |-> pkey]}
  /\ UNCHANGED <<faults, producer, consumer>>

(* Mutant: the pin is shown without looking at the result of decryption. *)
PinToShowUnchecked(t) == IF popen = "open" THEN {t.with} ELSE {}

(* The pin is shown if the challenge could be decrypted and the producer   *)
(* is not cancelled.                                                       *)
PinToShow(t) == IF t.key = t.with /\ popen = "open" THEN {t.key} ELSE {}

(* Decrypted or not, the step is Delegation. *)
ShowChallenge(t) ==
  /\ t.call = "handleUserChallenge"
  /\ pstep' = "DELEGATION"
  /\ shown' = shown \union PinToShow(t)
  /\ tasks' = tasks \ {t}
  /\ UNCHANGED <<net, faults, pkey, popen, confirmed, rejected, consumer>>

(* In Delegation every message is ignored, with a warning. *)
ReceiveInDelegation(m) ==
  /\ m.type \in {"did", "challenge"}
  /\ popen = "open"
  /\ pstep = "DELEGATION"
  /\ net' = net \ {m}
  /\ UNCHANGED <<tasks, faults, producer, consumer>>

(* Mutant: `called' is never set. *)
challengeAgain(pin) == UNCHANGED shown

(* `called': a challenge can be answered once. *)
challengeOnce(pin) == shown' = shown \ {pin}

(* confirmPin or rejectPin, once per challenge: the answer will            *)
(* be encrypted with the session key of now, if there is one.              *)
Answer(pin, approved) ==
  /\ pin \in shown
  /\ challengeOnce(pin)
  /\ IF approved
     THEN confirmed' = confirmed \union {pin} /\ UNCHANGED rejected
     ELSE rejected' = rejected \union {pin} /\ UNCHANGED confirmed
  /\ tasks' = IF pkey # NoKey
              THEN tasks \union {[call |-> "delegateAccount", key |-> pkey,
                                  pin |-> pin, approved |-> approved]}
              ELSE tasks
  /\ UNCHANGED <<net, faults, pstep, pkey, popen, consumer>>

(* Mutants: the step is cleared, like the key; the step is left as it is. *)
resetLinkingStateToNull == pkey' = NoKey /\ pstep' = NoKey
resetLinkingStateOfKey == pkey' = NoKey /\ UNCHANGED pstep

resetLinkingState == pkey' = NoKey /\ pstep' = "BROADCAST"

(* finishDelegation: send the answer, then back to Broadcast. *)
FinishDelegation(t) ==
  /\ t.call = "delegateAccount"
  /\ net' = net \union Sent(t.key[1],
       [type |-> "response", key |-> t.key, pin |-> t.pin, approved |-> t.approved])
  /\ resetLinkingState
  /\ tasks' = tasks \ {t}
  /\ UNCHANGED <<faults, popen, shown, confirmed, rejected, consumer>>

(* The user of the producer gives up.  Calls in flight go on. *)
CancelProducer ==
  /\ popen = "open"
  /\ popen' = "closed"
  /\ UNCHANGED <<net, tasks, faults, pstep, pkey, shown, confirmed, rejected,
                 consumer>>

-----------------------------------------------------------------------------
(* auth.delegateAccount or auth.linkDevice throws (storage, the lookup of  *)
(* the root DID): the handler is abandoned where it stands.                *)
AuthThrows(t) ==
  /\ faults < MaxFaults
  /\ t.call \in {"delegateAccount", "linkDevice"}
  /\ t.approved
  /\ faults' = faults + 1
  /\ tasks' = tasks \ {t}
  /\ UNCHANGED <<net, producer, consumer>>

ConsumerHandles(m) == ReceiveSessionKey(m) \/ ReceiveResponse(m)

ProducerHandles(m) ==
  \/ ReceiveInBroadcast(m) \/ ReceiveDIDInNegotiation(m)
  \/ ReceiveChallenge(m) \/ ReceiveInDelegation(m)

ConsumerResumes(t) ==
  \/ BroadcastTemporaryDID(t) \/ SessionKeyUndecryptable(t)
  \/ AcceptSessionKey(t) \/ SendChallenge(t) \/ LinkDevice(t)

ProducerResumes(t) == SendSessionKey(t) \/ ShowChallenge(t) \/ FinishDelegation(t)

Resume == \E t \in tasks : ConsumerResumes(t) \/ ProducerResumes(t)
Receive == \E m \in net : ConsumerHandles(m) \/ ProducerHandles(m)

Next ==
  \/ \E c \in Consumers : Tick(c) \/ StopTicking(c) \/ CancelConsumer(c)
  \/ OpenProducer \/ CancelProducer
  \/ \E pin \in shown, approved \in BOOLEAN : Answer(pin, approved)
  \/ Receive
  \/ Resume
  \/ \E t \in tasks : AuthThrows(t)

(* The event loops run what is ready, the interval fires, the channel      *)
(* delivers and the user answers a pin.  Nobody has to open or to cancel.  *)
Fairness ==
  /\ WF_vars(Receive) /\ WF_vars(Resume)
  /\ \A c \in Consumers : WF_vars(Tick(c)) /\ WF_vars(StopTicking(c))
  /\ WF_vars(\E pin \in shown, approved \in BOOLEAN : Answer(pin, approved))

Spec == Init /\ [][Next]_vars
FairSpec == Spec /\ Fairness

-----------------------------------------------------------------------------
(* PROPERTIES *)

(* Every variable has its type; the keys of consumer c belong to c. *)
TypeOK ==
  /\ net \subseteq Message
  /\ tasks \subseteq Task
  /\ faults \in 0..MaxFaults
  /\ pstep \in LinkingStep /\ pkey \in Keys \union {NoKey}
  /\ popen \in {"opening", "open", "closed"}
  /\ shown \subseteq Keys /\ confirmed \subseteq Keys /\ rejected \subseteq Keys
  /\ cstep \in [Consumers -> LinkingStep]
  /\ rsa \in [Consumers -> Keys \union {NoKey}]
  /\ ckey \in [Consumers -> Keys \union {NoKey}]
  /\ copen \in [Consumers -> BOOLEAN]
  /\ ticking \in [Consumers -> BOOLEAN]
  /\ nkeys \in 0..MaxKeys
  /\ pins \in [Consumers -> SUBSET Keys]
  /\ linked \in [Consumers -> Keys \union {NoKey}]
  /\ declined \in [Consumers -> BOOLEAN]

(* A consumer stores a delegation only after the user has confirmed, on    *)
(* the producer, the pin the delegation was made for, and hears of a       *)
(* denial only after the user has rejected one: no interleaving turns the  *)
(* one answer into the other (producer.ts:101 and 120, consumer.ts:349).   *)
OutcomeWasChosen ==
  \A c \in Consumers :
    /\ linked[c] # NoKey => linked[c] \in confirmed
    /\ declined[c] => rejected # {}

(* The pin the producer shows, or the user has confirmed there, is one     *)
(* that its consumer has shown: the user compares two pins of the same     *)
(* exchange (producer.ts:134, consumer.ts:96).                             *)
PinAgreement ==
  \A pin \in shown \union confirmed : pin \in pins[pin[1]]

(* A challenge is answered once: no pin is both confirmed and rejected     *)
(* (challengeOnce, producer.ts:97).                                        *)
AnsweredOnce == confirmed \intersect rejected = {}

(* A step that needs the session key is entered with the key in hand, and  *)
(* no late handler takes it away: the "missing session key" errors of      *)
(* producer.ts:140 and consumer.ts:127 are never met.                      *)
SessionKeyAtHand ==
  /\ pstep = "NEGOTIATION" => pkey # NoKey
  /\ \A c \in Consumers : cstep[c] = "DELEGATION" => ckey[c] # NoKey

(* A temporary DID that comes while the producer negotiates is ignored:    *)
(* it changes neither the step nor the session key.  This is what          *)
(* producer.test.ts:102 says.                                              *)
TemporaryDIDIsIgnored ==
  [][\A m \in net : m.type = "did" /\ pstep = "NEGOTIATION" /\ m \notin net'
       => pstep' = pstep /\ pkey' = pkey]_vars

(* Once the producer's channel is open, with a consumer that is yet to     *)
(* broadcast, linking comes to an end: linked, declined, or cancelled --   *)
(* unless a second temporary DID is broadcast or auth throws on the way.   *)
LinkingEnds ==
  (popen = "open" /\ nkeys = 0 /\ \E c \in Consumers : ticking[c])
    ~> \/ \E c \in Consumers : linked[c] # NoKey \/ declined[c] \/ ~copen[c]
       \/ popen = "closed" \/ nkeys > 1 \/ faults > 0

=============================================================================
