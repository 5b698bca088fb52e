----------------------- MODULE AccountLinking_proofs -----------------------
(***************************************************************************)
(* Theorems about AccountLinking, for every set of consumers and every     *)
(* bound, with their proofs.                                               *)
(***************************************************************************)
EXTENDS AccountLinking, TLAPS

-----------------------------------------------------------------------------
(* TYPES *)

LEMMA TypeStep == ASSUME TypeOK, [Next]_vars PROVE TypeOK'
<1> USE LinkingAssumption DEF TypeOK, Keys, Message, Task, LinkingStep, Sent
<1>1. ASSUME NEW c \in Consumers, Tick(c) PROVE TypeOK'
  BY <1>1 DEF Tick, producer
<1>2. ASSUME NEW c \in Consumers, StopTicking(c) PROVE TypeOK'
  BY <1>2 DEF StopTicking, producer
<1>3. ASSUME NEW c \in Consumers, CancelConsumer(c) PROVE TypeOK'
  BY <1>3 DEF CancelConsumer, producer
<1>4. CASE OpenProducer
  BY <1>4 DEF OpenProducer, consumer
<1>5. CASE CancelProducer
  BY <1>5 DEF CancelProducer, consumer
<1>6. ASSUME NEW pin \in shown, NEW approved \in BOOLEAN, Answer(pin, approved)
      PROVE  TypeOK'
  BY <1>6 DEF Answer, challengeOnce, consumer
<1>7. ASSUME NEW m \in net, ConsumerHandles(m) \/ ProducerHandles(m)
      PROVE  TypeOK'
  <2>1. CASE ReceiveSessionKey(m)
    BY <1>7, <2>1 DEF ReceiveSessionKey, AwaitsSessionKey, producer, consumer
  <2>2. CASE ReceiveResponse(m)
    BY <1>7, <2>2 DEF ReceiveResponse, AwaitsResponse, producer, consumer
  <2>3. CASE ReceiveInBroadcast(m)
    BY <1>7, <2>3 DEF ReceiveInBroadcast, producer, consumer
  <2>4. CASE ReceiveDIDInNegotiation(m)
    BY <1>7, <2>4 DEF ReceiveDIDInNegotiation, consumer
  <2>5. CASE ReceiveChallenge(m)
    BY <1>7, <2>5 DEF ReceiveChallenge, producer, consumer
  <2>6. CASE ReceiveInDelegation(m)
    BY <1>7, <2>6 DEF ReceiveInDelegation, producer, consumer
  <2> QED
    BY <1>7, <2>1, <2>2, <2>3, <2>4, <2>5, <2>6
    DEF ConsumerHandles, ProducerHandles
<1>8. ASSUME NEW t \in tasks, ConsumerResumes(t) \/ ProducerResumes(t)
      PROVE  TypeOK'
  <2>1. CASE BroadcastTemporaryDID(t)
    BY <1>8, <2>1 DEF BroadcastTemporaryDID, producer
  <2>2. CASE SessionKeyUndecryptable(t)
    BY <1>8, <2>2 DEF SessionKeyUndecryptable, producer, consumer
  <2>3. CASE AcceptSessionKey(t)
    BY <1>8, <2>3 DEF AcceptSessionKey, producer
  <2>4. CASE SendChallenge(t)
    BY <1>8, <2>4 DEF SendChallenge, producer
  <2>5. CASE LinkDevice(t)
    BY <1>8, <2>5 DEF LinkDevice, Delivered, producer
  <2>6. CASE SendSessionKey(t)
    BY <1>8, <2>6 DEF SendSessionKey, consumer
  <2>7. CASE ShowChallenge(t)
    BY <1>8, <2>7 DEF ShowChallenge, PinToShow, consumer
  <2>8. CASE FinishDelegation(t)
    BY <1>8, <2>8 DEF FinishDelegation, resetLinkingState, consumer
  <2> QED
    BY <1>8, <2>1, <2>2, <2>3, <2>4, <2>5, <2>6, <2>7, <2>8
    DEF ConsumerResumes, ProducerResumes
<1>9. ASSUME NEW t \in tasks, AuthThrows(t) PROVE TypeOK'
  BY <1>9 DEF AuthThrows, producer, consumer
<1>10. CASE UNCHANGED vars
  BY <1>10 DEF vars, producer, consumer
<1> HIDE DEF TypeOK, Keys, Message, Task, LinkingStep, Sent
<1> QED
  BY <1>1, <1>2, <1>3, <1>4, <1>5, <1>6, <1>7, <1>8, <1>9, <1>10
  DEF Next, Receive, Resume

(* Every variable has its type in every reachable state. *)
THEOREM TypeCorrect == Spec => []TypeOK
<1>1. Init => TypeOK
  BY LinkingAssumption
  DEF Init, TypeOK, Keys, Message, Task, LinkingStep
<1> QED
  BY <1>1, TypeStep, PTL DEF Spec

-----------------------------------------------------------------------------
(* THE USER'S CHOICE *)

(* The answer a delegation or a denial carries is one the user has given. *)
Chosen(x) == IF x.approved THEN x.pin \in confirmed ELSE rejected # {}

(* It is carried along unchanged: from the producer's call, over the       *)
(* channel, to the consumer's call.                                        *)
ChoiceInv ==
  /\ OutcomeWasChosen
  /\ \A m \in net : m.type = "response" => Chosen(m)
  /\ \A t \in tasks : t.call \in {"delegateAccount", "linkDevice"} => Chosen(t)

LEMMA ChoiceIsKeptStep == ASSUME TypeOK, ChoiceInv, [Next]_vars PROVE ChoiceInv'
<1> USE LinkingAssumption
    DEF TypeOK, Keys, Message, Task, LinkingStep, Sent, ChoiceInv, Chosen, OutcomeWasChosen
<1>1. ASSUME NEW c \in Consumers, Tick(c) PROVE ChoiceInv'
  BY <1>1 DEF Tick, producer
<1>2. ASSUME NEW c \in Consumers, StopTicking(c) PROVE ChoiceInv'
  BY <1>2 DEF StopTicking, producer
<1>3. ASSUME NEW c \in Consumers, CancelConsumer(c) PROVE ChoiceInv'
  BY <1>3 DEF CancelConsumer, producer
<1>4. CASE OpenProducer
  BY <1>4 DEF OpenProducer, consumer
<1>5. CASE CancelProducer
  BY <1>5 DEF CancelProducer, consumer
<1>6. ASSUME NEW pin \in shown, NEW approved \in BOOLEAN, Answer(pin, approved)
      PROVE  ChoiceInv'
  <2>1. confirmed \subseteq confirmed' /\ (rejected # {} => rejected' # {})
    BY <1>6 DEF Answer
  <2>2. IF approved THEN pin \in confirmed' ELSE rejected' # {}
    BY <1>6 DEF Answer
  <2>3. OutcomeWasChosen'
    BY <1>6, <2>1 DEF Answer, consumer
  <2>4. \A m \in net' : m.type = "response" => Chosen(m)'
    BY <1>6, <2>1 DEF Answer
  <2>5. ASSUME NEW t \in tasks', t.call \in {"delegateAccount", "linkDevice"}
        PROVE  Chosen(t)'
    <3>1. CASE t \in tasks
      BY <2>1, <2>5, <3>1
    <3>2. CASE t \notin tasks
      <4>1. t.pin = pin /\ t.approved = approved
        BY <1>6, <3>2 DEF Answer
      <4> QED
        BY <2>2, <4>1
    <3> QED
      BY <3>1, <3>2
  <2> QED
    BY <2>3, <2>4, <2>5
<1>7. ASSUME NEW m \in net, ConsumerHandles(m) \/ ProducerHandles(m)
      PROVE  ChoiceInv'
  <2>1. CASE ReceiveSessionKey(m)
    BY <1>7, <2>1 DEF ReceiveSessionKey, AwaitsSessionKey, producer, consumer
  <2>2. CASE ReceiveResponse(m)
    BY <1>7, <2>2 DEF ReceiveResponse, AwaitsResponse, producer, consumer
  <2>3. CASE ReceiveInBroadcast(m)
    BY <1>7, <2>3 DEF ReceiveInBroadcast, producer, consumer
  <2>4. CASE ReceiveDIDInNegotiation(m)
    BY <1>7, <2>4 DEF ReceiveDIDInNegotiation, consumer
  <2>5. CASE ReceiveChallenge(m)
    BY <1>7, <2>5 DEF ReceiveChallenge, producer, consumer
  <2>6. CASE ReceiveInDelegation(m)
    BY <1>7, <2>6 DEF ReceiveInDelegation, producer, consumer
  <2> QED
    BY <1>7, <2>1, <2>2, <2>3, <2>4, <2>5, <2>6
    DEF ConsumerHandles, ProducerHandles
<1>8. ASSUME NEW t \in tasks, ConsumerResumes(t) \/ ProducerResumes(t)
      PROVE  ChoiceInv'
  <2>1. CASE BroadcastTemporaryDID(t)
    BY <1>8, <2>1 DEF BroadcastTemporaryDID, producer
  <2>2. CASE SessionKeyUndecryptable(t)
    BY <1>8, <2>2 DEF SessionKeyUndecryptable, producer, consumer
  <2>3. CASE AcceptSessionKey(t)
    BY <1>8, <2>3 DEF AcceptSessionKey, producer
  <2>4. CASE SendChallenge(t)
    BY <1>8, <2>4 DEF SendChallenge, producer
  <2>5. CASE LinkDevice(t)
    BY <1>8, <2>5 DEF LinkDevice, Delivered, producer
  <2>6. CASE SendSessionKey(t)
    BY <1>8, <2>6 DEF SendSessionKey, consumer
  <2>7. CASE ShowChallenge(t)
    BY <1>8, <2>7 DEF ShowChallenge, PinToShow, consumer
  <2>8. CASE FinishDelegation(t)
    BY <1>8, <2>8 DEF FinishDelegation, resetLinkingState, consumer
  <2> QED
    BY <1>8, <2>1, <2>2, <2>3, <2>4, <2>5, <2>6, <2>7, <2>8
    DEF ConsumerResumes, ProducerResumes
<1>9. ASSUME NEW t \in tasks, AuthThrows(t) PROVE ChoiceInv'
  BY <1>9 DEF AuthThrows, producer, consumer
<1>10. CASE UNCHANGED vars
  BY <1>10 DEF vars, producer, consumer
<1> HIDE DEF TypeOK, Keys, Message, Task, LinkingStep, Sent, ChoiceInv, Chosen, OutcomeWasChosen
<1> QED
  BY <1>1, <1>2, <1>3, <1>4, <1>5, <1>6, <1>7, <1>8, <1>9, <1>10
  DEF Next, Receive, Resume

(* However many consumers link at once and whatever throws, a consumer is  *)
(* linked or refused only as the user has chosen on the producer.          *)
THEOREM ChoiceIsKept == Spec => []OutcomeWasChosen
<1>1. Init => ChoiceInv
  BY DEF Init, ChoiceInv, Chosen, OutcomeWasChosen
<1>2. ChoiceInv => OutcomeWasChosen
  BY DEF ChoiceInv
<1> QED
  BY <1>1, <1>2, ChoiceIsKeptStep, TypeCorrect, PTL DEF Spec

-----------------------------------------------------------------------------
(* PINS *)

(* A challenge on its way to the producer's user is one the consumer's     *)
(* user has been shown.                                                    *)
AgreementInv ==
  /\ PinAgreement
  /\ \A m \in net : m.type = "challenge" => m.key \in pins[m.key[1]]
  /\ \A t \in tasks : t.call = "handleUserChallenge" => t.key \in pins[t.key[1]]

LEMMA PinsAgreeStep == ASSUME TypeOK, AgreementInv, [Next]_vars PROVE AgreementInv'
<1> USE LinkingAssumption
    DEF TypeOK, Keys, Message, Task, LinkingStep, Sent, AgreementInv, PinAgreement
<1>1. ASSUME NEW c \in Consumers, Tick(c) PROVE AgreementInv'
  BY <1>1 DEF Tick, producer
<1>2. ASSUME NEW c \in Consumers, StopTicking(c) PROVE AgreementInv'
  BY <1>2 DEF StopTicking, producer
<1>3. ASSUME NEW c \in Consumers, CancelConsumer(c) PROVE AgreementInv'
  BY <1>3 DEF CancelConsumer, producer
<1>4. CASE OpenProducer
  BY <1>4 DEF OpenProducer, consumer
<1>5. CASE CancelProducer
  BY <1>5 DEF CancelProducer, consumer
<1>6. ASSUME NEW pin \in shown, NEW approved \in BOOLEAN, Answer(pin, approved)
      PROVE  AgreementInv'
  BY <1>6 DEF Answer, challengeOnce, consumer
<1>7. ASSUME NEW m \in net, ConsumerHandles(m) \/ ProducerHandles(m)
      PROVE  AgreementInv'
  <2>1. CASE ReceiveSessionKey(m)
    BY <1>7, <2>1 DEF ReceiveSessionKey, AwaitsSessionKey, producer, consumer
  <2>2. CASE ReceiveResponse(m)
    BY <1>7, <2>2 DEF ReceiveResponse, AwaitsResponse, producer, consumer
  <2>3. CASE ReceiveInBroadcast(m)
    BY <1>7, <2>3 DEF ReceiveInBroadcast, producer, consumer
  <2>4. CASE ReceiveDIDInNegotiation(m)
    BY <1>7, <2>4 DEF ReceiveDIDInNegotiation, consumer
  <2>5. CASE ReceiveChallenge(m)
    BY <1>7, <2>5 DEF ReceiveChallenge, producer, consumer
  <2>6. CASE ReceiveInDelegation(m)
    BY <1>7, <2>6 DEF ReceiveInDelegation, producer, consumer
  <2> QED
    BY <1>7, <2>1, <2>2, <2>3, <2>4, <2>5, <2>6
    DEF ConsumerHandles, ProducerHandles
<1>8. ASSUME NEW t \in tasks, ConsumerResumes(t) \/ ProducerResumes(t)
      PROVE  AgreementInv'
  <2>1. CASE BroadcastTemporaryDID(t)
    BY <1>8, <2>1 DEF BroadcastTemporaryDID, producer
  <2>2. CASE SessionKeyUndecryptable(t)
    BY <1>8, <2>2 DEF SessionKeyUndecryptable, producer, consumer
  <2>3. CASE AcceptSessionKey(t)
    BY <1>8, <2>3 DEF AcceptSessionKey, producer
  <2>4. CASE SendChallenge(t)
    BY <1>8, <2>4 DEF SendChallenge, producer
  <2>5. CASE LinkDevice(t)
    BY <1>8, <2>5 DEF LinkDevice, Delivered, producer
  <2>6. CASE SendSessionKey(t)
    BY <1>8, <2>6 DEF SendSessionKey, consumer
  <2>7. CASE ShowChallenge(t)
    BY <1>8, <2>7 DEF ShowChallenge, PinToShow, consumer
  <2>8. CASE FinishDelegation(t)
    BY <1>8, <2>8 DEF FinishDelegation, resetLinkingState, consumer
  <2> QED
    BY <1>8, <2>1, <2>2, <2>3, <2>4, <2>5, <2>6, <2>7, <2>8
    DEF ConsumerResumes, ProducerResumes
<1>9. ASSUME NEW t \in tasks, AuthThrows(t) PROVE AgreementInv'
  BY <1>9 DEF AuthThrows, producer, consumer
<1>10. CASE UNCHANGED vars
  BY <1>10 DEF vars, producer, consumer
<1> HIDE DEF TypeOK, Keys, Message, Task, LinkingStep, Sent, AgreementInv, PinAgreement
<1> QED
  BY <1>1, <1>2, <1>3, <1>4, <1>5, <1>6, <1>7, <1>8, <1>9, <1>10
  DEF Next, Receive, Resume

(* The producer never shows, and the user never confirms, a pin that no    *)
(* consumer has shown.                                                     *)
THEOREM PinsAgree == Spec => []PinAgreement
<1>1. Init => AgreementInv
  BY DEF Init, AgreementInv, PinAgreement
<1>2. AgreementInv => PinAgreement
  BY DEF AgreementInv
<1> QED
  BY <1>1, <1>2, PinsAgreeStep, TypeCorrect, PTL DEF Spec

-----------------------------------------------------------------------------
(* SESSION KEYS *)

(* The consumer has a session key from the moment it opens the message to  *)
(* the end: it is never cleared.                                           *)
HandInv ==
  /\ SessionKeyAtHand
  /\ \A t \in tasks : t.call = "generateUserChallenge" => ckey[t.key[1]] # NoKey

LEMMA KeyIsAtHandStep == ASSUME TypeOK, HandInv, [Next]_vars PROVE HandInv'
<1> USE LinkingAssumption
    DEF TypeOK, Keys, Message, Task, LinkingStep, Sent, HandInv, SessionKeyAtHand
<1>1. ASSUME NEW c \in Consumers, Tick(c) PROVE HandInv'
  BY <1>1 DEF Tick, producer
<1>2. ASSUME NEW c \in Consumers, StopTicking(c) PROVE HandInv'
  BY <1>2 DEF StopTicking, producer
<1>3. ASSUME NEW c \in Consumers, CancelConsumer(c) PROVE HandInv'
  BY <1>3 DEF CancelConsumer, producer
<1>4. CASE OpenProducer
  BY <1>4 DEF OpenProducer, consumer
<1>5. CASE CancelProducer
  BY <1>5 DEF CancelProducer, consumer
<1>6. ASSUME NEW pin \in shown, NEW approved \in BOOLEAN, Answer(pin, approved)
      PROVE  HandInv'
  BY <1>6 DEF Answer, challengeOnce, consumer
<1>7. ASSUME NEW m \in net, ConsumerHandles(m) \/ ProducerHandles(m)
      PROVE  HandInv'
  <2>1. CASE ReceiveSessionKey(m)
    BY <1>7, <2>1 DEF ReceiveSessionKey, AwaitsSessionKey, producer, consumer
  <2>2. CASE ReceiveResponse(m)
    BY <1>7, <2>2 DEF ReceiveResponse, AwaitsResponse, producer, consumer
  <2>3. CASE ReceiveInBroadcast(m)
    BY <1>7, <2>3 DEF ReceiveInBroadcast, producer, consumer
  <2>4. CASE ReceiveDIDInNegotiation(m)
    BY <1>7, <2>4 DEF ReceiveDIDInNegotiation, consumer
  <2>5. CASE ReceiveChallenge(m)
    BY <1>7, <2>5 DEF ReceiveChallenge, producer, consumer
  <2>6. CASE ReceiveInDelegation(m)
    BY <1>7, <2>6 DEF ReceiveInDelegation, producer, consumer
  <2> QED
    BY <1>7, <2>1, <2>2, <2>3, <2>4, <2>5, <2>6
    DEF ConsumerHandles, ProducerHandles
<1>8. ASSUME NEW t \in tasks, ConsumerResumes(t) \/ ProducerResumes(t)
      PROVE  HandInv'
  <2>1. CASE BroadcastTemporaryDID(t)
    BY <1>8, <2>1 DEF BroadcastTemporaryDID, producer
  <2>2. CASE SessionKeyUndecryptable(t)
    BY <1>8, <2>2 DEF SessionKeyUndecryptable, producer, consumer
  <2>3. CASE AcceptSessionKey(t)
    BY <1>8, <2>3 DEF AcceptSessionKey, producer
  <2>4. CASE SendChallenge(t)
    BY <1>8, <2>4 DEF SendChallenge, producer
  <2>5. CASE LinkDevice(t)
    BY <1>8, <2>5 DEF LinkDevice, Delivered, producer
  <2>6. CASE SendSessionKey(t)
    BY <1>8, <2>6 DEF SendSessionKey, consumer
  <2>7. CASE ShowChallenge(t)
    BY <1>8, <2>7 DEF ShowChallenge, PinToShow, consumer
  <2>8. CASE FinishDelegation(t)
    BY <1>8, <2>8 DEF FinishDelegation, resetLinkingState, consumer
  <2> QED
    BY <1>8, <2>1, <2>2, <2>3, <2>4, <2>5, <2>6, <2>7, <2>8
    DEF ConsumerResumes, ProducerResumes
<1>9. ASSUME NEW t \in tasks, AuthThrows(t) PROVE HandInv'
  BY <1>9 DEF AuthThrows, producer, consumer
<1>10. CASE UNCHANGED vars
  BY <1>10 DEF vars, producer, consumer
<1> HIDE DEF TypeOK, Keys, Message, Task, LinkingStep, Sent, HandInv, SessionKeyAtHand
<1> QED
  BY <1>1, <1>2, <1>3, <1>4, <1>5, <1>6, <1>7, <1>8, <1>9, <1>10
  DEF Next, Receive, Resume

(* Neither side ever waits for a message it has no session key for.        *)
THEOREM KeyIsAtHand == Spec => []SessionKeyAtHand
<1>1. Init => HandInv
  BY DEF Init, HandInv, SessionKeyAtHand
<1>2. HandInv => SessionKeyAtHand
  BY DEF HandInv
<1> QED
  BY <1>1, <1>2, KeyIsAtHandStep, TypeCorrect, PTL DEF Spec

-----------------------------------------------------------------------------
(* ONE ANSWER PER CHALLENGE *)

(* The pins that have reached the producer's user. *)
Seen == shown \union confirmed \union rejected

(* A temporary key is a token: it is in one message, in one call, or its   *)
(* pin is shown or answered, and in one of these places only.              *)
OnceInv ==
  /\ AnsweredOnce
  /\ shown \intersect (confirmed \union rejected) = {}
  /\ \A k \in Seen : k[2] <= nkeys
  /\ \A m \in net : m.type # "response" =>
       /\ m.key[2] <= nkeys
       /\ m.key \notin Seen
       /\ \A n \in net : n.type # "response" /\ n.key = m.key => n = m
       /\ \A t \in tasks :
            t.call \notin {"delegateAccount", "linkDevice"} => t.key # m.key
  /\ \A t \in tasks : t.call \notin {"delegateAccount", "linkDevice"} =>
       /\ t.key[2] <= nkeys
       /\ t.key \notin Seen
       /\ \A u \in tasks :
            u.call \notin {"delegateAccount", "linkDevice"} /\ u.key = t.key => u = t

LEMMA AnswersAreSingleStep == ASSUME TypeOK, OnceInv, [Next]_vars PROVE OnceInv'
<1> USE LinkingAssumption
    DEF TypeOK, Keys, Message, Task, LinkingStep, Sent, OnceInv, AnsweredOnce, Seen
<1>1. ASSUME NEW c \in Consumers, Tick(c) PROVE OnceInv'
  BY <1>1 DEF Tick, producer
<1>2. ASSUME NEW c \in Consumers, StopTicking(c) PROVE OnceInv'
  BY <1>2 DEF StopTicking, producer
<1>3. ASSUME NEW c \in Consumers, CancelConsumer(c) PROVE OnceInv'
  BY <1>3 DEF CancelConsumer, producer
<1>4. CASE OpenProducer
  BY <1>4 DEF OpenProducer, consumer
<1>5. CASE CancelProducer
  BY <1>5 DEF CancelProducer, consumer
<1>6. ASSUME NEW pin \in shown, NEW approved \in BOOLEAN, Answer(pin, approved)
      PROVE  OnceInv'
  BY <1>6 DEF Answer, challengeOnce, consumer
<1>7. ASSUME NEW m \in net, ConsumerHandles(m) \/ ProducerHandles(m)
      PROVE  OnceInv'
  <2>1. CASE ReceiveSessionKey(m)
    BY <1>7, <2>1 DEF ReceiveSessionKey, AwaitsSessionKey, producer, consumer
  <2>2. CASE ReceiveResponse(m)
    BY <1>7, <2>2 DEF ReceiveResponse, AwaitsResponse, producer, consumer
  <2>3. CASE ReceiveInBroadcast(m)
    BY <1>7, <2>3 DEF ReceiveInBroadcast, producer, consumer
  <2>4. CASE ReceiveDIDInNegotiation(m)
    BY <1>7, <2>4 DEF ReceiveDIDInNegotiation, consumer
  <2>5. CASE ReceiveChallenge(m)
    BY <1>7, <2>5 DEF ReceiveChallenge, producer, consumer
  <2>6. CASE ReceiveInDelegation(m)
    BY <1>7, <2>6 DEF ReceiveInDelegation, producer, consumer
  <2> QED
    BY <1>7, <2>1, <2>2, <2>3, <2>4, <2>5, <2>6
    DEF ConsumerHandles, ProducerHandles
<1>8. ASSUME NEW t \in tasks, ConsumerResumes(t) \/ ProducerResumes(t)
      PROVE  OnceInv'
  <2>1. CASE BroadcastTemporaryDID(t)
    BY <1>8, <2>1 DEF BroadcastTemporaryDID, producer
  <2>2. CASE SessionKeyUndecryptable(t)
    BY <1>8, <2>2 DEF SessionKeyUndecryptable, producer, consumer
  <2>3. CASE AcceptSessionKey(t)
    BY <1>8, <2>3 DEF AcceptSessionKey, producer
  <2>4. CASE SendChallenge(t)
    BY <1>8, <2>4 DEF SendChallenge, producer
  <2>5. CASE LinkDevice(t)
    BY <1>8, <2>5 DEF LinkDevice, Delivered, producer
  <2>6. CASE SendSessionKey(t)
    BY <1>8, <2>6 DEF SendSessionKey, consumer
  <2>7. CASE ShowChallenge(t)
    BY <1>8, <2>7 DEF ShowChallenge, PinToShow, consumer
  <2>8. CASE FinishDelegation(t)
    BY <1>8, <2>8 DEF FinishDelegation, resetLinkingState, consumer
  <2> QED
    BY <1>8, <2>1, <2>2, <2>3, <2>4, <2>5, <2>6, <2>7, <2>8
    DEF ConsumerResumes, ProducerResumes
<1>9. ASSUME NEW t \in tasks, AuthThrows(t) PROVE OnceInv'
  BY <1>9 DEF AuthThrows, producer, consumer
<1>10. CASE UNCHANGED vars
  BY <1>10 DEF vars, producer, consumer
<1> HIDE DEF TypeOK, Keys, Message, Task, LinkingStep, Sent, OnceInv, AnsweredOnce, Seen
<1> QED
  BY <1>1, <1>2, <1>3, <1>4, <1>5, <1>6, <1>7, <1>8, <1>9, <1>10
  DEF Next, Receive, Resume

(* No challenge is both confirmed and rejected: the session key of a       *)
(* challenge is in one place at a time, from the consumer's tick on.       *)
THEOREM AnswersAreSingle == Spec => []AnsweredOnce
<1>1. Init => OnceInv
  BY DEF Init, OnceInv, AnsweredOnce, Seen
<1>2. OnceInv => AnsweredOnce
  BY DEF OnceInv
<1> QED
  BY <1>1, <1>2, AnswersAreSingleStep, TypeCorrect, PTL DEF Spec

=============================================================================
