SPECIFICATION FairSpec
CONSTANTS
  Consumers = {c1, c2}
  MaxKeys = 2
  MaxFaults = 2
  NoKey = NoKey
INVARIANTS TypeOK OutcomeWasChosen PinAgreement AnsweredOnce SessionKeyAtHand
PROPERTIES LinkingEnds
CHECK_DEADLOCK FALSE
