\* Refused and unanswered transactions, and a lost arbitration.
SPECIFICATION FairSpec
CONSTANTS
  Block <- MCBlock
  ChunkMax = 4
  Retries = 4
  Faults = {"nack", "timeout", "denied"}
INVARIANTS ReadsBlock StartsIdle
PROPERTIES ImplementsEdidRead AnswersEach
