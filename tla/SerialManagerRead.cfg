SPECIFICATION Spec
CONSTANTS
  RingSize = 3
  QueueSize = 2
  Lengths = {1, 2, 3}
  Usages <- Safe
  MaxIn = 5
INVARIANTS TypeOK BytesInOrder NoByteWithheld AnsweredOnce SuccessMeansStored
PROPERTIES LossAnnounced FullIsAnswered
CHECK_DEADLOCK FALSE
