SPECIFICATION MCSpec
CONSTANTS
  N = 2
  w1 = w1  w2 = w2
  Workers = {w1, w2}
  Delays <- ThreeDelays
  Take = 1
  Never = never
  MaxReplays = 1
  MaxCrashes = 1
INVARIANTS
  TypeOK
  SuccessIsDelivered
  NotGivenUpEarly
PROPERTIES
  EventuallyDecided
