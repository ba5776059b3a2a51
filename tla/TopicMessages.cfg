SPECIFICATION TopicSpec
CONSTANTS
  Publishers = {p1, p2}
  Takers = {t1}
  SequenceCalls <- MCSequences
  MaxNumber = 4
  MaxSamples = 4
SYMMETRY MCThreads
INVARIANTS UnracedNumbersDiffer UntoldOnlyInWindow SuccessLosesNothing TwiceTheRoomIsEnough
CONSTRAINT MCTogether
