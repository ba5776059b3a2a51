SPECIFICATION TopicSpec
CONSTANTS
  Publishers = {p1}
  Takers = {t1}
  SequenceCalls <- MCExactRoom
  MaxNumber = 3
  MaxSamples = 3
INVARIANT CapacityIsSufficient
