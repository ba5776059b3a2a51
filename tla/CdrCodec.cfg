SPECIFICATION CdrSpec
CONSTANTS
  Types <- MCTypes
  Fields <- MCFields
  Messages <- MCMessages
  Missing = {0, 1, 3, 4, 7, 12}
  Fill = {170}
INVARIANTS CdrTypeOK InBounds WriteFitsItsSize AcceptedIsSent WholeIsAccepted
