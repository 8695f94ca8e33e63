CONSTANTS
  Full = 65536
  SamplesPerBit = 5
  INC = 16
  None = None
  MaxEqual = 7
SPECIFICATION ClockSpec
INVARIANTS
  OneBitPerSymbol
PROPERTY SliceSpacing
