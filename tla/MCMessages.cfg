CONSTANTS
  senlen = 61
  MAX_AIS_PACKET_TYPE = 24
  SERBUFFER_LEN = 100
  Frames <- MCFrames
  SkipTypes = {11}
  Raw = {0, 1, 67108863, 67108864, 134217727}
  None = None
SPECIFICATION Spec
INVARIANTS
  ReaderGetsPayload
  FieldsAreDisjoint
  GuiReadsTheSame
