CONSTANTS
  Block = {b1, b2, b3, b4}
  SP_ALLOC_N = 2
  Null = Null
SPECIFICATION Spec
CHECK_DEADLOCK FALSE
PROPERTY NodeIsNew
