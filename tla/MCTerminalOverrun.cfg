\* Two terminals, a 3-byte line, an overrun leaving 1 byte, two shifts.
CONSTANTS
  NUM_TERMINAL = 2
  BUF_SIZE = 3
  OVERRUN_LEN = 1
  MAX_SHIFT = 2
SPECIFICATION Spec
INVARIANT NoBufferOverrun
