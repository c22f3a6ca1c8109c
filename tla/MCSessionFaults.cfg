CONSTANTS
  NumSlots = 1
  AddrSpace = 4
  RamWords = 2
  IcAddr = 3
  IrqLimit = 4
  GuestInstr = {"jump", "store", "illegal"}
  CsrWrites <- NoCsr
  IeMasks = {}
  BufferSize = 4
  HexU32 <- Garbled
  Commands <- BreakpointCommands
  MaxCommands = 3
  MaxFaults = 2
  MaxResends = 2
  MaxConsole = 1
  Devices = {"pc", "board"}
SPECIFICATION Spec
CHECK_DEADLOCK FALSE
INVARIANTS
  TypeOK
  StoppedWhenBelieved
  AnswersMatch
  BreakpointsAgree
