CONSTANTS
  NumSlots = 1
  AddrSpace = 4
  RamWords = 2
  IcAddr = 3
  IrqLimit = 4
  GuestInstr = {"jump", "ebreak", "illegal"}
  CsrWrites <- NoCsr
  IeMasks = {}
  BufferSize = 4
  HexU32 <- Garbled
  Commands <- AllButBreakpoints
  MaxCommands = 3
  MaxFaults = 0
  MaxResends = 0
  MaxConsole = 0
  Devices = {"pc", "board"}
SPECIFICATION Spec
CHECK_DEADLOCK FALSE
INVARIANTS
  FatalOnlyByP
  AckOnItsWay
  AnswersMatch
PROPERTIES
  CommandAnswered
  InterruptRegainsControl
  ClosedLinkEnds
