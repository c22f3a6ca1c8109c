CONSTANTS
  NumSlots = 1
  AddrSpace = 4
  RamWords = 2
  IcAddr = 3
  IrqLimit = 4
  GuestInstr = {"jump", "ebreak", "illegal"}
  CsrWrites <- NoCsr
  IeMasks = {}
  BufferSize = 4
  HexU32 <- Garbled
  Commands <- RunCommands
  MaxCommands = 2
  MaxFaults = 1
  MaxResends = 1
  MaxConsole = 0
  Devices = {"pc"}
SPECIFICATION Spec
CHECK_DEADLOCK FALSE
INVARIANT FatalIsGdbsFault
