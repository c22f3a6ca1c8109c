CONSTANTS
  NumSlots = 1
  AddrSpace = 4
  RamWords = 2
  IcAddr = 3
  IrqLimit = 4
  GuestInstr = {"jump", "store", "wfi", "csr"}
  CsrWrites <- SleeperCsr
  IeMasks <- AllLines
  Programs = {"fantasy"}
  Created = {"RUNNING"}
  ExitValues = {0}
SPECIFICATION Spec
CHECK_DEADLOCK FALSE
PROPERTY KeyTriggersInterrupt
