CONSTANTS
  NumSlots = 1
  AddrSpace = 4
  RamWords = 2
  IcAddr = 3
  IrqLimit = 4
  GuestInstr = {"jump", "store", "ecall", "ebreak", "wfi", "csr"}
  CsrWrites <- SleeperCsr
  IeMasks <- AllLines
  Programs <- AllPrograms
  Created = {"PAUSED", "RUNNING"}
  ExitValues = {0, 45}
SPECIFICATION Spec
CHECK_DEADLOCK FALSE
INVARIANTS
  UsesWhatItHolds
  EndsClean
PROPERTIES
  WindowCloses
