CONSTANTS
  NumSlots = 1
  AddrSpace = 5
  RamWords = 2
  IcAddr = 4
  IrqLimit = 4
  GuestInstr = {"load", "branch", "ecall", "ebreak", "mret", "wfi", "csr"}
  CsrWrites <- HandlerCsr
  IeMasks = {}
  HostIrqs = {0, 1}
  HostBps = {0, 1}
  Handler = 1
SPECIFICATION GuestSpec
PROPERTIES
  MainUndisturbed
  StoppedExecutesNothing
  BreakpointComesFirst
