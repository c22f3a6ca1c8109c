CONSTANTS
  NumSlots = 1
  AddrSpace = 4
  RamWords = 2
  IcAddr = 3
  IrqLimit = 4
  GuestInstr = {"reg", "jump", "store", "mret", "wfi", "csr"}
  CsrWrites <- InterruptCsr
  IeMasks <- OneMaskPair
  HostIrqs = {0, 1}
  HostBps = {}
SPECIFICATION FairSpec
INVARIANTS
  TypeOK
  MeipBacked
PROPERTIES
  IrqNotLost
  ReturnAddressSafe
  WokenByInterrupt
  SleeperWakes
  LineZeroServed
