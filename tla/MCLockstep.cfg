CONSTANTS
  W = 8
  ImmBits = 3
  MemSize = 8
  IcAddr = 12
  ConsoleAddr = 10
  Reg = {0, 1, 2}
  RegA7 = 2
  ExitCall = 1
  CsrAt <- CsrNumbers
  BitOf <- BitNumbers
  Code <- Decoded
  Programs <- AllPrograms
  Values = {0, 1, 4, 8, 255}
SPECIFICATION Spec
CHECK_DEADLOCK FALSE
INVARIANTS
  TypeOK
  ForkAgrees
  ZeroReadsZero
PROPERTY
  ImplementsHart
