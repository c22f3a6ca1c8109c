CONSTANTS
  W = 4
  ImmBits = 3
  BufferSize = 64
  WordSpace = 128
  ScreenWidth = 4
  ScreenHeight = 3
  RamSize = 40
  NumSlots = 4
  AddrSpace = 3
  Cases <- ExampleCases
SPECIFICATION MCSpec
INVARIANT ReadsLittleEndian
