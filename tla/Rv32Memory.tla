----------------------------- MODULE Rv32Memory -----------------------------
(***************************************************************************)
(* RAM byte by byte, and who may touch which bytes of it: the loads and    *)
(* stores of src/src/rv32.h and of its newlib fork, the debugger's m and M *)
(* commands, and the pixel memory the front ends map at 0x80000000.        *)
(* Rv32Machine.tla executes instructions with these operators,             *)
(* DataLaws_proofs.tla proves that no access leaves its memory.            *)
(*                                                                         *)
(* Memory is a function on the offsets from its start; what is moved is a  *)
(* function on 0 .. n - 1, least significant byte first.                   *)
(***************************************************************************)
EXTENDS Integers

\* The bytes at addr .. addr + n - 1, and the memory with those bytes replaced.
BytesAt(ram, addr, n) == [k \in 0 .. n - 1 |-> ram[addr + k]]

Overwrite(ram, addr, bytes) ==
  [i \in DOMAIN ram |-> IF i - addr \in DOMAIN bytes THEN bytes[i - addr] ELSE ram[i]]

Inside(addr, n, size) == 0 <= addr /\ addr + n <= size

-----------------------------------------------------------------------------
(* src/src/rv32.h *)

\* (mutant) the bound forgets the width
GrantedFirstByte(addr, n, memSize) == addr < memSize

\* addr <= mem_size - sizeof(access), in size_t: for a RAM smaller than the
\* access the difference wraps, and every address passes.
Granted(addr, n, memSize) == n <= memSize => addr <= memSize - n

\* RAM first, then for words the interrupt controller, then the front end's
\* mmio functions: the set of the bytes read, empty if the load is refused.
rv32_load(h, addr, n, memSize, icAddr) ==
  IF Granted(addr, n, memSize) THEN {BytesAt(h.ram, addr, n)}
  ELSE IF n = 4 /\ addr = icAddr THEN {h.ie}
  ELSE {}

\* The set of the harts a store leaves, empty if it is refused.  The console is
\* the one mmio address of the embedding example and of the debugger.
rv32_store(h, addr, bytes, n, memSize, icAddr, consoleAddr) ==
  IF Granted(addr, n, memSize) THEN {[h EXCEPT !.ram = Overwrite(@, addr, bytes)]}
  ELSE IF n = 4 /\ addr = icAddr THEN {[h EXCEPT !.ie = bytes]}
  ELSE IF n = 1 /\ addr = consoleAddr THEN {h}
  ELSE {}

-----------------------------------------------------------------------------
(* src/examples/c-newlib-nano/rv32.c *)

\* calloc(1, sizeof(RV32) + mem_size): mem[1] is the last member of a structure
\* with word alignment, so that many bytes follow the RAM in its block.
ForkSpare == 4

\* addr >= mem_size - (n - 1) is refused, in uint32_t: for a RAM smaller than
\* n - 1 the difference wraps, and every address passes but for at most the last
\* three of 2^32, left out here.
ForkGranted(addr, n, memSize) == memSize >= n - 1 => addr < memSize - (n - 1)

\* sh has the bound of sb, and the fetch has only that one too.
ForkGrantedHalf(addr, memSize) == addr < memSize
ForkGrantedFetch(pc, memSize) == pc < memSize

-----------------------------------------------------------------------------
(* The debugger's m and M, src/gdb_stub/rsp.h *)

\* start + chunk_size wraps like a uint32_t, space being 2^32; the last bytes of
\* RAM are refused.
ChunkGranted(start, chunk, memSize, space) ==
  start < memSize /\ (start + chunk) % space < memSize

\* An m reply is $, two digits for each byte, #, two digits, and the final 0.
\* It ends the program when it does not fit RSP_BUFFER_SIZE.
ReplyFits(chunk, bufferSize) == 1 + 2 * chunk + 3 + 1 <= bufferSize

\* M's digits have to arrive in the same buffer.
RequestFits(chunk, bufferSize) == 2 * chunk < bufferSize

-----------------------------------------------------------------------------
(* Pixels: bytes is the size of the front end's array *)

\* src/examples/fantasy-computer: a store of n bytes at an offset in the array.
FantasyGranted(off, n, bytes) == off >= 0 /\ off < bytes - (n - 1)

\* src/examples/arduino/rv32_gdb_pio: bytes and half-words only.
ArduinoGranted(off, n, bytes) ==
  off >= 0 /\ ((n = 1 /\ off < bytes) \/ (n = 2 /\ off < bytes - 3))

\* The half-word is written, its bytes swapped, as a word: the pixel that
\* follows becomes 0.
ArduinoStore(px, off, bytes, n) ==
  IF n = 2
  THEN Overwrite(px, off, [k \in 0 .. 3 |-> IF k < 2 THEN bytes[1 - k] ELSE 0])
  ELSE Overwrite(px, off, bytes)
=============================================================================
