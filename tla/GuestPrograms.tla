--------------------------- MODULE GuestPrograms ----------------------------
(***************************************************************************)
(* The system calls the front ends serve, the C programs of src/examples   *)
(* that make them, and the files both are loaded from.  A call is the      *)
(* values of the argument registers at the ecall; what a front end prints  *)
(* and draws is a sequence of events.                                      *)
(***************************************************************************)
EXTENDS Integers, SequencesExt

CONSTANTS
  ScreenWidth,      \* SCREEN_WIDTH: 320
  ScreenHeight      \* SCREEN_HEIGHT: 240

ASSUME ScreenAssumption == {ScreenWidth, ScreenHeight} \subseteq Nat \ {0}

\* rv32->r[REG_A0] to r[REG_A4] and r[REG_A7], what the front end has shown so
\* far, whether the hart has halted, and whether it sleeps (rv32->wfi).
Fresh == [a0 |-> 0, a1 |-> 0, a2 |-> 0, a3 |-> 0, a4 |-> 0, a7 |-> 0,
          shown |-> <<>>, halted |-> FALSE, asleep |-> FALSE]

Show(w, event) == [w EXCEPT !.shown = Append(@, event)]

\* The cases the switches of the front ends have in common, and the default.
Serve(w, served) ==
  CASE w.a7 \notin served -> w
    [] w.a7 = 1 -> Show(w, <<"char", w.a0>>)
    [] w.a7 = 2 -> Show(w, <<"int", w.a0>>)
    [] w.a7 = 3 -> [w EXCEPT !.a0 = ScreenWidth]
    [] w.a7 = 4 -> [w EXCEPT !.a0 = ScreenHeight]
    [] w.a7 = 5 -> Show(w, <<"frame">>)
    [] w.a7 = 6 -> Show(w, <<"rectangle", w.a0, w.a1, w.a2, w.a3, w.a4>>)
    [] w.a7 = 7 -> Show(w, <<"glyph", w.a0, w.a1, w.a2>>)
    [] w.a7 = 93 -> [w EXCEPT !.halted = TRUE]

\* (mutant) the case of the screen height falls through to the next one
FantasyFallsThrough(w) == IF w.a7 = 4 THEN Show(Serve(w, {4}), <<"frame">>) ELSE Serve(w, {1, 2, 3, 5, 93})

EmbeddingEcall(w) == Serve(w, {1, 2, 93})
FantasyEcall(w) == Serve(w, 1 .. 5 \cup {93})
PioEcall(w) == Serve(w, 1 .. 7 \cup {93})
InoEcall(w) == Serve(w, {2, 93})
StubEcall(w) == Serve(w, {93})

\* The newlib emulator prints the bytes from mem[a1] on, a2 of them; there is
\* no exit call, and any other number is reported.
NewlibEcall(w) ==
  IF w.a7 \in {1, 64} THEN Show(w, <<"bytes", w.a1, w.a2>>) ELSE Show(w, <<"unknown", w.a7>>)

FrontEnds == {"embedding", "fantasy", "pio", "ino", "stub", "newlib"}

ecall(front, w) ==
  CASE front = "embedding" -> EmbeddingEcall(w)
    [] front = "fantasy" -> FantasyEcall(w)
    [] front = "pio" -> PioEcall(w)
    [] front = "ino" -> InoEcall(w)
    [] front = "stub" -> StubEcall(w)
    [] front = "newlib" -> NewlibEcall(w)

-----------------------------------------------------------------------------
(* Guest programs.  Each is what its calls make of a front end, once its     *)
(* hart runs; a halted hart makes no more of them, and neither does one that *)
(* has executed wfi, which no front end wakes (FrontEnds.tla).               *)

Wfi == [asleep |-> TRUE]

Ask(front, w, registers) ==
  IF w.halted \/ w.asleep THEN w
  ELSE IF registers = Wfi THEN Wfi @@ w
  ELSE ecall(front, registers @@ w)
AskAll(front, w, calls) == FoldLeft(LAMBDA v, registers : Ask(front, v, registers), w, calls)

PrintInt(x) == [a7 |-> 2, a0 |-> x]
Render == [a7 |-> 5]
DrawRectangle(x, y, w, h, colour) == [a7 |-> 6, a0 |-> x, a1 |-> y, a2 |-> w, a3 |-> h, a4 |-> colour]
DrawChar(unicode, x, y) == [a7 |-> 7, a0 |-> unicode, a1 |-> x, a2 |-> y]

\* crt0.s: the result of main, in a0, is the exit status.
Exit(status) == [a7 |-> 93, a0 |-> status]

\* The loop of fib: a and b, n - 1 times over.
fib(n) ==
  IF n = 0 THEN 0
  ELSE FoldLeft(LAMBDA p, i : <<p[2], p[1] + p[2]>>, <<0, 1>>, [i \in 1 .. n - 1 |-> i])[2]

\* src/examples/c/c_program.c
CProgram(front) ==
  AskAll(front, Fresh, <<PrintInt(1 * 2 + 1), PrintInt(fib(45)), PrintInt(45 * 53), PrintInt(15 \div 5), Exit(45)>>)

\* Bits of a 16-bit value, for | on fields that overlap.
BitsOf(n) == {i \in 0 .. 15 : (n \div 2^i) % 2 = 1}
OrShort(x, y, z) == LET bits == BitsOf(x) \cup BitsOf(y) \cup BitsOf(z) IN
  FoldLeft(LAMBDA sum, i : sum + (IF i \in bits THEN 2^i ELSE 0), 0, [k \in 1 .. 16 |-> k - 1])

\* r << 11 | g << 5 | b as an unsigned short, of channels that have kept 6, 7
\* and 6 bits.
rgb565(r, g, b) == OrShort((r \div 4) * 2048, (g \div 2) * 32, b \div 4)

\* get_screen_width, get_screen_height, and the two print_int both graphical
\* programs start with: the size is whatever a0 holds after the call.
AskSize(front) ==
  LET asked == Ask(front, Fresh, [a7 |-> 3])
      again == Ask(front, asked, [a7 |-> 4])
      w == asked.a0
      h == again.a0
  IN [w |-> w, h |-> h, world |-> AskAll(front, again, <<PrintInt(w), PrintInt(h)>>)]

\* src/examples/fantasy-computer/example/example.c: a frame for every row of
\* pixels, and one at the end; before the first pixel of the middle row it
\* waits for an interrupt.  The pixels are stores, not calls.
Example(front) ==
  LET size == AskSize(front)
      Row(y) == IF y = size.h \div 2 THEN <<PrintInt(y), Wfi, Render>> ELSE <<PrintInt(y), Render>>
  IN AskAll(front, size.world, FlattenSeq([y \in 1 .. size.h |-> Row(y - 1)]) \o <<Render, Exit(0)>>)

\* src/examples/fantasy-computer/menu-fantasy-computer
Menu(front) ==
  LET size == AskSize(front) IN
  AskAll(front, size.world,
         << DrawRectangle(0, 0, size.w, size.h, rgb565(0, 0, 0)),
            DrawRectangle(0, 0, size.w, size.h, rgb565(0, 0, 255)) >>
           \o [i \in 1 .. 26 |-> DrawChar(97 + i - 1, 10 + 10 * (i - 1), 100)]
           \o <<Render, Exit(0)>>)

\* src/examples/c-newlib-nano/stubs.c: a1 and a2 of the call, ptr and len, are
\* moved to a0 and a1 first; the result is what write returns.
write(front, w, file, ptr, len) ==
  IF file = 1
  THEN <<Ask(front, w, [a7 |-> 1, a0 |-> ptr, a1 |-> len, a2 |-> len]), len>>
  ELSE <<w, -1>>

\* The other functions of stubs.c: those that fail and say why, those that fail
\* and do not, and those that return something.
FailsWith == [execve |-> "ENOMEM", fork |-> "EAGAIN", kill |-> "EINVAL",
              link |-> "EMLINK", unlink |-> "ENOENT", wait |-> "ECHILD"]
FailsSilently == {"close", "open", "times"}
Returns == [fstat |-> 0, getpid |-> 1, isatty |-> 1, lseek |-> 0, read |-> 0, stat |-> 0]
Stubs == DOMAIN FailsWith \cup FailsSilently \cup DOMAIN Returns

\* What a call of one of them returns, and errno and st_mode after it.
CallStub(s, stub) ==
  [result |-> IF stub \in DOMAIN Returns THEN Returns[stub] ELSE -1,
   errno |-> IF stub \in DOMAIN FailsWith THEN FailsWith[stub] ELSE s.errno,
   st_mode |-> IF stub \in {"fstat", "stat"} THEN "S_IFCHR" ELSE s.st_mode]

-----------------------------------------------------------------------------
(* src/elf/loadelf.c and the two structures of elf.h it reads: the sizes of  *)
(* their fields, in bytes, and so where a field is.                          *)

Elf32_Ehdr == << <<"e_ident", 16>>, <<"e_type", 2>>, <<"e_machine", 2>>, <<"e_version", 4>>, <<"e_entry", 4>>,
                 <<"e_phoff", 4>>, <<"e_shoff", 4>>, <<"e_flags", 4>>, <<"e_ehsize", 2>>, <<"e_phentsize", 2>>,
                 <<"e_phnum", 2>>, <<"e_shentsize", 2>>, <<"e_shnum", 2>>, <<"e_shstrndx", 2>> >>

Elf32_Phdr == << <<"p_type", 4>>, <<"p_offset", 4>>, <<"p_vaddr", 4>>, <<"p_paddr", 4>>, <<"p_filesz", 4>>,
                 <<"p_memsz", 4>>, <<"p_flags", 4>>, <<"p_align", 4>> >>

SizesTogether(sizes) == FoldLeft(LAMBDA sum, n : sum + n, 0, sizes)
OffsetOf(struct, k) == SizesTogether([i \in 1 .. k - 1 |-> struct[i][2]])
SizeOf(struct) == OffsetOf(struct, Len(struct) + 1)

\* The uint16_t and the uint32_t at an offset, counted from 0, of buffer, which
\* is a sequence of bytes.
Short(buffer, at) == buffer[at + 1] + 256 * buffer[at + 2]
Long(buffer, at) == Short(buffer, at) + 256 * 256 * Short(buffer, at + 2)

Member(buffer, at, struct, name) ==
  LET k == SelectInSeq(struct, LAMBDA field : field[1] = name)
      from == at + OffsetOf(struct, k)
  IN IF struct[k][2] = 2 THEN Short(buffer, from) ELSE Long(buffer, from)

\* Where phdr[i - 1] is, and how many there are.
Header(phoff, i) == phoff + (i - 1) * SizeOf(Elf32_Phdr)
Headers(buffer) == 1 .. Member(buffer, 0, Elf32_Ehdr, "e_phnum")

\* (mutant) every segment is dumped
EverySegment(buffer, phoff) == Headers(buffer)

\* The program headers loadelf looks at: those with PF_X.
Executable(buffer, phoff) ==
  {i \in Headers(buffer) : Member(buffer, Header(phoff, i), Elf32_Phdr, "p_flags") % 2 = 1}

\* The entry point, and of each of those, in their order, the address, the size
\* in memory and the bytes in the file.
LoadElf(buffer) ==
  LET phoff == Member(buffer, 0, Elf32_Ehdr, "e_phoff")
      Of(i, name) == Member(buffer, Header(phoff, i), Elf32_Phdr, name)
  IN [entry |-> Member(buffer, 0, Elf32_Ehdr, "e_entry"),
      dumps |-> [i \in Executable(buffer, phoff) |->
                   <<Of(i, "p_vaddr"), Of(i, "p_memsz"),
                     SubSeq(buffer, Of(i, "p_offset") + 1, Of(i, "p_offset") + Of(i, "p_filesz"))>>]]
=============================================================================
