------------------------------ MODULE DataLaws ------------------------------
(***************************************************************************)
(* The pure parts of the repository held against what they are meant to    *)
(* compute: arithmetic, encodings, memory accesses, packets, and what the  *)
(* example programs show.  The one variable is the case at hand; a law is  *)
(* an invariant about the cases of its kind.  The reference definitions,   *)
(* the right-hand sides, are those of the instruction set, of the remote   *)
(* protocol, of RGB565 and of ELF.                                         *)
(***************************************************************************)
EXTENDS Rv32Isa, Rv32Encoding, RspPacket, GuestPrograms

CONSTANTS
  Cases,        \* the cases, records with a field kind
  RamSize       \* mem_size in the cases about the debugger's memory commands

\* Addresses and sizes are naturals, the fields of an encoding have their bits,
\* an offset is one its format can carry, sign-extended, a range starts and is as
\* long as a word can say, characters are bytes and words have 32 bits.
Carried(format, imm) ==
  IF format = "U" THEN imm \subseteq 12 .. 31
  ELSE /\ format \in {"I", "S", "B", "J"} /\ imm \subseteq (IF format \in {"B", "J"} THEN 1 ELSE 0) .. 31
       /\ \A b \in SignBit[format] .. 31 : b \in imm <=> SignBit[format] \in imm

ASSUME CasesAssumption ==
  \A c \in Cases :
    /\ c.kind = "operands" => c.a \in Word /\ c.b \in Word
    /\ c.kind = "immediate" => c.a \in Word /\ c.imm \in Imm
    /\ c.kind = "access" => c.addr \in Nat /\ c.n \in {1, 2, 4} /\ c.size \in Nat
    /\ c.kind = "encoding" => c.f7 \in 0 .. 127 /\ c.f3 \in 0 .. 7
    /\ c.kind = "offset" => Carried(c.format, c.imm)
    /\ c.kind = "range" => {c.start, c.length} \subseteq 0 .. WordSpace - 1
    /\ c.kind = "text" => c.text \in Seq(0 .. 255)
    /\ c.kind = "word" => c.bits \subseteq 0 .. 31

\* A register's width is a power of two, and an immediate long enough to hold a
\* shift count: 32 and 12 in the code.
ASSUME ShiftAssumption == \E k \in 0 .. ImmBits : W = 2^k

\* The RAM leaves more of the address space than the buffer holds: in the code
\* 64 kB and 1024 bytes of 4 GB.
ASSUME RamAssumption == RamSize \in Nat /\ RamSize + BufferSize <= WordSpace

VARIABLE case

Init == case \in Cases
Next == UNCHANGED case
Spec == Init /\ [][Next]_case

-----------------------------------------------------------------------------
(* Arithmetic: [kind, a, b] and [kind, a, imm] *)

\* Products: the high and the low word are those of the exact product of the
\* operands, each read with the signs the instruction gives it.  Quotients and
\* remainders: a = q * b + r, r smaller than b and of the sign of a, in the one
\* case that overflows only modulo 2^W; by zero, all ones and a.
MulDivLaw ==
  case.kind = "operands" =>
    LET Op(op) == MulDiv(op, case.a, case.b)
        sa == Signed(case.a)
        sb == Signed(case.b)
        Exact(high, product) == high * 2^W + Op("mul") = product
        Divided(q, r, a, b) ==
          IF b = 0 THEN Wrap(q) = 2^W - 1 /\ r = a
          ELSE /\ Wrap(q * b + r) = Wrap(a)
               /\ Magnitude(r) < Magnitude(b) /\ (r # 0 => (r < 0) = (a < 0))
               /\ Magnitude(q * b) <= Magnitude(a)
    IN /\ Exact(Signed(Op("mulh")), sa * sb)
       /\ Exact(Signed(Op("mulhsu")), sa * case.b)
       /\ Exact(Op("mulhu"), case.a * case.b)
       /\ Divided(Signed(Op("div")), Signed(Op("rem")), sa, sb)
       /\ Divided(Op("divu"), Op("remu"), case.a, case.b)

\* One order for signed and one for unsigned operands, in slt, sltu and all
\* branches: moving both operands by half the range turns one into the other;
\* an arithmetic shift is a logical one seen in the complement.
OrderLaw ==
  case.kind = "operands" =>
    LET a == case.a
        b == case.b
        Half(x) == Xor(x, 2^(W - 1))
        Not(x) == Xor(x, 2^W - 1)
    IN /\ RegOp("slt", a, b) = RegOp("sltu", Half(a), Half(b))
       /\ RegOp("sltu", a, b) = Flag(Taken("bltu", a, b)) /\ RegOp("slt", a, b) = Flag(Taken("blt", a, b))
       /\ Taken("bge", a, b) # Taken("blt", a, b) /\ Taken("bgeu", a, b) # Taken("bltu", a, b)
       /\ Taken("beq", a, b) = (RegOp("sub", a, b) = 0) /\ Taken("bne", a, b) # Taken("beq", a, b)
       /\ RegOp("sra", a, b) =
            IF Signed(a) < 0 THEN Not(RegOp("srl", Not(a), b)) ELSE RegOp("srl", a, b)

\* The instruction with an immediate is the one with a register that holds the
\* sign-extended immediate, but for sltiu: with a negative immediate it compares
\* with the unextended one, so it is wrong from that value on.
ImmediateLaw ==
  case.kind = "immediate" =>
    LET v == SextImm(case.imm)
        Same(immOp, regOp) == ImmOp(immOp, case.a, case.imm) = RegOp(regOp, case.a, v)
    IN /\ Signed(v) = IF case.imm < 2^(ImmBits - 1) THEN case.imm ELSE case.imm - 2^ImmBits
       /\ Same("addi", "add") /\ Same("xori", "xor") /\ Same("ori", "or") /\ Same("andi", "and")
       /\ Same("slli", "sll") /\ Same("srli", "srl") /\ Same("srai", "sra") /\ Same("slti", "slt")
       /\ Same("sltiu", "sltu") <=> ~(v # case.imm /\ case.imm <= case.a /\ case.a < v)

-----------------------------------------------------------------------------
(* Encodings: [kind, f7, f3] and [kind, format, imm] *)

\* The instruction set's opcodes 0x33 and 0x13; no_insn where it has none.
Isa33(f7, f3) ==
  CASE f7 = 0 -> <<"add", "sll", "slt", "sltu", "xor", "srl", "or", "and">>[f3 + 1]
    [] f7 = 1 -> <<"mul", "mulh", "mulhsu", "mulhu", "div", "divu", "rem", "remu">>[f3 + 1]
    [] f7 = 32 /\ f3 = 0 -> "sub"
    [] f7 = 32 /\ f3 = 5 -> "sra"
    [] OTHER -> "no_insn"
Isa13(f7, f3) ==
  CASE f3 = 1 -> IF f7 = 0 THEN "slli" ELSE "no_insn"
    [] f3 = 5 -> (CASE f7 = 0 -> "srli" [] f7 = 32 -> "srai" [] OTHER -> "no_insn")
    [] OTHER -> <<"addi", "", "slti", "sltiu", "xori", "", "ori", "andi">>[f3 + 1]

\* Every encoding of an instruction is decoded as that instruction.  An
\* encoding of none is illegal where funct7 chooses between two instructions
\* (add and sub, srl and sra), and passes for the one instruction elsewhere.
DecodesLaw ==
  case.kind = "encoding" =>
    LET Law(decoded, isa, chosen) ==
          IF isa # "no_insn" THEN decoded = isa ELSE decoded = "illegal" <=> case.f3 \in chosen
    IN /\ Law(Decode33(case.f7, case.f3), Isa33(case.f7, case.f3), {0, 5})
       /\ Law(Decode13(case.f7, case.f3), Isa13(case.f7, case.f3), {5})

\* What the assembler put into an instruction is the immediate or offset the
\* hart gets, with one exception: a jump offset of 512 kB or more either way,
\* whose bits 19 and 20 differ (SEXT_IMM_J extends from bit 19).
OffsetLaw ==
  case.kind = "offset" =>
    IF case.format = "U" THEN UpperImmediate(Encode("U", case.imm)) = case.imm
    ELSE Offset(case.format, Encode(case.format, case.imm)) = case.imm
           <=> (case.format = "J" => (19 \in case.imm <=> 20 \in case.imm))

-----------------------------------------------------------------------------
(* Memory: [kind, addr, n, size], [kind, start, length] and [kind, off, n, size] *)

\* A pixel stored at addr is the pixel shown, and no other changes, on the
\* desktop.  The Arduino, whose screen wants the bytes of a pixel exchanged,
\* clears the pixel to the right of it too.
PixelShown(addr, size) ==
    LET screen == [i \in 0 .. size - 1 |-> 9]
        pixel == [k \in 0 .. 1 |-> k + 1]
        shown == Overwrite(screen, addr, pixel)
        board == ArduinoStore(screen, addr, pixel, 2)
    IN ArduinoGranted(addr, 2, size) =>
         /\ FantasyGranted(addr, 2, size)
         /\ \A i \in DOMAIN screen :
              board[i] = CASE i = addr -> shown[i + 1]
                           [] i = addr + 1 -> shown[i - 1]
                           [] i \in addr + 2 .. addr + 3 -> 0
                           [] OTHER -> shown[i]

\* Loads and stores are granted exactly when all their bytes are inside.  The
\* exceptions: a RAM too small for one access of that width, where the unsigned
\* bound wraps and everything is granted, by the fork when it lacks two bytes or
\* more; the fork's sh and fetch, granted one and three bytes late, within the
\* bytes its allocation has spare; and the Arduino's pixel half-words, refused
\* two bytes early.  Pixels end up where they were stored, one neighbour on the
\* Arduino excepted.
AccessLaw ==
  case.kind = "access" =>
    LET inside == Inside(case.addr, case.n, case.size) IN
    /\ Granted(case.addr, case.n, case.size) <=> inside \/ case.size < case.n
    /\ ForkGranted(case.addr, case.n, case.size) <=> inside \/ case.size < case.n - 1
    /\ ForkGrantedHalf(case.addr, case.size) => Inside(case.addr, 2, case.size + ForkSpare)
    /\ ForkGrantedFetch(case.addr, case.size) => Inside(case.addr, 4, case.size + ForkSpare)
    /\ FantasyGranted(case.addr, case.n, case.size) <=> inside
    /\ ArduinoGranted(case.addr, case.n, case.size)
         <=> (case.n = 1 /\ inside) \/ (case.n = 2 /\ Inside(case.addr, 4, case.size))
    /\ PixelShown(case.addr, case.size)

\* gdb's requests, and the digits of bytes.
Request(start, length) == Hexadecimal[start] \o <<Comma>> \o Hexadecimal[length]
DigitsOf(bytes, length) == FlattenSeq([k \in 1 .. length |-> rsp_packet_append_u8(bytes[k - 1])])

\* m reads what is in RAM, so what M has written.  The exceptions: a range that
\* ends at the last byte of RAM or beyond is refused, by M without a word; an M,
\* its letter included, that the input buffer has no room for ends the program,
\* as do an answer that does not fit the output buffer and, of m, a length so
\* large that the end of the range wraps into RAM.
ReadBackAs(start, length, bytes, ram) ==
    LET end == start + length
        wraps == start < RamSize /\ end \in WordSpace .. WordSpace + RamSize - 1
        ask == Request(start, length)
        command == ask \o <<Colon>> \o DigitsOf(bytes, length)
        received == 1 + Len(command) <= BufferSize
        written == IF received THEN rsp_write_memory(command, ram, RamSize) ELSE {}
        Answers(now) == {Decoded(BodyOf(reply)) : reply \in rsp_read_memory(ask, now, RamSize)}
        Answered(content) == IF end >= RamSize /\ ~wraps THEN {<<>>}
                             ELSE IF ~Fits(rsp_packet_end(DigitsOf(bytes, length))) THEN {}
                             ELSE {DigitsOf(content, length)}
    IN /\ received => written = {IF end < RamSize THEN Overwrite(ram, start, bytes) ELSE ram}
       /\ Answers(ram) = Answered(BytesAt(ram, start, length))
       /\ \A new \in written : Answers(new) = Answered(bytes)

\* Some bytes written over a RAM of others.
MemoryLaw ==
  case.kind = "range" =>
    ReadBackAs(case.start, case.length,
               [k \in 0 .. case.length - 1 |-> (37 * k + 200) % 256], [i \in 0 .. RamSize - 1 |-> i % 256])

-----------------------------------------------------------------------------
(* Packets: [kind, text] and [kind, bits] *)

\* The calling convention's registers: the numbers of each kind.
Temporaries == <<"t0", "t1", "t2", "t3", "t4", "t5", "t6">>
Saved == <<"s0", "s1", "s2", "s3", "s4", "s5", "s6", "s7", "s8", "s9", "s10", "s11">>
Arguments == <<"a0", "a1", "a2", "a3", "a4", "a5", "a6", "a7">>
AbiName(i) ==
  CASE i < 5 -> <<"zero", "ra", "sp", "gp", "tp">>[i + 1]
    [] i \in 5 .. 7 -> Temporaries[i - 4]
    [] i \in 8 .. 9 -> Saved[i - 7]
    [] i \in 10 .. 17 -> Arguments[i - 9]
    [] i \in 18 .. 27 -> Saved[i - 15]
    [] i > 27 -> Temporaries[i - 24]

\* The receiver of a packet gets the string, whatever characters are in it, and
\* the checksum it computes is the one sent ('*', which would mean a run
\* length, is in no reply of the stub).  Nothing is sent, and the program ends,
\* exactly when the string, its escapes, the framing and the final 0 are too
\* much for the buffer.
TextArrivesAs(data) ==
    LET text == CString(data)
        escapes == Cardinality({i \in DOMAIN text : text[i] \in {Hash, Dollar, Brace}})
        sent == rsp_packet_quick_send(data)
    IN /\ sent = {} <=> Len(text) + escapes + 5 > BufferSize
       /\ \A packet \in sent :
            LET body == BodyOf(packet)
                digits == SubSeq(packet, Len(packet) - 1, Len(packet))
            IN /\ Decoded(body) = text
               /\ packet = <<Dollar>> \o body \o <<Hash>> \o digits
               /\ rsp_hex_to_u8(digits) = Checksum(body)
               /\ Dollar \notin {body[i] : i \in DOMAIN body}

TextLaw == case.kind = "text" => TextArrivesAs(case.text)

\* gdb shows each register, found by its name in the calling convention, and pc
\* as they are; one that gdb writes arrives exactly when its value is below 256:
\* of larger ones the nibbles overlap.
WordLaw ==
  case.kind = "word" =>
    LET r == [i \in 0 .. 31 |-> {(b + i) % 32 : b \in case.bits}]
        shown == [i \in 0 .. 32 |-> LittleEndian(rsp_read_registers(r, case.bits)[i])]
    IN /\ \A i \in 0 .. 31 : shown[i] = r[REG(AbiName(i))]
       /\ shown[32] = case.bits /\ REG("fp") = REG("s0")
       /\ rsp_hex_to_u32(rsp_packet_append_u32(case.bits)) = case.bits <=> case.bits \subseteq ByteBits

\* "example: "cdab3412" -> 0x1234abcd": rsp_hex_to_u32 reads a little-endian
\* word.
ReadsLittleEndian ==
  case.kind = "word" =>
    LET h == rsp_packet_append_u32(case.bits) IN rsp_hex_to_u32(h) = LittleEndian(h)

-----------------------------------------------------------------------------
(* Programs: [kind, front], [kind, r, g, b], [kind, first, second] and       *)
(* [kind, segments]                                                          *)

Ints(shown) == SelectSeq(shown, LAMBDA event : event[1] = "int")
Drawn(shown) == SelectSeq(shown, LAMBDA event : event[1] \in {"rectangle", "glyph"})
Frames(shown) == Len(SelectSeq(shown, LAMBDA event : event[1] = "frame"))

\* The newlib stub reports everything as written; what is printed are the len
\* bytes at address len, so the text only if it lies there.
WritePrints(ptr, len) ==
  LET done == write("newlib", Fresh, 1, ptr, len) IN
  /\ done[2] = len
  /\ done[1].shown = << <<"bytes", ptr, len>> >> <=> ptr = len

\* The calls of two programs that differ in the first one: the same results, and
\* after a failure the same errno, unless the call leaves that of an earlier one.
\* Every file is a terminal that is always at its end.
SaysWhy(first, second) ==
  LET nothing == [result |-> 0, errno |-> "none", st_mode |-> "none"]
      one == CallStub(nothing, first)
      other == CallStub(nothing, second)
  IN \A last \in Stubs :
       LET x == CallStub(one, last)
           y == CallStub(other, last)
       IN /\ x.result = y.result
          /\ x.result = -1 =>
               (x.errno = y.errno <=> last \notin {"close", "open", "times"} \/ one.errno = other.errno)
          /\ last \in {"stat", "fstat"} => x.st_mode = "S_IFCHR" /\ CallStub(x, "isatty").result = 1
          /\ CallStub(x, "read").result = 0 /\ CallStub(x, "read").errno = x.errno

\* On every front end that prints numbers, the C program prints its four and
\* exits with 45.  The two graphical programs know the size of the screen where
\* there is one.  The example gets no further than the middle row, where it
\* sleeps for ever with half its frames drawn; the menu draws nothing but an
\* empty frame on the desktop, which has no calls 6 and 7.  The newlib
\* emulator serves none of these programs, halts none, and prints for a write
\* something else.  The second number of the C program is fib(45).  A colour
\* keeps its channels apart exactly when they are below 128; brighter ones run
\* into each other (green and blue) or lose their top bit (red).  A newlib
\* program whose open, close or times fails finds the reason of an older failure.
ProgramLaw ==
  /\ case.kind = "colour" =>
       LET c == rgb565(case.r, case.g, case.b) IN
       (<<c \div 2048, (c \div 32) % 64, c % 32>> = <<case.r \div 4, case.g \div 2, case.b \div 4>>)
         <=> \A x \in {case.r, case.g, case.b} : x < 128
  /\ case.kind = "calls" => SaysWhy(case.first, case.second)
  /\ case.kind = "front" =>
    LET c == CProgram(case.front)
        example == Example(case.front)
        menu == Menu(case.front)
        numbers == <<3, 1134903170, 2385, 3>>
        screen == case.front \in {"fantasy", "pio"}
        size == << <<"int", ScreenWidth>>, <<"int", ScreenHeight>> >>
    IN /\ c.halted <=> case.front # "newlib"
       /\ c.halted => c.a0 = 45
       /\ Ints(c.shown) = IF case.front \in {"embedding", "fantasy", "pio", "ino"}
                          THEN [i \in 1 .. 4 |-> <<"int", numbers[i]>>] ELSE <<>>
       /\ screen => /\ Ints(example.shown) = size \o [y \in 1 .. ScreenHeight \div 2 + 1 |-> <<"int", y - 1>>]
                    /\ Frames(example.shown) = ScreenHeight \div 2
                    /\ example.asleep /\ ~example.halted
                    /\ Ints(menu.shown) = size /\ Frames(menu.shown) = 1
       /\ Len(Drawn(menu.shown)) = IF case.front = "pio" THEN 28 ELSE 0
       /\ \A ptr, len \in 0 .. 2 : WritePrints(ptr, len)

\* A file with these segments, as ELF lays them out: the headers, with the
\* values of their fields in order, and the bytes of each segment.
High(n) == n \div 256
Little(n, width) ==
  LET rest == <<n, High(n), High(High(n)), High(High(High(n)))>>
  IN [k \in 1 .. width |-> IF k > 4 THEN 0 ELSE rest[k] % 256]
Laid(struct, values) == FlattenSeq([k \in DOMAIN struct |-> Little(values[k], struct[k][2])])
Before(segments, k) == SizesTogether([i \in 1 .. k - 1 |-> Len(segments[i].bytes)])
FileHeader(segments) == <<0, 0, 0, 0, 4100, 52, 0, 0, 0, 0, Len(segments), 0, 0, 0>>
SegmentHeader(segments, k) ==
  LET size == Len(segments[k].bytes)
  IN <<0, 52 + 32 * Len(segments) + Before(segments, k), 4096 * k, 0, size, size + k, segments[k].flags, 0>>
ElfFile(segments) ==
  Laid(Elf32_Ehdr, FileHeader(segments))
    \o FlattenSeq([k \in DOMAIN segments |-> Laid(Elf32_Phdr, SegmentHeader(segments, k))])
    \o FlattenSeq([k \in DOMAIN segments |-> segments[k].bytes])

\* A file has as many segments and bytes as numbers of 16 and 32 bits count.
ASSUME FilesAssumption ==
  \A c \in Cases : c.kind = "elf" =>
    /\ c.segments \in Seq([flags : 0 .. 7, bytes : Seq(0 .. 255)])
    /\ High(Len(c.segments)) < 256
    /\ High(High(High(Len(ElfFile(c.segments))))) < 256

\* loadelf lists the executable segments of a file, each with its own bytes.
ElfLaw ==
  case.kind = "elf" =>
    LET segments == case.segments
        found == LoadElf(ElfFile(segments))
    IN /\ found.entry = 4100
       /\ found.dumps = [k \in {k \in DOMAIN segments : segments[k].flags \in {1, 3, 5, 7}} |->
            <<4096 * k, Len(segments[k].bytes) + k, segments[k].bytes>>]
=============================================================================
