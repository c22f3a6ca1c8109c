----------------------------- MODULE RspPacket ------------------------------
(***************************************************************************)
(* How src/gdb_stub/rsp.h builds the packets it sends and writes and reads *)
(* hexadecimal numbers.  Characters are their ASCII codes, a packet is the *)
(* sequence of them.  A 32-bit word is the set of its one bits, so that    *)
(* the code's width can be used as it is.  The receiver's side, external,  *)
(* is the protocol's decoding of a packet.                                 *)
(***************************************************************************)
EXTENDS Integers, SequencesExt, Rv32Memory

Dollar == 36
Hash == 35
Brace == 125
Comma == 44
Colon == 58

CONSTANTS
  BufferSize,   \* RSP_BUFFER_SIZE: 1024
  WordSpace     \* how many values a uint32_t has: 2^32

\* An empty packet fits the buffer.
ASSUME PacketAssumption == {BufferSize, WordSpace} \subseteq Nat \ {0} /\ BufferSize >= 5

-----------------------------------------------------------------------------
(* Hexadecimal digits and numbers *)

rsp_is_hex_digit(h) == h \in 48 .. 57 \/ h \in 97 .. 102 \/ h \in 65 .. 70

rsp_from_hex_digit(h) ==
  CASE h \in 48 .. 57 -> h - 48
    [] h \in 97 .. 102 -> h - 97 + 10
    [] h \in 65 .. 70 -> h - 65 + 10

rsp_to_hex_digit(i) == IF i < 10 THEN 48 + i ELSE 97 + i - 10

rsp_hex_to_u8(h) == rsp_from_hex_digit(h[1]) * 16 + rsp_from_hex_digit(h[2])

rsp_packet_append_u8(b) == <<rsp_to_hex_digit(b \div 16), rsp_to_hex_digit(b % 16)>>

\* The loops of m, M, Z0 and z0 over the digits of a number: what they make of
\* the digits at the front of a text, and what they leave.
NumberEnd(text) ==
  LET end == SelectInSeq(text, LAMBDA c : ~rsp_is_hex_digit(c)) IN
  IF end = 0 THEN Len(text) ELSE end - 1
ReadNumber(text) ==
  FoldLeft(LAMBDA n, c : (16 * n + rsp_from_hex_digit(c)) % WordSpace, 0, SubSeq(text, 1, NumberEnd(text)))
AfterNumber(text) == SubSeq(text, NumberEnd(text) + 1, Len(text))

\* "addr,length..." as m and M have it; nothing where the code gives up.  The
\* length may be missing, the address may not.
ReadRange(text) ==
  LET rest == AfterNumber(text) IN
  IF NumberEnd(text) = 0 \/ rest = <<>> \/ Head(rest) # Comma THEN {}
  ELSE {[start |-> ReadNumber(text), length |-> ReadNumber(Tail(rest)), rest |-> AfterNumber(Tail(rest))]}

\* What gdb writes: a number without leading zeros.
Hexadecimal[n \in Nat] ==
  IF n < 16 THEN <<rsp_to_hex_digit(n)>>
  ELSE Append(Hexadecimal[n \div 16], rsp_to_hex_digit(n % 16))

-----------------------------------------------------------------------------
(* Packets *)

\* c ^= 0x20
FlipBit5(c) == IF (c \div 32) % 2 = 1 THEN c - 32 ELSE c + 32

\* (mutant) the escape character is not escaped
EscapeFramingOnly(c) == IF c \in {Hash, Dollar} THEN <<Brace, FlipBit5(c)>> ELSE <<c>>

Escape(c) == IF c \in {Hash, Dollar, Brace} THEN <<Brace, FlipBit5(c)>> ELSE <<c>>

\* What C takes for the string at the start of data: it ends at the first 0.
CString(data) ==
  LET end == SelectInSeq(data, LAMBDA c : c = 0)
  IN IF end = 0 THEN data ELSE SubSeq(data, 1, end - 1)

rsp_packet_append(data) ==
  LET text == CString(data) IN FlattenSeq([i \in DOMAIN text |-> Escape(text[i])])

\* p->checksum: every byte appended, the escapes too, modulo 256.
Checksum(body) == FoldLeft(LAMBDA sum, c : (sum + c) % 256, 0, body)

\* rsp_packet_begin, the appends, rsp_packet_end.
rsp_packet_end(body) ==
  <<Dollar>> \o body \o <<Hash>> \o rsp_packet_append_u8(Checksum(body)) \o <<0>>

\* The bound of rsp_packet_append_byte_raw, for all the bytes of a packet.
Fits(packet) == Len(packet) <= BufferSize

\* What is sent, as a string, of a finished packet.  The program ends, nothing
\* of the packet sent, when an append finds the buffer full.
rsp_packet_send(packet) == IF Fits(packet) THEN {CString(packet)} ELSE {}

rsp_packet_quick_send(data) == rsp_packet_send(rsp_packet_end(rsp_packet_append(data)))

-----------------------------------------------------------------------------
(* The memory commands.  ram is a function on 0 .. memSize - 1, text what    *)
(* follows the command's letter; the result is a set, empty where the        *)
(* program ends.                                                             *)

rsp_read_memory(text, ram, memSize) ==
  UNION {IF ~ChunkGranted(q.start, q.length, memSize, WordSpace) THEN rsp_packet_quick_send(<<>>)
         ELSE IF ~ReplyFits(q.length, BufferSize) THEN {}
         ELSE rsp_packet_send(rsp_packet_end(
                FlattenSeq([k \in 1 .. q.length |-> rsp_packet_append_u8(ram[q.start + k - 1])]))) :
         q \in {x \in ReadRange(text) : x.rest = <<>>}}

\* (mutant) the first digits are skipped with the colon
WriteMemoryLate(text, ram, memSize) ==
  {IF ~ChunkGranted(q.start, q.length, memSize, WordSpace) THEN ram
   ELSE Overwrite(ram, q.start, [k \in 0 .. q.length - 2 |-> rsp_hex_to_u8(SubSeq(q.rest, 2 * k + 4, 2 * k + 5))]) :
   q \in ReadRange(text)}

\* The reply is empty whether the bytes were written or refused.
rsp_write_memory(text, ram, memSize) ==
  {IF ~ChunkGranted(q.start, q.length, memSize, WordSpace) THEN ram
   ELSE Overwrite(ram, q.start, [k \in 0 .. q.length - 1 |-> rsp_hex_to_u8(SubSeq(q.rest, 2 * k + 2, 2 * k + 3))]) :
   q \in {x \in ReadRange(text) : /\ x.rest # <<>> /\ Head(x.rest) = Colon
                                    /\ Len(x.rest) - 1 = (2 * x.length) % WordSpace}}

-----------------------------------------------------------------------------
(* 32-bit words.  A byte (two digits) is the set of its one bits too. *)

ByteIndex == 0 .. 3
ByteBits == 0 .. 7

\* (mutant) the bytes in the order of a number's digits
AppendBigEndian(w) == [i \in ByteIndex |-> {b \in ByteBits : 8 * (3 - i) + b \in w}]

\* Least significant byte first.
rsp_packet_append_u32(w) == [i \in ByteIndex |-> {b \in ByteBits : 8 * i + b \in w}]

\* The order of the enumeration is the number of the register; REG_FP is 8.
rv32_register ==
  <<"zero", "ra", "sp", "gp", "tp", "t0", "t1", "t2", "s0", "s1", "a0", "a1", "a2", "a3", "a4", "a5",
    "a6", "a7", "s2", "s3", "s4", "s5", "s6", "s7", "s8", "s9", "s10", "s11", "t3", "t4", "t5", "t6">>
REG(name) == IF name = "fp" THEN 8 ELSE SelectInSeq(rv32_register, LAMBDA n : n = name) - 1

\* The answer to 'g': the 32 registers, then pc.
rsp_read_registers(r, pc) == [i \in 0 .. 32 |-> rsp_packet_append_u32(IF i < 32 THEN r[i] ELSE pc)]

\* The i-th byte is shifted by 4 * i.
rsp_hex_to_u32(h) == UNION {{4 * i + b : b \in h[i]} : i \in ByteIndex}

-----------------------------------------------------------------------------
(* The receiver *)

\* What a receiver takes between '$' and the first '#' that follows it.
BodyOf(packet) == SubSeq(packet, 2, SelectInSeq(packet, LAMBDA c : c = Hash) - 1)

\* Every character that follows an unescaped '}' has its bit 5 flipped.
Receive(d, c) ==
  IF d.escape THEN [escape |-> FALSE, text |-> Append(d.text, FlipBit5(c))]
  ELSE IF c = Brace THEN [escape |-> TRUE, text |-> d.text]
  ELSE [escape |-> FALSE, text |-> Append(d.text, c)]
Decoded(body) == FoldLeft(Receive, [escape |-> FALSE, text |-> <<>>], body).text

\* The protocol's encoding: target byte order, little-endian here.
LittleEndian(h) == UNION {{8 * i + b : b \in h[i]} : i \in ByteIndex}
=============================================================================
