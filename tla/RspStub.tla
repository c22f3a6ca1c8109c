------------------------------ MODULE RspStub -------------------------------
(***************************************************************************)
(* The debugger stub of src/gdb_stub/rsp.h: rsp_handle_byte, which eats    *)
(* gdb's bytes one at a time, and the command handlers behind it, acting   *)
(* on the hart and the RAM of Rv32Hart.tla.                                *)
(*                                                                         *)
(* What is abstracted.  A command is one token of the packet's data and    *)
(* stands for all the bytes of a well-formed command; addresses are in     *)
(* words, and m and M move one word.  A checksum digit is the half of the  *)
(* checksum of one command, and different data never have the same         *)
(* checksum.  What the stub sends is a queue of whole packets and acks.    *)
(***************************************************************************)
EXTENDS Rv32Hart, Sequences

CONSTANTS
  BufferSize,   \* RSP_BUFFER_SIZE, in tokens
  HexU32        \* what rsp_hex_to_u32 makes of each address gdb sends in G and P

ASSUME BufferAssumption == BufferSize \in Nat \ {0}
ASSUME HexAssumption == HexU32 \in [Addr -> Addr]

\* P's register is x0 to x15, x16 to x31, pc (32) or one beyond.
Op == {"query", "?", "g", "G", "P low", "P high", "P pc", "P beyond",
       "m", "M", "Z0", "z0", "c", "D", "k", "other"}
Command == [op : Op, addr : Addr]
NoCommand == [op |-> "none", addr |-> 0]

\* What gdb sends: packet framing, command tokens, checksum digits, acks, and
\* the interrupt character (3).
Byte == [b : {"$", "#", "+", "-", "intr"}, of : {NoCommand}]
          \cup [b : {"data", "digit"}, of : Command \cup {NoCommand}]

Plain(b) == [b |-> b, of |-> NoCommand]
Packet(cmd) == << Plain("$"), [b |-> "data", of |-> cmd], Plain("#"),
                  [b |-> "digit", of |-> cmd], [b |-> "digit", of |-> cmd] >>

\* What the stub sends: acks, and packets with their text.  A packet answers
\* op, or is a stop report.  The guest's console shares the stub's output.
Signal == {"S02", "S04", "S05", "S0b"}
Text == Signal \cup {"", "OK", "text"}
Output == [k : {"+", "-", "console"}, text : {""}, answers : {"none"}]
            \cup [k : {"packet"}, text : Text, answers : Op \cup {"stop"}]

Ack(k) == [k |-> k, text |-> "", answers |-> "none"]
Reply(op, text) == [k |-> "packet", text |-> text, answers |-> op]

VARIABLES
  rsp,          \* the static variables of rsp_handle_byte, and whether RSP_FATAL ended the program
  toStub,       \* bytes on their way from gdb
  toGdb         \* what the stub has sent and gdb has not read

RspState == {"WAIT_START", "PACKET_DATA", "CHECKSUM_1", "CHECKSUM_2", "WAIT_ACK"}

Fatal == {"input buffer too small", "invalid hex digit", "gdb didn't acknowledge last packet",
          "invalid 'P' message from gdb", "invalid register in P command"}

Rsp == [state : RspState, data : Seq(Command \cup {NoCommand}),
        digit : Command \cup {NoCommand}, fatal : Fatal \cup {"none"}]

NewRsp == [state |-> "WAIT_START", data |-> <<>>, digit |-> NoCommand, fatal |-> "none"]

Die(msg) == rsp' = [rsp EXCEPT !.fatal = msg]

-----------------------------------------------------------------------------
(* rsp_handle_packet: one action per command, leaving the hart and RAM as    *)
(* the handler does; text is what it answers.                                *)

NoChange == UNCHANGED hartVars

\* "qSupported", "qAttached", "?" (always S05), "g" and whatever the stub does
\* not know: an answer and nothing else.
HandleQuery(cmd, text) ==
  /\ \/ cmd.op \in {"query", "g"} /\ text = "text"
     \/ cmd.op = "?" /\ text = "S05"
     \/ cmd.op = "other" /\ text = ""
  /\ NoChange

\* G writes pc last and answers "" as if it were not supported.
rsp_write_registers(cmd, text) ==
  /\ cmd.op = "G" /\ text = ""
  /\ hart' = [hart EXCEPT !.pc = HexU32[cmd.addr]]
  /\ UNCHANGED mem

\* The values of x16 to x31 are not modelled.
rsp_write_specific_register(cmd, text) ==
  /\ cmd.op \in {"P high", "P pc"} /\ text = "OK"
  /\ hart' = IF cmd.op = "P pc" THEN [hart EXCEPT !.pc = HexU32[cmd.addr]] ELSE hart
  /\ UNCHANGED mem

\* Its fatal exits.  gdb writes the number of a register without leading zeros:
\* that of x0 to x15 has one digit, and the packet 11 characters instead of 12.
Refusal(cmd) ==
  CASE cmd.op = "P low" -> "invalid 'P' message from gdb"
    [] cmd.op = "P beyond" -> "invalid register in P command"
    [] OTHER -> "none"

\* The bound refuses the last word of RAM.
Readable(a) == a + 1 < RamWords

rsp_read_memory(cmd, text) ==
  /\ cmd.op = "m"
  /\ text = IF Readable(cmd.addr) THEN "text" ELSE ""
  /\ NoChange

\* M answers "" whether it has written or refused.
rsp_write_memory(cmd, text) ==
  /\ cmd.op = "M" /\ text = ""
  /\ IF Readable(cmd.addr)
     THEN \E i \in GuestInstr : mem' = [mem EXCEPT ![cmd.addr] = i]
     ELSE UNCHANGED mem
  /\ UNCHANGED hart

\* (mutant) a full table is not reported
AnswerOk(ret) == "OK"

Answer(ret) == IF ret = 1 THEN "OK" ELSE ""

rsp_set_software_breakpoint(cmd, text) ==
  /\ cmd.op = "Z0"
  /\ \E o \in rv32_set_breakpoint(hart, cmd.addr) : hart' = o[1] /\ text = Answer(o[2])
  /\ UNCHANGED mem

rsp_clear_software_breakpoint(cmd, text) ==
  /\ cmd.op = "z0"
  /\ \E o \in rv32_clear_breakpoint(hart, cmd.addr) : hart' = o[1] /\ text = Answer(o[2])
  /\ UNCHANGED mem

rsp_detach(cmd, text) ==
  /\ cmd.op = "D" /\ text = "OK"
  /\ hart' = rv32_resume(rv32_clear_all_breakpoints(hart))
  /\ UNCHANGED mem

\* The two commands that send nothing.
rsp_continue(cmd) == cmd.op = "c" /\ hart' = rv32_resume(hart) /\ UNCHANGED mem

rsp_kill(cmd) == cmd.op = "k" /\ rv32_reset

Answers(cmd, text) ==
  \/ HandleQuery(cmd, text)
  \/ rsp_write_registers(cmd, text)
  \/ rsp_write_specific_register(cmd, text)
  \/ rsp_read_memory(cmd, text)
  \/ rsp_write_memory(cmd, text)
  \/ rsp_set_software_breakpoint(cmd, text)
  \/ rsp_clear_software_breakpoint(cmd, text)
  \/ rsp_detach(cmd, text)

-----------------------------------------------------------------------------
(* rsp_handle_byte: one action per state and kind of byte.  The caller has   *)
(* taken byte c out of toStub.                                               *)

\* '$' opens a packet.
StartPacket(c) ==
  /\ rsp.state = "WAIT_START" /\ c.b = "$"
  /\ rsp' = [rsp EXCEPT !.state = "PACKET_DATA", !.data = <<>>, !.digit = NoCommand]
  /\ UNCHANGED <<hart, mem, toGdb>>

\* (mutants) the interrupt is acknowledged like a packet; the hart is not
\* paused; a stopped hart is not reported
InterruptAcked(c) ==
  /\ rsp.state = "WAIT_START" /\ c.b = "intr"
  /\ hart' = [hart EXCEPT !.status = "PAUSED"]
  /\ toGdb' = toGdb \o <<Ack("+"), Reply("stop", "S02")>>
  /\ rsp' = [rsp EXCEPT !.data = <<>>, !.digit = NoCommand]
  /\ UNCHANGED mem

InterruptOnlyReports(c) ==
  /\ rsp.state = "WAIT_START" /\ c.b = "intr"
  /\ toGdb' = Append(toGdb, Reply("stop", "S02"))
  /\ rsp' = [rsp EXCEPT !.data = <<>>, !.digit = NoCommand]
  /\ UNCHANGED hartVars

InterruptIfRunning(c) ==
  /\ rsp.state = "WAIT_START" /\ c.b = "intr"
  /\ toGdb' = IF hart.status = "RUNNING" THEN Append(toGdb, Reply("stop", "S02")) ELSE toGdb
  /\ hart' = [hart EXCEPT !.status = IF @ = "RUNNING" THEN "PAUSED" ELSE @]
  /\ rsp' = [rsp EXCEPT !.data = <<>>, !.digit = NoCommand]
  /\ UNCHANGED mem

\* The interrupt character pauses the hart whatever its status was.
Interrupt(c) ==
  /\ rsp.state = "WAIT_START" /\ c.b = "intr"
  /\ hart' = [hart EXCEPT !.status = "PAUSED"]
  /\ toGdb' = Append(toGdb, Reply("stop", "S02"))
  /\ rsp' = [rsp EXCEPT !.data = <<>>, !.digit = NoCommand]
  /\ UNCHANGED mem

\* Anything else between packets is dropped: acks of stop reports, noise.
Ignore(c) ==
  /\ rsp.state = "WAIT_START" /\ c.b \notin {"$", "intr"}
  /\ rsp' = [rsp EXCEPT !.data = <<>>, !.digit = NoCommand]
  /\ UNCHANGED <<hart, mem, toGdb>>

EndOfData(c) ==
  /\ rsp.state = "PACKET_DATA" /\ c.b = "#"
  /\ rsp' = [rsp EXCEPT !.state = "CHECKSUM_1"]
  /\ UNCHANGED <<hart, mem, toGdb>>

\* (mutant) one byte too many
CollectPastEnd(c) ==
  /\ rsp.state = "PACKET_DATA" /\ c.b # "#"
  /\ IF Len(rsp.data) <= BufferSize
     THEN rsp' = [rsp EXCEPT !.data = Append(@, IF c.b = "data" THEN c.of ELSE NoCommand)]
     ELSE Die("input buffer too small")
  /\ UNCHANGED <<hart, mem, toGdb>>

\* Any other byte is data, a '$' or an interrupt character too.
Collect(c) ==
  /\ rsp.state = "PACKET_DATA" /\ c.b # "#"
  /\ IF Len(rsp.data) < BufferSize
     THEN rsp' = [rsp EXCEPT !.data = Append(@, IF c.b = "data" THEN c.of ELSE NoCommand)]
     ELSE Die("input buffer too small")
  /\ UNCHANGED <<hart, mem, toGdb>>

\* A byte that is not a checksum digit ends the program, unless it is a data
\* byte that happens to be a hex digit.
Checksum1(c) ==
  /\ rsp.state = "CHECKSUM_1" /\ c.b \in {"digit", "data"}
  /\ rsp' = [rsp EXCEPT !.state = "CHECKSUM_2",
                        !.digit = IF c.b = "digit" THEN c.of ELSE NoCommand]
  /\ UNCHANGED <<hart, mem, toGdb>>

BadDigit(c) ==
  /\ rsp.state \in {"CHECKSUM_1", "CHECKSUM_2"} /\ c.b # "digit"
  /\ Die("invalid hex digit")
  /\ UNCHANGED <<hart, mem, toGdb>>

\* (mutant) the checksum is not compared
MatchesAnything(c) == c.b = "digit"

\* sum1 = sum2
Matches(c) == c.b = "digit" /\ c.of # NoCommand /\ rsp.digit = c.of /\ rsp.data = <<c.of>>

\* The command in in_buffer: what is no command is one the stub does not know.
Received ==
  IF Len(rsp.data) = 1 /\ rsp.data[1] # NoCommand THEN rsp.data[1] ELSE [op |-> "other", addr |-> 0]

\* (mutant) the answer overtakes the ack
AnswerFirst(c) ==
  /\ rsp.state = "CHECKSUM_2" /\ Matches(c)
  /\ \E text \in Text :
       /\ Answers(Received, text)
       /\ toGdb' = toGdb \o <<Reply(Received.op, text), Ack("+")>>
  /\ rsp' = [rsp EXCEPT !.state = "WAIT_ACK"]

\* The packet is good: "+", then the command, and its answer if it has one.
PacketAnswered(c) ==
  /\ rsp.state = "CHECKSUM_2" /\ Matches(c)
  /\ \E text \in Text :
       /\ Answers(Received, text)
       /\ toGdb' = toGdb \o <<Ack("+"), Reply(Received.op, text)>>
  /\ rsp' = [rsp EXCEPT !.state = "WAIT_ACK"]

\* (mutant) an ack is awaited for a packet that was not sent
UnansweredWaits(c) ==
  /\ rsp.state = "CHECKSUM_2" /\ Matches(c)
  /\ rsp_continue(Received) \/ rsp_kill(Received)
  /\ toGdb' = Append(toGdb, Ack("+"))
  /\ rsp' = [rsp EXCEPT !.state = "WAIT_ACK"]

PacketUnanswered(c) ==
  /\ rsp.state = "CHECKSUM_2" /\ Matches(c)
  /\ rsp_continue(Received) \/ rsp_kill(Received)
  /\ toGdb' = Append(toGdb, Ack("+"))
  /\ rsp' = [rsp EXCEPT !.state = "WAIT_START"]

\* The packet is good and the handler ends the program, its "+" already sent.
PacketFatal(c) ==
  /\ rsp.state = "CHECKSUM_2" /\ Matches(c) /\ Refusal(Received) # "none"
  /\ toGdb' = Append(toGdb, Ack("+"))
  /\ Die(Refusal(Received))
  /\ UNCHANGED hartVars

\* The packet is bad: "-".  handler_result is read without having been set, so
\* the next state is either one.
PacketRejected(c) ==
  /\ rsp.state = "CHECKSUM_2" /\ c.b \in {"digit", "data"} /\ ~Matches(c)
  /\ toGdb' = Append(toGdb, Ack("-"))
  /\ \E s \in {"WAIT_ACK", "WAIT_START"} : rsp' = [rsp EXCEPT !.state = s]
  /\ UNCHANGED hartVars

\* After a packet of ours: '+', or the end.
Acknowledged(c) ==
  /\ rsp.state = "WAIT_ACK" /\ c.b = "+"
  /\ rsp' = [rsp EXCEPT !.state = "WAIT_START"]
  /\ UNCHANGED <<hart, mem, toGdb>>

NotAcknowledged(c) ==
  /\ rsp.state = "WAIT_ACK" /\ c.b # "+"
  /\ Die("gdb didn't acknowledge last packet")
  /\ UNCHANGED <<hart, mem, toGdb>>

rsp_handle_byte(c) ==
  \/ StartPacket(c) \/ Interrupt(c) \/ Ignore(c)
  \/ EndOfData(c) \/ Collect(c)
  \/ Checksum1(c) \/ BadDigit(c)
  \/ PacketAnswered(c) \/ PacketUnanswered(c) \/ PacketFatal(c) \/ PacketRejected(c)
  \/ Acknowledged(c) \/ NotAcknowledged(c)
=============================================================================
