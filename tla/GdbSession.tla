----------------------------- MODULE GdbSession -----------------------------
(***************************************************************************)
(* A debugging session: gdb, the link, and a program whose loop polls the  *)
(* link, feeds rsp_handle_byte, runs the hart and reports its stops: that  *)
(* of src/gdb_stub/main.c on a pc, where the link is stdin and stdout, or  *)
(* that of the two sketches of src/examples/arduino on a board, where the  *)
(* link is a serial port of its own.                                       *)
(*                                                                         *)
(* gdb is external.  It is modelled by the protocol the stub expects: one  *)
(* command at a time, an ack for every packet it reads, the interrupt      *)
(* character only while the target runs, a packet read where an ack was    *)
(* expected taken for a late duplicate: acked and dropped.                 *)
(***************************************************************************)
EXTENDS RspStub

CONSTANTS
  Commands,     \* the commands this gdb uses
  MaxCommands,  \* how many of them it sends
  MaxFaults,    \* how many bytes to the stub the link loses or garbles
  MaxConsole,   \* how many bytes the guest writes to its console
  Devices,      \* where the stub runs: "pc", "board"
  MaxResends    \* how many times gdb sends a command again

ASSUME SessionAssumption ==
  /\ Commands \subseteq Command /\ {MaxCommands, MaxFaults, MaxConsole, MaxResends} \subseteq Nat
  /\ Devices \subseteq {"pc", "board"}

VARIABLES
  device,       \* where the stub runs
  loop,         \* where main() is: about to poll, about to run a cycle, or out
  stdin,        \* what read(2) has put in fgetc's buffer and fgetc has not returned
  gdb,          \* gdb's phase, its command, the breakpoints it believes set
  budget        \* commands, faults and resends left

sessionVars == <<hart, mem, rsp, toStub, toGdb, device, loop, stdin, gdb, budget>>

Phase == {"idle",       \* the user may type a command; gdb does not read
          "waitAck", "waitReply",
          "running",    \* after c: waiting for a stop report
          "gone"}       \* after D or k: the link is closed

Gdb == [phase : Phase, cmd : Command \cup {NoCommand}, bps : SUBSET Addr, intr : BOOLEAN]

Init ==
  /\ hart = NewHart
  /\ mem \in [Ram -> GuestInstr]
  /\ rsp = NewRsp
  /\ toStub = <<>>
  /\ toGdb = <<>>
  /\ device \in Devices
  /\ loop = "poll"
  /\ stdin = <<>>
  /\ gdb = [phase |-> "idle", cmd |-> NoCommand, bps |-> {}, intr |-> FALSE]
  /\ budget = [commands |-> MaxCommands, faults |-> MaxFaults, console |-> MaxConsole, resends |-> MaxResends]

-----------------------------------------------------------------------------
(* The loop of main() *)

Alive == rsp.fatal = "none"

\* (mutant) a closed link is nothing to read
InputAvailableOpen == toStub # <<>>

\* input_available() asks the kernel, not fgetc's buffer: bytes that an earlier
\* read has buffered do not count.
InputAvailable == toStub # <<>> \/ (device = "pc" /\ gdb.phase = "gone")

\* fgetc returns the next byte of its buffer,
PollBuffered ==
  /\ Alive /\ loop = "poll" /\ stdin # <<>>
  /\ InputAvailable \/ hart.status # "RUNNING"
  /\ rsp_handle_byte(Head(stdin))
  /\ stdin' = Tail(stdin)
  /\ loop' = "run"
  /\ UNCHANGED <<toStub, gdb, budget>>

\* or reads all the bytes that have arrived and returns the first of them.
PollByte ==
  /\ device = "pc"
  /\ Alive /\ loop = "poll" /\ stdin = <<>> /\ toStub # <<>>
  /\ rsp_handle_byte(Head(toStub))
  /\ \E n \in 1 .. Len(toStub) :
       /\ stdin' = SubSeq(toStub, 2, n)
       /\ toStub' = SubSeq(toStub, n + 1, Len(toStub))
  /\ loop' = "run"
  /\ UNCHANGED <<gdb, budget>>

\* Serial1.available() counts what Serial1.read() returns, byte by byte.
PollSerial ==
  /\ device = "board"
  /\ Alive /\ loop = "poll" /\ toStub # <<>>
  /\ rsp_handle_byte(Head(toStub))
  /\ toStub' = Tail(toStub)
  /\ loop' = "run"
  /\ UNCHANGED <<stdin, gdb, budget>>

\* Nothing in the kernel and the hart runs: no read.  With a hart that does not
\* run and nothing to return the loop blocks in fgetc, which is no step at all.
PollNothing ==
  /\ Alive /\ loop = "poll" /\ ~InputAvailable /\ hart.status = "RUNNING"
  /\ loop' = "run"
  /\ UNCHANGED <<hart, mem, rsp, toStub, toGdb, stdin, gdb, budget>>

\* A closed link is readable and fgetc returns EOF: main() ends.  The board's
\* loop() does not.
PollEof ==
  /\ device = "pc"
  /\ Alive /\ loop = "poll" /\ stdin = <<>> /\ toStub = <<>> /\ gdb.phase = "gone"
  /\ loop' = "exited"
  /\ UNCHANGED <<hart, mem, rsp, toStub, toGdb, stdin, gdb, budget>>

\* The reports main() sends after a cycle that left the hart with this status.
\* The case of an invalid instruction falls through to the default one.
Reports(status) ==
  CASE status = "RUNNING" -> <<>>
    [] status = "INVALID_MEMORY_ACCESS" -> <<Reply("stop", "S0b")>>
    [] status = "INVALID_INSTRUCTION" -> <<Reply("stop", "S04"), Reply("stop", "S05")>>
    [] OTHER -> <<Reply("stop", "S05")>>

\* The instruction of this cycle may have been a store to the console: mmio_store8
\* prints, and only pc has changed.
MayPrint ==
  \E h \in rv32_handle_interrupt(hart) :
    Active(h) /\ h.pc \in Ram \ Armed(h) /\ mem[h.pc] = "store" /\ StoreConsole(h)

\* A console byte goes where the packets go.
RunCycle ==
  /\ Alive /\ loop = "run" /\ hart.status = "RUNNING"
  /\ rv32_cycle
  /\ \E n \in IF device = "pc" /\ budget.console > 0 /\ MayPrint THEN {0, 1} ELSE {0} :
       /\ toGdb' = toGdb \o [i \in 1 .. n |-> Ack("console")] \o Reports(hart'.status)
       /\ budget' = [budget EXCEPT !.console = @ - n]
  /\ loop' = "poll"
  /\ UNCHANGED <<rsp, toStub, stdin, gdb>>

RunNothing ==
  /\ Alive /\ loop = "run" /\ hart.status # "RUNNING"
  /\ loop' = "poll"
  /\ UNCHANGED <<hart, mem, rsp, toStub, toGdb, stdin, gdb, budget>>

Stub ==
  /\ PollBuffered \/ PollByte \/ PollSerial \/ PollNothing \/ PollEof \/ RunCycle \/ RunNothing
  /\ UNCHANGED device

-----------------------------------------------------------------------------
(* gdb *)

\* gdb does not insert a breakpoint twice nor remove one it has not inserted.
Sensible(cmd) ==
  /\ cmd.op = "Z0" => cmd.addr \notin gdb.bps
  /\ cmd.op = "z0" => cmd.addr \in gdb.bps

SendCommand ==
  /\ gdb.phase = "idle" /\ budget.commands > 0
  /\ \E cmd \in Commands :
       /\ Sensible(cmd)
       /\ gdb' = [gdb EXCEPT !.phase = "waitAck", !.cmd = cmd, !.intr = FALSE]
       /\ toStub' = toStub \o Packet(cmd)
  /\ budget' = [budget EXCEPT !.commands = @ - 1]
  /\ UNCHANGED <<hart, mem, rsp, toGdb, loop, stdin>>

\* The user presses Ctrl-C while the target runs.
SendInterrupt ==
  /\ gdb.phase = "running" /\ ~gdb.intr
  /\ gdb' = [gdb EXCEPT !.intr = TRUE]
  /\ toStub' = Append(toStub, Plain("intr"))
  /\ UNCHANGED <<hart, mem, rsp, toGdb, loop, stdin, budget>>

Reading == gdb.phase \in {"waitAck", "waitReply", "running"} /\ toGdb # <<>>

AfterAck == CASE gdb.cmd.op = "c" -> "running" [] gdb.cmd.op = "k" -> "gone" [] OTHER -> "waitReply"

ReadAck ==
  /\ Reading /\ Head(toGdb).k = "+"
  /\ gdb' = [gdb EXCEPT !.phase = IF @ = "waitAck" THEN AfterAck ELSE @]
  /\ toGdb' = Tail(toGdb)
  /\ UNCHANGED <<hart, mem, rsp, toStub, loop, stdin, budget>>

\* A rejected command is sent again while gdb has patience.
ReadNak ==
  /\ Reading /\ Head(toGdb).k = "-"
  /\ toGdb' = Tail(toGdb)
  /\ IF gdb.phase = "waitAck" /\ budget.resends > 0
     THEN /\ toStub' = toStub \o Packet(gdb.cmd)
          /\ budget' = [budget EXCEPT !.resends = @ - 1]
     ELSE UNCHANGED <<toStub, budget>>
  /\ UNCHANGED <<hart, mem, rsp, loop, stdin, gdb>>

Believed(text) ==
  CASE gdb.cmd.op = "Z0" /\ text = "OK" -> gdb.bps \cup {gdb.cmd.addr}
    [] gdb.cmd.op = "z0" /\ text = "OK" -> gdb.bps \ {gdb.cmd.addr}
    [] OTHER -> gdb.bps

ReadPacket ==
  /\ Reading /\ Head(toGdb).k = "packet"
  /\ LET text == Head(toGdb).text IN
     gdb' = CASE gdb.phase = "waitReply" ->
                   [gdb EXCEPT !.phase = IF gdb.cmd.op = "D" THEN "gone" ELSE "idle",
                               !.bps = Believed(text)]
              [] gdb.phase = "running" /\ text \in Signal -> [gdb EXCEPT !.phase = "idle"]
              [] OTHER -> gdb
  /\ toGdb' = Tail(toGdb)
  /\ toStub' = Append(toStub, Plain("+"))
  /\ UNCHANGED <<hart, mem, rsp, loop, stdin, budget>>

\* gdb sends a command again when its ack does not come.  Its timeout (seconds)
\* is longer than the round trip: nothing is in flight any more.
Timeout ==
  /\ gdb.phase = "waitAck" /\ budget.resends > 0
  /\ stdin = <<>> /\ toStub = <<>> /\ toGdb = <<>>
  /\ toStub' = toStub \o Packet(gdb.cmd)
  /\ budget' = [budget EXCEPT !.resends = @ - 1]
  /\ UNCHANGED <<hart, mem, rsp, toGdb, loop, stdin, gdb>>

\* What is neither an ack nor in a packet gdb drops.
ReadConsole ==
  /\ Reading /\ Head(toGdb).k = "console"
  /\ toGdb' = Tail(toGdb)
  /\ UNCHANGED <<hart, mem, rsp, toStub, loop, stdin, gdb, budget>>

GdbReads == (ReadAck \/ ReadNak \/ ReadPacket \/ ReadConsole) /\ UNCHANGED device

-----------------------------------------------------------------------------
(* The link loses or garbles a byte on its way to the stub. *)

LinkFault ==
  /\ budget.faults > 0 /\ toStub # <<>>
  /\ \/ toStub' = Tail(toStub)
     \/ toStub' = [toStub EXCEPT ![1] = [b |-> "data", of |-> NoCommand]]
  /\ budget' = [budget EXCEPT !.faults = @ - 1]
  /\ UNCHANGED <<hart, mem, rsp, toGdb, loop, stdin, gdb>>

-----------------------------------------------------------------------------

Next ==
  \/ Stub
  \/ (SendCommand \/ SendInterrupt \/ Timeout \/ LinkFault) /\ UNCHANGED device
  \/ GdbReads

\* The stub's loop never stops turning and gdb reads what it waits for; gdb
\* need not send anything.
Spec == Init /\ [][Next]_sessionVars /\ WF_sessionVars(Stub) /\ WF_sessionVars(GdbReads)

-----------------------------------------------------------------------------
(* Safety *)

TypeOK ==
  /\ hart \in Hart /\ mem \in [Ram -> Instr]
  /\ rsp.state \in RspState /\ rsp.digit \in Command \cup {NoCommand} /\ rsp.fatal \in Fatal \cup {"none"}
  /\ Len(rsp.data) <= BufferSize
  /\ \A i \in DOMAIN toStub : toStub[i] \in Byte
  /\ \A i \in DOMAIN stdin : stdin[i] \in Byte
  /\ \A i \in DOMAIN toGdb : toGdb[i] \in Output
  /\ loop \in {"poll", "run", "exited"}
  /\ gdb \in Gdb

\* On a link that loses nothing, the stub gives up only over a P whose register
\* it refuses, and with that refusal: none of the other RSP_FATAL exits is
\* reached, whatever the user does and however the stop reports (which wait for
\* no ack) cross gdb's commands and its interrupt character.
FatalOnlyByP == rsp.fatal \in {"none", Refusal(gdb.cmd)}

\* What the stub waits for is on its way: the packet it sent is still to be
\* read by gdb, or gdb's ack is.
AckOnItsWay ==
  rsp.state = "WAIT_ACK" /\ gdb.phase # "gone" =>
    \/ \E i \in DOMAIN toGdb : toGdb[i].k = "packet"
    \/ \E i \in DOMAIN stdin : stdin[i].b = "+"
    \/ \E i \in DOMAIN toStub : toStub[i].b = "+"

\* gdb has the target stopped: between two commands, or during one that does
\* not resume it.
BelievesStopped ==
  gdb.phase = "idle" \/ (gdb.phase \in {"waitAck", "waitReply"} /\ gdb.cmd.op \notin {"c", "D"})

\* When gdb shows a stopped target, the hart is stopped.
StoppedWhenBelieved == BelievesStopped => hart.status # "RUNNING"

\* gdb takes no packet for the answer to another command: stop reports that
\* nobody waits for (the second of an invalid instruction, the one of an
\* interrupt that crossed a stop) never stand where an answer is read.  Nor does
\* what the guest prints, which is on the link for a debugger that shows a
\* running target and never for one that awaits an ack or an answer.
AnswersMatch ==
  \A i \in DOMAIN toGdb :
    LET none(k) == \A j \in 1 .. i - 1 : toGdb[j].k # k IN
    /\ gdb.phase = "waitReply" /\ toGdb[i].k = "packet" /\ none("packet")
         => toGdb[i].answers = gdb.cmd.op
    /\ gdb.phase = "waitAck" /\ toGdb[i].k = "console" => ~none("+")
    /\ gdb.phase = "waitReply" /\ toGdb[i].k = "console" => ~none("packet")

\* Between two commands, the breakpoints gdb believes set are those at which
\* rv32_cycle stops, also when the table was full or a reply said so.
BreakpointsAgree == gdb.phase = "idle" => Armed(hart) = gdb.bps

-----------------------------------------------------------------------------
(* Liveness *)

\* Every command gdb sends is carried out and answered, but for the P that ends
\* the stub.
CommandAnswered ==
  LET Waiting == gdb.phase \in {"waitAck", "waitReply"} IN
  /\ Waiting /\ Refusal(gdb.cmd) = "none" ~> gdb.phase \in {"idle", "running", "gone"}
  /\ Waiting /\ Refusal(gdb.cmd) # "none" ~> rsp.fatal # "none"

\* The interrupt character was buffered behind another byte (the ack of a late
\* stop report) by one read: input_available does not see it and the running
\* hart keeps the loop from calling fgetc.
Stranded == hart.status = "RUNNING" /\ ~InputAvailable /\ \E i \in DOMAIN stdin : stdin[i] = Plain("intr")

\* An interrupt gives the user the prompt back, whatever the guest does, unless
\* it is stranded for good.
InterruptRegainsControl ==
  []<>~Stranded => ((gdb.phase = "running" /\ gdb.intr) ~> gdb.phase = "idle")

\* On the host a detached guest does not run on: the closed link is ready for
\* select, and the loop reads what is left on it, then EOF, and main() returns,
\* though the guest that 'D' resumed may never stop.
ClosedLinkEnds ==
  (device = "pc" /\ gdb.phase = "gone") ~> (loop = "exited" \/ rsp.fatal # "none")

-----------------------------------------------------------------------------

\* "gdb didn't acknowledge last packet", says the last RSP_FATAL of
\* rsp_handle_byte before it ends the program.  Then there was a packet to
\* acknowledge: gdb is past its first command, or has had its ack.
FatalIsGdbsFault ==
  rsp.fatal = "gdb didn't acknowledge last packet" =>
    ~(gdb.phase = "waitAck" /\ budget.commands = MaxCommands - 1)
=============================================================================
