-------------------------- MODULE GdbSession_proofs --------------------------
(***************************************************************************)
(* The debugging session of GdbSession.tla, for every set of commands, RAM *)
(* size, number of breakpoints, and number of commands, faults and         *)
(* resends.                                                                *)
(*                                                                         *)
(* Two inductive invariants.  SafetyInv holds whatever the link does: at   *)
(* most one packet of gdb's is still to be carried out, only before its    *)
(* ack is on its way, and what gdb has yet to read tells where the hart    *)
(* and its breakpoints are.  LosslessInv holds on a link that loses        *)
(* nothing: what is left of that packet arrives whole, and an ack comes    *)
(* first whenever the stub waits for one.                                  *)
(***************************************************************************)
EXTENDS GdbSession, Rv32Hart_proofs, SequenceTheorems

-----------------------------------------------------------------------------
(* Types *)

Budget == [commands : Nat, faults : Nat, console : Nat, resends : Nat]

SessionType ==
  /\ WellTyped
  /\ rsp \in Rsp /\ Len(rsp.data) <= BufferSize
  /\ toStub \in Seq(Byte) /\ stdin \in Seq(Byte) /\ toGdb \in Seq(Output)
  /\ device # "pc" => stdin = <<>>
  /\ loop \in {"poll", "run", "exited"}
  /\ gdb \in Gdb
  /\ budget \in Budget

LEMMA PacketType ==
  ASSUME NEW cmd \in Command \cup {NoCommand}
  PROVE  /\ Packet(cmd) \in Seq(Byte) /\ Len(Packet(cmd)) = 5
         /\ Packet(cmd)[1] = Plain("$") /\ Packet(cmd)[2] = [b |-> "data", of |-> cmd]
         /\ Packet(cmd)[3] = Plain("#")
         /\ Packet(cmd)[4] = [b |-> "digit", of |-> cmd]
         /\ Packet(cmd)[5] = [b |-> "digit", of |-> cmd]
<1>1. /\ Plain("$") \in Byte /\ Plain("#") \in Byte
      /\ [b |-> "data", of |-> cmd] \in Byte /\ [b |-> "digit", of |-> cmd] \in Byte
  BY DEF Byte, Plain
<1> QED
  BY <1>1 DEF Packet

LEMMA PlainType ==
  ASSUME NEW b \in {"$", "#", "+", "-", "intr"} PROVE Plain(b) \in Byte
  BY DEF Plain, Byte

LEMMA AckType == ASSUME NEW k \in {"+", "-", "console"} PROVE Ack(k) \in Output
  BY DEF Ack, Output

LEMMA ReplyType ==
  ASSUME NEW op \in Op \cup {"stop"}, NEW text \in Text PROVE Reply(op, text) \in Output
  BY DEF Reply, Output

LEMMA ByteFields == ASSUME NEW c \in Byte PROVE c.of \in Command \cup {NoCommand}
  BY DEF Byte

-----------------------------------------------------------------------------
(* What is on its way to the stub: in fgetc's buffer, then on the link *)

Stream == stdin \o toStub

LEMMA StreamType ==
  ASSUME stdin \in Seq(Byte), toStub \in Seq(Byte)
  PROVE  /\ Stream \in Seq(Byte) /\ Len(Stream) \in Nat /\ DOMAIN Stream = 1 .. Len(Stream)
         /\ \A i \in 1 .. Len(Stream) : Stream[i] \in Byte
  BY ConcatProperties, LenProperties DEF Stream

\* The byte rsp_handle_byte is given is the first of the stream.
Polled ==
  /\ rsp.fatal = "none" /\ Stream # <<>> /\ Stream' = Tail(Stream)
  /\ rsp_handle_byte(Stream[1])
  /\ stdin' \in Seq(Byte) /\ toStub' \in Seq(Byte) /\ loop' = "run"
  /\ device # "pc" => stdin' = <<>>
  /\ UNCHANGED <<gdb, budget>>

LEMMA TailOfConcat ==
  ASSUME NEW S, NEW s \in Seq(S), NEW t \in Seq(S), s # <<>>
  PROVE  s \o t # <<>> /\ Tail(s \o t) = Tail(s) \o t /\ (s \o t)[1] = Head(s)
<1> DEFINE u == s \o t
<1>1. /\ u \in Seq(S) /\ Len(u) = Len(s) + Len(t)
      /\ \A i \in 1 .. Len(s) + Len(t) : u[i] = IF i <= Len(s) THEN s[i] ELSE t[i - Len(s)]
  BY ConcatProperties
<1>2. Len(s) \in Nat \ {0} /\ Len(t) \in Nat
  BY EmptySeq, LenProperties
<1>3. /\ Tail(s) \in Seq(S) /\ Len(Tail(s)) = Len(s) - 1
      /\ \A i \in 1 .. Len(Tail(s)) : Tail(s)[i] = s[i+1]
  BY HeadTailProperties
<1>4. u # <<>>
  BY <1>1, <1>2, EmptySeq
<1>5. /\ Tail(u) \in Seq(S) /\ Len(Tail(u)) = Len(u) - 1
      /\ \A i \in 1 .. Len(Tail(u)) : Tail(u)[i] = u[i+1]
  BY <1>1, <1>4, HeadTailProperties
<1>6. /\ Tail(s) \o t \in Seq(S) /\ Len(Tail(s) \o t) = Len(s) - 1 + Len(t)
      /\ \A i \in 1 .. Len(s) - 1 + Len(t) :
           (Tail(s) \o t)[i] = IF i <= Len(s) - 1 THEN Tail(s)[i] ELSE t[i - (Len(s) - 1)]
  BY <1>3, ConcatProperties
<1>7. ASSUME NEW i \in 1 .. Len(Tail(u)) PROVE Tail(u)[i] = (Tail(s) \o t)[i]
  <2>1. i \in 1 .. Len(s) - 1 + Len(t) /\ i + 1 \in 1 .. Len(s) + Len(t)
    BY <1>1, <1>2, <1>5
  <2>2. CASE i <= Len(s) - 1
    BY <1>1, <1>2, <1>3, <1>5, <1>6, <2>1, <2>2
  <2>3. CASE ~(i <= Len(s) - 1)
    <3>1. i + 1 - Len(s) = i - (Len(s) - 1)
      BY <1>2, <2>1
    <3> QED
      BY <1>1, <1>2, <1>5, <1>6, <2>1, <2>3, <3>1
  <2> QED
    BY <2>2, <2>3
<1>8. Tail(u) = Tail(s) \o t
  <2>1. Len(Tail(u)) = Len(Tail(s) \o t)
    BY <1>1, <1>2, <1>5, <1>6
  <2> QED
    BY <1>5, <1>6, <1>7, <2>1, SeqEqual
<1>9. u[1] = Head(s)
  BY <1>1, <1>2
<1> QED
  BY <1>4, <1>8, <1>9

LEMMA StubPolls ==
  ASSUME SessionType, PollBuffered \/ PollByte \/ PollSerial PROVE Polled
<1>1. toStub \in Seq(Byte) /\ stdin \in Seq(Byte) /\ (device # "pc" => stdin = <<>>)
  BY DEF SessionType
<1>2. CASE PollBuffered
  <2>1. stdin # <<>> /\ stdin' = Tail(stdin) /\ toStub' = toStub
    BY <1>2 DEF PollBuffered
  <2>2. Stream # <<>> /\ Stream' = Tail(Stream) /\ Stream[1] = Head(stdin)
    BY <1>1, <2>1, TailOfConcat DEF Stream
  <2>3. stdin' \in Seq(Byte)
    BY <1>1, <2>1, HeadTailProperties
  <2> QED
    BY <1>1, <1>2, <2>1, <2>2, <2>3 DEF PollBuffered, Polled, Alive
<1>3. CASE PollByte \/ PollSerial
  <2>1. /\ toStub # <<>> /\ rsp_handle_byte(Head(toStub)) /\ loop' = "run" /\ UNCHANGED <<gdb, budget>>
        /\ rsp.fatal = "none"
    BY <1>3 DEF PollByte, PollSerial, Alive
  <2>2. CASE stdin = <<>>
    <3>1. Stream = toStub
      BY <1>1, <2>2, ConcatEmptySeq DEF Stream
    <3>2. stdin' \in Seq(Byte) /\ toStub' \in Seq(Byte) /\ Stream' = Tail(toStub)
      <4>1. CASE PollByte
        <5>1. PICK n \in 1 .. Len(toStub) :
                stdin' = SubSeq(toStub, 2, n) /\ toStub' = SubSeq(toStub, n + 1, Len(toStub))
          BY <4>1 DEF PollByte
        <5>2. Len(toStub) \in Nat /\ \A i \in 1 .. Len(toStub) : toStub[i] \in Byte
          BY <1>1, LenProperties
        <5>3. \A i \in 2 .. n : toStub[i] \in Byte
          BY <5>2
        <5>4. \A i \in n + 1 .. Len(toStub) : toStub[i] \in Byte
          BY <5>2
        <5>5. SubSeq(toStub, 2, n) \in Seq(Byte)
          BY <5>2, <5>3, SubSeqProperties
        <5>6. SubSeq(toStub, n + 1, Len(toStub)) \in Seq(Byte)
          BY <5>2, <5>4, SubSeqProperties
        <5>7. SubSeq(toStub, 2, n) \o SubSeq(toStub, n + 1, Len(toStub))
                = SubSeq(toStub, 2, Len(toStub))
          <6>1. 2 \in 1 .. Len(toStub) + 1 /\ n \in 2 - 1 .. Len(toStub)
                /\ Len(toStub) \in n .. Len(toStub)
            BY <5>2
          <6> QED
            BY <1>1, <6>1, ConcatAdjacentSubSeq
        <5> QED
          BY <1>1, <2>1, <5>1, <5>5, <5>6, <5>7, TailIsSubSeq DEF Stream
      <4>2. CASE PollSerial
        <5>1. stdin' = <<>> /\ toStub' = Tail(toStub)
          BY <2>2, <4>2 DEF PollSerial
        <5>2. Tail(toStub) \in Seq(Byte)
          BY <1>1, <2>1, HeadTailProperties
        <5> QED
          BY <5>1, <5>2, ConcatEmptySeq, EmptySeq DEF Stream
      <4> QED
        BY <1>3, <4>1, <4>2
    <3>3. device # "pc" => stdin' = <<>>
      BY <1>3, <2>2 DEF PollByte, PollSerial
    <3> QED
      BY <1>1, <2>1, <3>1, <3>2, <3>3 DEF Polled
  <2> QED
    BY <1>1, <1>3, <2>2 DEF PollByte, PollSerial
<1> QED
  BY <1>2, <1>3

-----------------------------------------------------------------------------
(* Type correctness *)

LEMMA ResumeType == ASSUME NEW h \in Hart PROVE rv32_resume(h) \in Hart
  BY DEF rv32_resume, Hart, Status

LEMMA ClearAllType == ASSUME NEW h \in Hart PROVE rv32_clear_all_breakpoints(h) \in Hart
  BY Constants DEF rv32_clear_all_breakpoints, Hart

LEMMA ResetType == ASSUME WellTyped, rv32_reset PROVE WellTyped'
  BY NewHartType DEF WellTyped, rv32_reset, Instr

LEMMA AnswersType ==
  ASSUME WellTyped, NEW cmd \in Command, NEW text, Answers(cmd, text) PROVE WellTyped'
<1> USE DEF WellTyped
<1>1. cmd.addr \in Addr
  BY DEF Command
<1>2. CASE HandleQuery(cmd, text) \/ rsp_read_memory(cmd, text)
  BY <1>2 DEF HandleQuery, rsp_read_memory, NoChange, hartVars
<1>3. CASE rsp_write_registers(cmd, text) \/ rsp_write_specific_register(cmd, text)
  <2>1. [hart EXCEPT !.pc = HexU32[cmd.addr]] \in Hart
    BY <1>1, HexAssumption DEF Hart
  <2> QED
    BY <1>3, <2>1 DEF rsp_write_registers, rsp_write_specific_register
<1>4. CASE rsp_write_memory(cmd, text)
  BY <1>4, GuestAssumption DEF rsp_write_memory
<1>5. CASE rsp_set_software_breakpoint(cmd, text)
  BY <1>1, <1>5, SetBreakpointType DEF rsp_set_software_breakpoint
<1>6. CASE rsp_clear_software_breakpoint(cmd, text)
  BY <1>1, <1>6, ClearBreakpointType DEF rsp_clear_software_breakpoint
<1>7. CASE rsp_detach(cmd, text)
  BY <1>7, ResumeType, ClearAllType DEF rsp_detach
<1> QED
  BY <1>2, <1>3, <1>4, <1>5, <1>6, <1>7 DEF Answers

LEMMA ReceivedType == ASSUME rsp \in Rsp PROVE Received \in Command
<1>1. CASE Len(rsp.data) = 1 /\ rsp.data[1] # NoCommand
  <2>1. rsp.data \in Seq(Command \cup {NoCommand})
    BY DEF Rsp
  <2>2. rsp.data[1] \in Command \cup {NoCommand}
    BY <1>1, <2>1, ElementOfSeq
  <2> QED
    BY <1>1, <2>2 DEF Received
<1>2. CASE ~(Len(rsp.data) = 1 /\ rsp.data[1] # NoCommand)
  BY <1>2, Constants DEF Received, Command, Op
<1> QED
  BY <1>1, <1>2

\* What rsp_handle_byte may send in answer to one byte.
HandlerSends(s) ==
  \/ s = <<>> \/ s = <<Reply("stop", "S02")>>
  \/ s = <<Ack("+")>> \/ s = <<Ack("-")>>
  \/ \E op \in Op, text \in Text : s = <<Ack("+"), Reply(op, text)>>

LEMMA HandlerSendsType == ASSUME NEW s, HandlerSends(s) PROVE s \in Seq(Output)
<1>1. /\ Reply("stop", "S02") \in Output /\ Ack("+") \in Output /\ Ack("-") \in Output
      /\ \A op \in Op, text \in Text : Reply(op, text) \in Output
  BY AckType, ReplyType DEF Text, Signal
<1>2. ASSUME NEW op \in Op, NEW text \in Text, s = <<Ack("+"), Reply(op, text)>>
      PROVE  s \in Seq(Output)
  BY <1>1, <1>2
<1>3. ASSUME NEW m \in Output PROVE <<m>> \in Seq(Output)
  OBVIOUS
<1>4. CASE s = <<Reply("stop", "S02")>> \/ s = <<Ack("+")>> \/ s = <<Ack("-")>>
  BY <1>1, <1>3, <1>4
<1> QED
  BY <1>2, <1>4, EmptySeq DEF HandlerSends

LEMMA HandleByteType ==
  ASSUME SessionType, NEW c \in Byte, rsp_handle_byte(c)
  PROVE  /\ WellTyped' /\ rsp' \in Rsp /\ Len(rsp'.data) <= BufferSize
         /\ toGdb' \in Seq(Output)
         /\ \E s : HandlerSends(s) /\ toGdb' = toGdb \o s
<1> USE DEF WellTyped
<1>1. /\ rsp \in Rsp /\ Len(rsp.data) <= BufferSize /\ toGdb \in Seq(Output) /\ WellTyped
      /\ c.of \in Command \cup {NoCommand} /\ BufferSize \in Nat
      /\ rsp.data \in Seq(Command \cup {NoCommand})
  BY ByteFields, BufferAssumption DEF SessionType, Rsp
<1>2. SUFFICES /\ WellTyped' /\ rsp' \in Rsp /\ Len(rsp'.data) <= BufferSize
               /\ \E s : HandlerSends(s) /\ toGdb' = toGdb \o s
  <2>1. \A s : HandlerSends(s) => toGdb \o s \in Seq(Output)
    BY <1>1, HandlerSendsType, ConcatProperties
  <2> QED
    BY <2>1
<1>3. toGdb' = toGdb => \E s : HandlerSends(s) /\ toGdb' = toGdb \o s
  BY <1>1, ConcatEmptySeq DEF HandlerSends
<1>4. CASE StartPacket(c) \/ Ignore(c)
  <2>1. rsp' \in Rsp /\ Len(rsp'.data) <= BufferSize
    <3>1. rsp'.data = <<>>
      BY <1>1, <1>4 DEF StartPacket, Ignore, Rsp
    <3>2. rsp' \in Rsp
      BY <1>1, <1>4, EmptySeq, ZenonT(40) DEF StartPacket, Ignore, Rsp, RspState
    <3> QED
      BY <1>1, <3>1, <3>2, EmptySeq
  <2> QED
    BY <1>1, <1>3, <1>4, <2>1 DEF StartPacket, Ignore
<1>5. CASE Interrupt(c)
  <2>1. hart' \in Hart /\ mem' = mem
    BY <1>1, <1>5 DEF Interrupt, Hart, Status
  <2>2. rsp' \in Rsp /\ Len(rsp'.data) <= BufferSize
    <3>1. rsp'.data = <<>>
      BY <1>1, <1>5 DEF Interrupt, Rsp
    <3>2. rsp' \in Rsp
      BY <1>1, <1>5, EmptySeq DEF Interrupt, Rsp, RspState
    <3> QED
      BY <1>1, <3>1, <3>2, EmptySeq
  <2>3. Reply("stop", "S02") \in Output
    BY ReplyType DEF Text, Signal
  <2>4. toGdb' = toGdb \o <<Reply("stop", "S02")>>
    BY <1>1, <1>5, <2>3, AppendIsConcat DEF Interrupt
  <2> QED
    BY <1>1, <2>1, <2>2, <2>4 DEF HandlerSends
<1>6. CASE EndOfData(c) \/ Checksum1(c) \/ Acknowledged(c)
  <2>1. rsp' \in Rsp /\ rsp'.data = rsp.data
    BY <1>1, <1>6 DEF EndOfData, Checksum1, Acknowledged, Rsp, RspState
  <2> QED
    BY <1>1, <1>3, <1>6, <2>1 DEF EndOfData, Checksum1, Acknowledged
<1>7. CASE BadDigit(c) \/ NotAcknowledged(c)
  <2>1. rsp' \in Rsp /\ rsp'.data = rsp.data
    BY <1>1, <1>7 DEF BadDigit, NotAcknowledged, Die, Rsp, Fatal
  <2> QED
    BY <1>1, <1>3, <1>7, <2>1 DEF BadDigit, NotAcknowledged
<1>8. CASE Collect(c)
  <2>1. CASE Len(rsp.data) < BufferSize
    <3> DEFINE tok == IF c.b = "data" THEN c.of ELSE NoCommand
    <3>1. tok \in Command \cup {NoCommand}
      BY <1>1
    <3>2. rsp' = [rsp EXCEPT !.data = Append(rsp.data, tok)]
      BY <1>1, <1>8, <2>1 DEF Collect
    <3>3. /\ Append(rsp.data, tok) \in Seq(Command \cup {NoCommand})
          /\ Len(Append(rsp.data, tok)) = Len(rsp.data) + 1
      BY <1>1, <3>1, AppendProperties
    <3> HIDE DEF tok
    <3>4. rsp' \in Rsp /\ rsp'.data = Append(rsp.data, tok)
      BY <1>1, <3>2, <3>3 DEF Rsp
    <3>5. Len(rsp.data) \in Nat
      BY <1>1, LenProperties
    <3> QED
      BY <1>1, <1>3, <1>8, <2>1, <3>3, <3>4, <3>5 DEF Collect
  <2>2. CASE ~(Len(rsp.data) < BufferSize)
    <3>1. rsp' \in Rsp /\ rsp'.data = rsp.data
      BY <1>1, <1>8, <2>2 DEF Collect, Die, Rsp, Fatal
    <3> QED
      BY <1>1, <1>3, <1>8, <3>1 DEF Collect
  <2> QED
    BY <2>1, <2>2
<1>9. CASE PacketAnswered(c)
  <2>1. PICK text \in Text :
          Answers(Received, text) /\ toGdb' = toGdb \o <<Ack("+"), Reply(Received.op, text)>>
    BY <1>9 DEF PacketAnswered
  <2>2. Received \in Command /\ Received.op \in Op
    BY <1>1, ReceivedType DEF Command
  <2>3. WellTyped'
    BY <1>1, <2>1, <2>2, AnswersType
  <2>4. rsp' \in Rsp /\ rsp'.data = rsp.data
    BY <1>1, <1>9 DEF PacketAnswered, Rsp, RspState
  <2> QED
    BY <1>1, <2>1, <2>2, <2>3, <2>4 DEF HandlerSends
<1>10. CASE PacketUnanswered(c)
  <2>1. WellTyped'
    BY <1>1, <1>10, ResumeType, ResetType DEF PacketUnanswered, rsp_continue, rsp_kill
  <2>2. rsp' \in Rsp /\ rsp'.data = rsp.data
    BY <1>1, <1>10 DEF PacketUnanswered, Rsp, RspState
  <2>3. toGdb' = toGdb \o <<Ack("+")>>
    BY <1>1, <1>10, AckType, AppendIsConcat DEF PacketUnanswered
  <2> QED
    BY <1>1, <2>1, <2>2, <2>3 DEF HandlerSends
<1>11. CASE PacketRejected(c)
  <2>1. rsp' \in Rsp /\ rsp'.data = rsp.data
    BY <1>1, <1>11 DEF PacketRejected, Rsp, RspState
  <2>2. toGdb' = toGdb \o <<Ack("-")>>
    BY <1>1, <1>11, AckType, AppendIsConcat DEF PacketRejected
  <2> QED
    BY <1>1, <1>11, <2>1, <2>2 DEF HandlerSends, PacketRejected, hartVars
<1>12. CASE PacketFatal(c)
  <2>1. rsp' \in Rsp /\ rsp'.data = rsp.data
    BY <1>1, <1>12 DEF PacketFatal, Die, Refusal, Rsp, Fatal
  <2>2. toGdb' = toGdb \o <<Ack("+")>>
    BY <1>1, <1>12, AckType, AppendIsConcat DEF PacketFatal
  <2> QED
    BY <1>1, <1>12, <2>1, <2>2 DEF HandlerSends, PacketFatal, hartVars
<1> QED
  BY <1>4, <1>5, <1>6, <1>7, <1>8, <1>9, <1>10, <1>11, <1>12 DEF rsp_handle_byte

LEMMA CycleSends ==
  ASSUME SessionType, RunCycle
  PROVE  /\ WellTyped' /\ budget' \in Budget
         /\ \E n \in {0, 1} : toGdb' = toGdb \o [i \in 1 .. n |-> Ack("console")] \o Reports(hart'.status)
         /\ toGdb' \in Seq(Output)
<1>1. WellTyped' /\ hart'.status \in Status
  BY HartCycleType DEF SessionType, RunCycle, WellTyped, Hart
<1> DEFINE prints == device = "pc" /\ budget.console > 0 /\ MayPrint
<1>2. PICK n \in IF prints THEN {0, 1} ELSE {0} :
        /\ toGdb' = toGdb \o [i \in 1 .. n |-> Ack("console")] \o Reports(hart'.status)
        /\ budget' = [budget EXCEPT !.console = @ - n]
  BY Zenon DEF RunCycle
<1>3. budget' \in Budget
  <2>1. budget.console \in Nat
    BY DEF SessionType, Budget
  <2>2. budget.console - n \in Nat
    BY <1>2, <2>1
  <2> QED
    BY <1>2, <2>2 DEF SessionType, Budget
<1>4. [i \in 1 .. n |-> Ack("console")] \in Seq(Output)
  <2>1. Ack("console") \in Output
    BY AckType
  <2> QED
    BY <2>1, Z3
<1>5. Reports(hart'.status) \in Seq(Output)
  <2>1. /\ Reply("stop", "S0b") \in Output /\ Reply("stop", "S04") \in Output
        /\ Reply("stop", "S05") \in Output
    BY ReplyType DEF Text, Signal
  <2>2. ASSUME NEW m \in Output PROVE <<m>> \in Seq(Output)
    OBVIOUS
  <2>3. <<Reply("stop", "S04"), Reply("stop", "S05")>> \in Seq(Output)
    BY <2>1
  <2> QED
    BY <2>1, <2>2, <2>3, EmptySeq DEF Reports
<1> QED
  BY <1>1, <1>2, <1>3, <1>4, <1>5, ConcatProperties DEF SessionType

LEMMA CmdType ==
  ASSUME SessionType
  PROVE  gdb.cmd \in Command \cup {NoCommand} /\ gdb.cmd.addr \in Addr /\ gdb.bps \in SUBSET Addr
  BY Constants DEF SessionType, Gdb, Command, NoCommand

LEMMA TypeStep == ASSUME SessionType, [Next]_sessionVars PROVE SessionType'
<1> USE DEF SessionType
<1>1. ASSUME NEW cmd \in Command \cup {NoCommand}
      PROVE  toStub \o Packet(cmd) \in Seq(Byte)
  BY PacketType, ConcatProperties
<1>2. ASSUME NEW b \in {"+", "intr"} PROVE Append(toStub, Plain(b)) \in Seq(Byte)
  BY PlainType, AppendProperties
<1>3. toGdb # <<>> => Tail(toGdb) \in Seq(Output)
  BY HeadTailProperties
<1>4. budget.commands \in Nat /\ budget.faults \in Nat /\ budget.resends \in Nat
  BY DEF Budget
<1>5. device' = device
  BY DEF Next, Stub, GdbReads, sessionVars
<1>6. CASE UNCHANGED sessionVars
  BY <1>6 DEF sessionVars, WellTyped
<1>7. CASE PollBuffered \/ PollByte \/ PollSerial
  <2>1. Polled
    BY <1>7, StubPolls
  <2>2. Stream[1] \in Byte
    <3>1. Stream \in Seq(Byte) /\ Len(Stream) \in Nat \ {0}
      BY <2>1, StreamType, EmptySeq DEF Polled
    <3> QED
      BY <3>1, ElementOfSeq
  <2>3. WellTyped' /\ rsp' \in Rsp /\ Len(rsp'.data) <= BufferSize /\ toGdb' \in Seq(Output)
    BY <2>1, <2>2, HandleByteType DEF Polled
  <2> QED
    BY <1>5, <2>1, <2>3 DEF Polled
<1>8. CASE PollNothing \/ PollEof \/ RunNothing
  BY <1>5, <1>8 DEF PollNothing, PollEof, RunNothing, WellTyped
<1>9. CASE RunCycle
  BY <1>5, <1>9, CycleSends DEF RunCycle
<1>10. CASE SendCommand
  <2>1. PICK cmd \in Commands :
          /\ gdb' = [gdb EXCEPT !.phase = "waitAck", !.cmd = cmd, !.intr = FALSE]
          /\ toStub' = toStub \o Packet(cmd)
    BY <1>10 DEF SendCommand
  <2>2. cmd \in Command
    BY SessionAssumption
  <2>3. gdb' \in Gdb /\ toStub' \in Seq(Byte)
    BY <1>1, <2>1, <2>2 DEF Gdb, Phase
  <2>4. budget' \in Budget
    <3>1. budget.commands - 1 \in Nat /\ budget' = [budget EXCEPT !.commands = @ - 1]
      BY <1>4, <1>10 DEF SendCommand
    <3> QED
      BY <3>1 DEF Budget
  <2> QED
    BY <1>5, <1>10, <2>3, <2>4 DEF SendCommand, WellTyped
<1>11. CASE SendInterrupt
  <2>1. gdb' \in Gdb /\ toStub' \in Seq(Byte)
    BY <1>2, <1>11 DEF SendInterrupt, Gdb
  <2> QED
    BY <1>5, <1>11, <2>1 DEF SendInterrupt, WellTyped
<1>12. CASE Timeout \/ ReadNak
  <2>1. /\ toStub' = toStub \/ toStub' = toStub \o Packet(gdb.cmd)
        /\ \/ budget' = budget
           \/ budget.resends > 0 /\ budget' = [budget EXCEPT !.resends = @ - 1]
    <3>1. CASE Timeout
      BY <3>1, Zenon DEF Timeout
    <3>2. CASE ReadNak
      BY <3>2 DEF ReadNak
    <3> QED
      BY <1>12, <3>1, <3>2
  <2>2. toStub' \in Seq(Byte)
    BY <1>1, <2>1, CmdType
  <2>3. budget' \in Budget
    BY <1>4, <2>1 DEF Budget
  <2> QED
    BY <1>3, <1>5, <1>12, <2>2, <2>3 DEF Timeout, ReadNak, Reading, WellTyped
<1>13. CASE LinkFault
  <2>1. toStub' \in Seq(Byte)
    <3>1. [b |-> "data", of |-> NoCommand] \in Byte
      BY DEF Byte
    <3>2. toStub # <<>> /\ 1 \in 1 .. Len(toStub)
      BY <1>13, EmptySeq DEF LinkFault
    <3>3. Tail(toStub) \in Seq(Byte)
      BY <3>2, HeadTailProperties
    <3>4. [toStub EXCEPT ![1] = [b |-> "data", of |-> NoCommand]] \in Seq(Byte)
      BY <3>1, <3>2, ExceptSeq
    <3> QED
      BY <1>13, <3>3, <3>4 DEF LinkFault
  <2>2. budget' \in Budget
    BY <1>4, <1>13, SMTT(40) DEF LinkFault, Budget
  <2> QED
    BY <1>5, <1>13, <2>1, <2>2 DEF LinkFault, WellTyped
<1>14. CASE ReadAck \/ ReadConsole
  <2>1. gdb' \in Gdb
    BY <1>14 DEF ReadAck, ReadConsole, AfterAck, Gdb, Phase
  <2> QED
    BY <1>3, <1>5, <1>14, <2>1 DEF ReadAck, ReadConsole, Reading, WellTyped
<1>15. CASE ReadPacket
  <2>1. \A text : Believed(text) \in SUBSET Addr
    BY CmdType DEF Believed
  <2>2. gdb' \in Gdb
    BY <1>15, <2>1 DEF ReadPacket, Gdb, Phase
  <2> QED
    BY <1>2, <1>3, <1>5, <1>15, <2>2 DEF ReadPacket, Reading, WellTyped
<1> QED
  BY <1>6, <1>7, <1>8, <1>9, <1>10, <1>11, <1>12, <1>13, <1>14, <1>15
  DEF Next, Stub, GdbReads

-----------------------------------------------------------------------------
(* What the stub's commands do to the breakpoint table *)

\* No address is in two slots.
DistinctSlots(h) == \A s, t \in h.bpMask : h.bp[s] = h.bp[t] => s = t

LEMMA SameTableKeeps ==
  ASSUME NEW g, NEW h, SameTable(g, h)
  PROVE  Armed(g) = Armed(h) /\ (DistinctSlots(g) <=> DistinctSlots(h))
  BY DEF SameTable, Armed, DistinctSlots

LEMMA SetBreakpointArms ==
  ASSUME NEW h \in Hart, NEW a \in Addr, DistinctSlots(h), a \notin Armed(h),
         NEW o \in rv32_set_breakpoint(h, a)
  PROVE  /\ DistinctSlots(o[1]) /\ o[1].status = h.status
         /\ \/ o[2] = 1 /\ Armed(o[1]) = Armed(h) \cup {a}
            \/ o[2] = 0 /\ Armed(o[1]) = Armed(h)
<1>1. CASE FreeSlots(h) = {}
  BY <1>1 DEF rv32_set_breakpoint
<1>2. CASE FreeSlots(h) # {}
  <2>1. PICK s \in First(FreeSlots(h)) : o = <<[h EXCEPT !.bpMask = @ \cup {s}, !.bp[s] = a], 1>>
    BY <1>2 DEF rv32_set_breakpoint
  <2>2. s \in Slot /\ s \notin h.bpMask /\ h.bpMask \in SUBSET Slot /\ h.bp \in [Slot -> Addr]
    BY DEF First, FreeSlots, Hart
  <2> DEFINE g == [h EXCEPT !.bpMask = @ \cup {s}, !.bp[s] = a]
  <2>3. /\ g.bpMask = h.bpMask \cup {s} /\ g.bp = [h.bp EXCEPT ![s] = a] /\ g.status = h.status
    BY DEF Hart
  <2>4. g.bp[s] = a /\ \A t \in h.bpMask : t # s /\ g.bp[t] = h.bp[t]
    BY <2>2, <2>3
  <2> HIDE DEF g
  <2>5. Armed(g) = Armed(h) \cup {a}
    BY <2>3, <2>4 DEF Armed
  <2>6. DistinctSlots(g)
    BY <2>3, <2>4 DEF DistinctSlots, Armed
  <2> QED
    BY <2>1, <2>3, <2>5, <2>6 DEF g
<1> QED
  BY <1>1, <1>2

LEMMA ClearBreakpointDisarms ==
  ASSUME NEW h \in Hart, NEW a \in Addr, DistinctSlots(h), a \in Armed(h),
         NEW o \in rv32_clear_breakpoint(h, a)
  PROVE  /\ DistinctSlots(o[1]) /\ o[1].status = h.status
         /\ o[2] = 1 /\ Armed(o[1]) = Armed(h) \ {a}
<1>1. SlotsAt(h, a) # {}
  BY DEF SlotsAt, Armed
<1>2. PICK s \in First(SlotsAt(h, a)) : o = <<[h EXCEPT !.bpMask = @ \ {s}, !.bp[s] = 0], 1>>
  BY <1>1 DEF rv32_clear_breakpoint
<1>3. s \in h.bpMask /\ h.bp[s] = a /\ h.bpMask \in SUBSET Slot /\ h.bp \in [Slot -> Addr]
  BY DEF First, SlotsAt, Hart
<1> DEFINE g == [h EXCEPT !.bpMask = @ \ {s}, !.bp[s] = 0]
<1>4. /\ g.bpMask = h.bpMask \ {s} /\ g.bp = [h.bp EXCEPT ![s] = 0] /\ g.status = h.status
  BY DEF Hart
<1>5. \A t \in g.bpMask : t \in h.bpMask /\ t # s /\ g.bp[t] = h.bp[t]
  BY <1>3, <1>4
<1> HIDE DEF g
<1>6. \A t \in g.bpMask : h.bp[t] # a
  BY <1>3, <1>5 DEF DistinctSlots
<1>7. Armed(g) = Armed(h) \ {a}
  <2>1. ASSUME NEW x \in Armed(g) PROVE x \in Armed(h) \ {a}
    BY <1>5, <1>6 DEF Armed
  <2>2. ASSUME NEW x \in Armed(h) \ {a} PROVE x \in Armed(g)
    <3>1. PICK t \in h.bpMask : h.bp[t] = x
      BY DEF Armed
    <3>2. t \in g.bpMask
      BY <1>3, <1>4, <3>1
    <3> QED
      BY <1>5, <3>1, <3>2 DEF Armed
  <2> QED
    BY <2>1, <2>2
<1>8. DistinctSlots(g)
  BY <1>5 DEF DistinctSlots
<1> QED
  BY <1>2, <1>4, <1>7, <1>8 DEF g

-----------------------------------------------------------------------------
(* The invariant that holds whatever the link does *)

\* The stub is inside a packet, and will read on.
InPacket == rsp.fatal = "none" /\ rsp.state \in {"PACKET_DATA", "CHECKSUM_1", "CHECKSUM_2"}

\* The byte at i of the stream opens a packet.
Opens(i) == Stream[i].b = "$"

\* A packet of gdb's may still be carried out.
Pending == InPacket \/ \E i \in DOMAIN Stream : Opens(i)

NoAck == \A i \in DOMAIN toGdb : toGdb[i].k \notin {"+", "-"}

\* No ack crosses a packet: gdb awaits it.
PendingInv == Pending => gdb.phase = "waitAck" /\ NoAck

\* One packet at a time is on its way; inside a packet the stub meets a '$'
\* only as the next byte, when gdb has sent the rest again.
OneOpen ==
  /\ \A i, j \in DOMAIN Stream : Opens(i) /\ Opens(j) => i = j
  /\ \A i \in DOMAIN Stream : Opens(i) /\ i > 1 => ~InPacket

\* From where a packet opens on, the stream holds no other command than gdb's.
Belongs ==
  \A i, j \in DOMAIN Stream :
     i <= j /\ (InPacket \/ Opens(i)) => Stream[j].of \in {NoCommand, gdb.cmd}

Agree == Armed(hart) = gdb.bps

\* What gdb will see once it has read k messages.
PacketsAfter(k) == \A i \in DOMAIN toGdb : i > k => toGdb[i].k = "packet"

Stopped(k) == hart.status # "RUNNING" /\ PacketsAfter(k)

Resumed(k) ==
  /\ Agree
  /\ \A i \in DOMAIN toGdb : i > k =>
       /\ toGdb[i].k \in {"packet", "console"}
       /\ toGdb[i].k = "packet" => Stopped(i)

\* Message k answers gdb's command.  A detach resumes the hart.
Answered(k) ==
  /\ k \in DOMAIN toGdb
  /\ toGdb[k].k = "packet" /\ toGdb[k].answers = gdb.cmd.op
  /\ gdb.cmd.op # "D" => Stopped(k) /\ Armed(hart) = Believed(toGdb[k].text)

\* The stub has refused gdb's command and ended: after message k comes nothing.
Refused(k) ==
  /\ rsp.fatal # "none" /\ hart.status # "RUNNING"
  /\ \A i \in DOMAIN toGdb : i <= k

\* Message k is the ack gdb waits for.
Acked(k) ==
  /\ \A i \in 1 .. k - 1 : toGdb[i].k = "packet"
  /\ toGdb[k].k = "-" => Stopped(k) /\ Agree /\ Sensible(gdb.cmd)
  /\ toGdb[k].k = "+" /\ gdb.cmd.op = "c" => Resumed(k)
  /\ toGdb[k].k = "+" /\ gdb.cmd.op = "k" => Stopped(k)
  /\ toGdb[k].k = "+" /\ gdb.cmd.op \notin {"c", "k"} => Answered(k + 1) \/ Refused(k)

\* What gdb's phase says of the hart, given what gdb has not read yet.
View ==
  /\ gdb.phase = "idle" => Stopped(0) /\ Agree
  /\ gdb.phase = "waitAck" /\ NoAck => Stopped(0) /\ Agree /\ Sensible(gdb.cmd)
  /\ gdb.phase = "waitAck" =>
       \A k \in DOMAIN toGdb : toGdb[k].k \in {"+", "-"} => Acked(k)
  /\ gdb.phase = "waitReply" => gdb.cmd.op \notin {"c", "k"} /\ (Answered(1) \/ Refused(0))
  /\ gdb.phase = "running" => gdb.cmd.op = "c" /\ Resumed(0)

SafetyInv == SessionType /\ PendingInv /\ OneOpen /\ Belongs /\ View /\ DistinctSlots(hart)

-----------------------------------------------------------------------------
(* The stream moves on: a byte is taken, a packet, an ack or an interrupt is *)
(* added, the link drops or garbles a byte                                   *)

LEMMA StreamTaken ==
  ASSUME SessionType, SessionType', Stream # <<>>, Stream' = Tail(Stream)
  PROVE  /\ DOMAIN Stream = 1 .. Len(Stream) /\ DOMAIN Stream' = 1 .. Len(Stream) - 1
         /\ Len(Stream) \in Nat \ {0} /\ 1 \in DOMAIN Stream /\ Stream[1] \in Byte
         /\ \A i \in DOMAIN Stream' : i + 1 \in DOMAIN Stream /\ Stream'[i] = Stream[i + 1]
<1>1. Stream \in Seq(Byte) /\ Stream' \in Seq(Byte)
  BY StreamType DEF SessionType
<1>2. /\ Len(Stream) \in Nat \ {0} /\ DOMAIN Stream = 1 .. Len(Stream)
      /\ DOMAIN Stream' = 1 .. Len(Stream')
  BY <1>1, LenProperties, EmptySeq
<1>3. /\ Len(Stream') = Len(Stream) - 1
      /\ \A i \in 1 .. Len(Stream') : Stream'[i] = Stream[i + 1]
  BY <1>1, HeadTailProperties
<1>4. Stream[1] \in Byte
  BY <1>1, <1>2, ElementOfSeq
<1> QED
  BY <1>2, <1>3, <1>4

\* Once the stub is inside a packet, or has just entered one, no '$' is left.
LEMMA StreamTakenKeeps ==
  ASSUME SessionType, SessionType', Stream # <<>>, Stream' = Tail(Stream),
         gdb' = gdb, OneOpen, Belongs,
         InPacket' => InPacket \/ Opens(1)
  PROVE  /\ OneOpen' /\ Belongs' /\ (Pending' => Pending)
         /\ InPacket \/ Opens(1) => \A i \in DOMAIN Stream' : ~Opens(i)'
<1>1. /\ DOMAIN Stream = 1 .. Len(Stream) /\ DOMAIN Stream' = 1 .. Len(Stream) - 1
      /\ Len(Stream) \in Nat \ {0} /\ 1 \in DOMAIN Stream
      /\ \A i \in DOMAIN Stream' : i + 1 \in DOMAIN Stream /\ Stream'[i] = Stream[i + 1]
  BY StreamTaken
<1>2. \A i \in DOMAIN Stream' : Opens(i)' <=> Opens(i + 1)
  BY <1>1 DEF Opens
<1>3. InPacket \/ Opens(1) => \A i \in DOMAIN Stream' : ~Opens(i)'
  BY <1>1, <1>2 DEF OneOpen
<1>4. OneOpen'
  <2>1. ASSUME NEW i \in DOMAIN Stream', NEW j \in DOMAIN Stream', Opens(i)', Opens(j)' PROVE i = j
    BY <1>1, <1>2, <2>1 DEF OneOpen
  <2>2. ASSUME NEW i \in DOMAIN Stream', Opens(i)' PROVE ~InPacket'
    BY <1>3, <2>2
  <2> QED
    BY <2>1, <2>2 DEF OneOpen
<1>5. Belongs'
  <2>1. ASSUME NEW i \in DOMAIN Stream', NEW j \in DOMAIN Stream', i <= j, InPacket' \/ Opens(i)'
        PROVE  Stream'[j].of \in {NoCommand, gdb.cmd}
    <3>1. /\ i + 1 \in DOMAIN Stream /\ j + 1 \in DOMAIN Stream /\ i + 1 <= j + 1
          /\ 1 \in DOMAIN Stream /\ 1 <= j + 1 /\ Stream'[j] = Stream[j + 1]
      BY <1>1, <2>1
    <3>2. InPacket \/ Opens(1) \/ Opens(i + 1)
      BY <1>2, <2>1
    <3> QED
      BY <3>1, <3>2 DEF Belongs
  <2> QED
    BY <2>1 DEF Belongs
<1>6. Pending' => Pending
  BY <1>1, <1>2 DEF Pending
<1> QED
  BY <1>3, <1>4, <1>5, <1>6

LEMMA StreamSent ==
  ASSUME SessionType, NEW s \in Seq(Byte), stdin' = stdin, toStub' = toStub \o s
  PROVE  /\ DOMAIN Stream = 1 .. Len(Stream) /\ DOMAIN Stream' = 1 .. Len(Stream) + Len(s)
         /\ Len(Stream) \in Nat /\ Len(s) \in Nat
         /\ \A i \in DOMAIN Stream : Stream'[i] = Stream[i]
         /\ \A i \in 1 .. Len(s) : Stream'[Len(Stream) + i] = s[i]
         /\ Stream' = Stream \o s
<1>1. stdin \in Seq(Byte) /\ toStub \in Seq(Byte)
  BY DEF SessionType
<1>2. Stream \in Seq(Byte) /\ Stream' = Stream \o s
  BY <1>1, ConcatAssociative, ConcatProperties DEF Stream
<1>3. /\ Stream' \in Seq(Byte) /\ Len(Stream') = Len(Stream) + Len(s)
      /\ \A i \in 1 .. Len(Stream) + Len(s) :
           Stream'[i] = IF i <= Len(Stream) THEN Stream[i] ELSE s[i - Len(Stream)]
  BY <1>2, ConcatProperties
<1>4. /\ Len(Stream) \in Nat /\ Len(s) \in Nat
      /\ DOMAIN Stream = 1 .. Len(Stream) /\ DOMAIN Stream' = 1 .. Len(Stream')
  BY <1>2, <1>3, LenProperties
<1>5. ASSUME NEW i \in 1 .. Len(s) PROVE Stream'[Len(Stream) + i] = s[i]
  <2>1. Len(Stream) + i \in 1 .. Len(Stream) + Len(s) /\ ~(Len(Stream) + i <= Len(Stream))
        /\ Len(Stream) + i - Len(Stream) = i
    BY <1>4
  <2> QED
    BY <1>3, <2>1
<1> QED
  BY <1>2, <1>3, <1>4, <1>5

LEMMA PlainSentKeeps ==
  ASSUME SessionType, NEW b \in {"+", "intr"}, stdin' = stdin,
         toStub' = Append(toStub, Plain(b)), rsp' = rsp, gdb'.cmd = gdb.cmd,
         OneOpen, Belongs
  PROVE  OneOpen' /\ Belongs' /\ (Pending' => Pending)
<1> DEFINE s == <<Plain(b)>>
<1>1. s \in Seq(Byte) /\ Len(s) = 1 /\ s[1] = Plain(b) /\ toStub' = toStub \o s
  BY PlainType, AppendIsConcat DEF SessionType
<1> HIDE DEF s
<1>2. /\ DOMAIN Stream = 1 .. Len(Stream) /\ DOMAIN Stream' = 1 .. Len(Stream) + 1
      /\ Len(Stream) \in Nat
      /\ \A i \in DOMAIN Stream : Stream'[i] = Stream[i]
      /\ Stream'[Len(Stream) + 1] = Plain(b)
  <2>1. 1 \in 1 .. Len(s)
    BY <1>1
  <2> QED
    BY <1>1, <2>1, StreamSent
<1>3. /\ \A i \in DOMAIN Stream : Opens(i)' <=> Opens(i)
      /\ \A i \in DOMAIN Stream' : Opens(i)' => i \in DOMAIN Stream
      /\ Plain(b).of = NoCommand /\ InPacket' = InPacket
  BY <1>2 DEF Opens, Plain, InPacket
<1>4. OneOpen' /\ (Pending' => Pending)
  BY <1>3 DEF OneOpen, Pending
<1>5. Belongs'
  <2>1. ASSUME NEW i \in DOMAIN Stream', NEW j \in DOMAIN Stream', i <= j, InPacket' \/ Opens(i)'
        PROVE  Stream'[j].of \in {NoCommand, gdb.cmd}
    <3>1. CASE j = Len(Stream) + 1
      BY <1>2, <1>3, <3>1
    <3>2. CASE j # Len(Stream) + 1
      <4>1. j \in DOMAIN Stream /\ i \in DOMAIN Stream
        BY <1>2, <2>1, <3>2
      <4> QED
        BY <1>2, <1>3, <2>1, <4>1 DEF Belongs
    <3> QED
      BY <3>1, <3>2
  <2> QED
    BY <2>1 DEF Belongs
<1> QED
  BY <1>4, <1>5

LEMMA PacketSentKeeps ==
  ASSUME SessionType, stdin' = stdin, rsp' = rsp,
         gdb'.cmd \in Command \cup {NoCommand},
         toStub' = toStub \o Packet(gdb'.cmd),
         ~Pending \/ Stream = <<>>
  PROVE  OneOpen' /\ Belongs'
<1> DEFINE s == Packet(gdb'.cmd)
<1>1. /\ s \in Seq(Byte) /\ Len(s) = 5
      /\ \A i \in 2 .. 5 : s[i].b # "$"
      /\ \A i \in 1 .. 5 : s[i].of \in {NoCommand, gdb'.cmd}
  <2>1. /\ s[1] = Plain("$") /\ s[3] = Plain("#")
        /\ s[2] = [b |-> "data", of |-> gdb'.cmd]
        /\ s[4] = [b |-> "digit", of |-> gdb'.cmd] /\ s[5] = [b |-> "digit", of |-> gdb'.cmd]
        /\ s \in Seq(Byte) /\ Len(s) = 5
    BY PacketType
  <2> HIDE DEF s
  <2>2. \A i \in 1 .. 5 : i \in {1, 2, 3, 4, 5} /\ (i \in 2 .. 5 => i # 1)
    OBVIOUS
  <2> QED
    BY <2>1, <2>2 DEF Plain
<1> HIDE DEF s
<1>2. /\ DOMAIN Stream = 1 .. Len(Stream) /\ DOMAIN Stream' = 1 .. Len(Stream) + 5
      /\ Len(Stream) \in Nat
      /\ \A i \in DOMAIN Stream : Stream'[i] = Stream[i]
      /\ \A i \in 1 .. 5 : Stream'[Len(Stream) + i] = s[i]
  BY <1>1, StreamSent DEF s
<1>3. ASSUME NEW i \in DOMAIN Stream' PROVE i \in DOMAIN Stream \/ i - Len(Stream) \in 1 .. 5
  BY <1>2
<1>4. ASSUME NEW i \in DOMAIN Stream', i - Len(Stream) \in 1 .. 5
      PROVE  Stream'[i] = s[i - Len(Stream)]
  <2>1. i = Len(Stream) + (i - Len(Stream))
    BY <1>2
  <2> QED
    BY <1>2, <1>4, <2>1
<1>5. ASSUME NEW i \in DOMAIN Stream', Opens(i)' PROVE i = Len(Stream) + 1
  <2>1. CASE i \in DOMAIN Stream
    <3>1. Opens(i) /\ Stream # <<>>
      BY <1>2, <1>5, <2>1, EmptySeq DEF Opens
    <3> QED
      BY <2>1, <3>1 DEF Pending
  <2>2. CASE i - Len(Stream) \in 1 .. 5
    <3>1. s[i - Len(Stream)].b = "$"
      BY <1>4, <1>5, <2>2 DEF Opens
    <3>2. i - Len(Stream) \notin 2 .. 5
      BY <1>1, <3>1
    <3> QED
      BY <1>2, <2>2, <3>2
  <2> QED
    BY <1>3, <2>1, <2>2
<1>6. OneOpen'
  <2>1. Stream = <<>> => Len(Stream) = 0
    BY EmptySeq
  <2> QED
    BY <1>2, <1>5, <2>1 DEF OneOpen, Pending, InPacket
<1>7. Belongs'
  <2>1. ASSUME NEW i \in DOMAIN Stream', NEW j \in DOMAIN Stream', i <= j, InPacket' \/ Opens(i)'
        PROVE  Stream'[j].of \in {NoCommand, gdb'.cmd}
    <3>1. CASE j - Len(Stream) \in 1 .. 5
      BY <1>1, <1>4, <3>1
    <3>2. CASE j \in DOMAIN Stream
      <4>1. Stream # <<>>
        BY <3>2, EmptySeq, <1>2
      <4>2. ~InPacket' /\ i # Len(Stream) + 1
        BY <1>2, <2>1, <3>2, <4>1 DEF Pending, InPacket
      <4> QED
        BY <1>5, <2>1, <4>2
    <3> QED
      BY <1>3, <3>1, <3>2
  <2> QED
    BY <2>1 DEF Belongs
<1> QED
  BY <1>6, <1>7

\* What is left after a fault keeps its order; a byte is what it was or noise.
Thinned(m) ==
  /\ m \in [DOMAIN Stream' -> DOMAIN Stream]
  /\ \A i \in DOMAIN Stream' : i <= m[i]
  /\ \A i, j \in DOMAIN Stream' : i < j => m[i] < m[j]
  /\ \A i \in DOMAIN Stream' :
       Stream'[i] = Stream[m[i]] \/ Stream'[i] = [b |-> "data", of |-> NoCommand]

LEMMA FaultThins ==
  ASSUME SessionType, SessionType', LinkFault
  PROVE  /\ DOMAIN Stream \subseteq Nat /\ DOMAIN Stream' \subseteq Nat
         /\ \E m : Thinned(m)
<1>1. /\ stdin \in Seq(Byte) /\ toStub \in Seq(Byte) /\ toStub' \in Seq(Byte)
      /\ toStub # <<>> /\ stdin' = stdin
  BY DEF SessionType, LinkFault
<1>2. /\ Len(stdin) \in Nat /\ Len(toStub) \in Nat \ {0}
  BY <1>1, EmptySeq, LenProperties
<1>3. /\ Stream \in Seq(Byte) /\ DOMAIN Stream = 1 .. Len(stdin) + Len(toStub)
      /\ \A i \in 1 .. Len(stdin) + Len(toStub) :
           Stream[i] = IF i <= Len(stdin) THEN stdin[i] ELSE toStub[i - Len(stdin)]
  BY <1>1, ConcatProperties, LenProperties DEF Stream
<1>4. /\ Stream' \in Seq(Byte) /\ DOMAIN Stream' = 1 .. Len(stdin) + Len(toStub')
      /\ \A i \in 1 .. Len(stdin) + Len(toStub') :
           Stream'[i] = IF i <= Len(stdin) THEN stdin[i] ELSE toStub'[i - Len(stdin)]
  BY <1>1, ConcatProperties, LenProperties DEF Stream
<1>5. CASE toStub' = Tail(toStub)
  <2> DEFINE m == [i \in DOMAIN Stream' |-> IF i <= Len(stdin) THEN i ELSE i + 1]
  <2>1. /\ Len(toStub') = Len(toStub) - 1
        /\ \A i \in 1 .. Len(toStub') : toStub'[i] = toStub[i + 1]
    BY <1>1, <1>5, HeadTailProperties
  <2>2. /\ m \in [DOMAIN Stream' -> DOMAIN Stream]
        /\ \A i \in DOMAIN Stream' : m[i] = IF i <= Len(stdin) THEN i ELSE i + 1
    BY <1>2, <1>3, <1>4, <2>1
  <2> HIDE DEF m
  <2>3. ASSUME NEW i \in DOMAIN Stream' PROVE Stream'[i] = Stream[m[i]]
    <3>1. CASE i <= Len(stdin)
      BY <1>2, <1>3, <1>4, <2>1, <2>2, <3>1
    <3>2. CASE ~(i <= Len(stdin))
      <4> DEFINE k == i - Len(stdin)
                 j == i + 1
      <4>1. k \in 1 .. Len(toStub') /\ i \in 1 .. Len(stdin) + Len(toStub')
        BY <1>2, <1>4, <2>1, <3>2
      <4>2. /\ j \in 1 .. Len(stdin) + Len(toStub) /\ ~(j <= Len(stdin))
            /\ j - Len(stdin) = k + 1
        BY <1>2, <1>4, <2>1, <3>2
      <4>3. Stream'[i] = toStub'[k]
        BY <1>4, <3>2, <4>1
      <4>4. m[i] = j
        BY <2>2, <3>2
      <4> HIDE DEF k, j
      <4>5. toStub'[k] = toStub[k + 1]
        BY <2>1, <4>1
      <4>6. Stream[j] = toStub[j - Len(stdin)]
        BY <1>3, <4>2, Zenon
      <4> QED
        BY <4>2, <4>3, <4>4, <4>5, <4>6
    <3> QED
      BY <3>1, <3>2
  <2>4. Thinned(m)
    BY <1>2, <1>3, <1>4, <2>1, <2>2, <2>3 DEF Thinned
  <2> QED
    BY <1>2, <1>3, <1>4, <2>1, <2>4
<1>6. CASE toStub' = [toStub EXCEPT ![1] = [b |-> "data", of |-> NoCommand]]
  <2> DEFINE m == [i \in DOMAIN Stream' |-> i]
             noise == [b |-> "data", of |-> NoCommand]
  <2>1. /\ Len(toStub') = Len(toStub)
        /\ \A j \in 1 .. Len(toStub) : toStub'[j] = IF j = 1 THEN noise ELSE toStub[j]
    <3>1. 1 \in 1 .. Len(toStub) /\ noise \in Byte
      BY <1>2 DEF Byte
    <3> QED
      BY <1>1, <1>6, <3>1, ExceptSeq
  <2> HIDE DEF noise
  <2>2. /\ m \in [DOMAIN Stream' -> DOMAIN Stream]
        /\ \A i \in DOMAIN Stream' : m[i] = i
    BY <1>2, <1>3, <1>4, <2>1
  <2> HIDE DEF m
  <2>3. ASSUME NEW i \in DOMAIN Stream' PROVE Stream'[i] = Stream[m[i]] \/ Stream'[i] = noise
    <3>1. CASE i <= Len(stdin)
      BY <1>2, <1>3, <1>4, <2>1, <2>2, <3>1
    <3>2. CASE ~(i <= Len(stdin))
      <4> DEFINE j == i - Len(stdin)
      <4>1. j \in 1 .. Len(toStub) /\ Stream'[i] = toStub'[j] /\ Stream[i] = toStub[j]
        BY <1>2, <1>3, <1>4, <2>1, <3>2
      <4> HIDE DEF j
      <4>2. toStub'[j] = noise \/ toStub'[j] = toStub[j]
        BY <2>1, <4>1
      <4> QED
        BY <2>2, <4>1, <4>2
    <3> QED
      BY <3>1, <3>2
  <2>4. Thinned(m)
    BY <1>2, <1>3, <1>4, <2>1, <2>2, <2>3 DEF Thinned, noise
  <2> QED
    BY <1>2, <1>3, <1>4, <2>1, <2>4
<1> QED
  BY <1>5, <1>6 DEF LinkFault

LEMMA FaultKeeps ==
  ASSUME SessionType, SessionType', LinkFault, OneOpen, Belongs
  PROVE  OneOpen' /\ Belongs' /\ (Pending' => Pending)
<1>1. PICK m : Thinned(m)
  BY FaultThins
<1>2. DOMAIN Stream \subseteq Nat /\ DOMAIN Stream' \subseteq Nat /\ rsp' = rsp /\ gdb' = gdb
  BY FaultThins DEF LinkFault
<1>3. \A i \in DOMAIN Stream' : m[i] \in DOMAIN Stream /\ m[i] \in Nat /\ i \in Nat /\ i <= m[i]
  BY <1>1, <1>2 DEF Thinned
<1>4. \A i \in DOMAIN Stream' :
        /\ Opens(i)' => Opens(m[i])
        /\ Stream'[i].of \in {NoCommand, Stream[m[i]].of}
  BY <1>1 DEF Thinned, Opens
<1>5. OneOpen'
  <2>1. ASSUME NEW i \in DOMAIN Stream', NEW j \in DOMAIN Stream', Opens(i)', Opens(j)' PROVE i = j
    <3>1. m[i] = m[j]
      BY <1>3, <1>4, <2>1 DEF OneOpen
    <3>2. ~(i < j) /\ ~(j < i)
      BY <1>1, <1>3, <3>1 DEF Thinned
    <3> QED
      BY <1>3, <3>2
  <2>2. ASSUME NEW i \in DOMAIN Stream', Opens(i)', i > 1 PROVE ~InPacket'
    <3>1. m[i] > 1 /\ Opens(m[i]) /\ m[i] \in DOMAIN Stream
      BY <1>3, <1>4, <2>2
    <3> QED
      BY <1>2, <3>1 DEF OneOpen, InPacket
  <2> QED
    BY <2>1, <2>2 DEF OneOpen
<1>6. Belongs'
  <2>1. ASSUME NEW i \in DOMAIN Stream', NEW j \in DOMAIN Stream', i <= j, InPacket' \/ Opens(i)'
        PROVE  Stream'[j].of \in {NoCommand, gdb'.cmd}
    <3>1. m[i] <= m[j]
      <4>1. i = j \/ i < j
        BY <1>3, <2>1
      <4> QED
        BY <1>1, <1>3, <4>1 DEF Thinned
    <3>2. InPacket \/ Opens(m[i])
      BY <1>2, <1>4, <2>1 DEF InPacket
    <3> QED
      BY <1>2, <1>3, <1>4, <3>1, <3>2 DEF Belongs
  <2> QED
    BY <2>1 DEF Belongs
<1>7. Pending' => Pending
  BY <1>2, <1>3, <1>4 DEF Pending, InPacket
<1> QED
  BY <1>5, <1>6, <1>7

-----------------------------------------------------------------------------
(* gdb reads one message, the stub adds some *)

LEMMA QueueType ==
  ASSUME SessionType
  PROVE  /\ toGdb \in Seq(Output) /\ Len(toGdb) \in Nat /\ DOMAIN toGdb = 1 .. Len(toGdb)
         /\ \A i \in DOMAIN toGdb : toGdb[i] \in Output /\ i \in Nat /\ i >= 1
  BY LenProperties DEF SessionType

\* Message i has become message i - 1.
LEMMA MessageRead ==
  ASSUME SessionType, toGdb # <<>>, toGdb' = Tail(toGdb)
  PROVE  /\ DOMAIN toGdb' = 1 .. Len(toGdb) - 1 /\ 1 \in DOMAIN toGdb /\ Head(toGdb) = toGdb[1]
         /\ \A i \in DOMAIN toGdb' : i + 1 \in DOMAIN toGdb /\ toGdb'[i] = toGdb[i + 1]
         /\ \A i \in DOMAIN toGdb : i > 1 => i - 1 \in DOMAIN toGdb' /\ toGdb'[i - 1] = toGdb[i]
<1>1. /\ toGdb \in Seq(Output) /\ Len(toGdb) \in Nat \ {0} /\ DOMAIN toGdb = 1 .. Len(toGdb)
  BY QueueType, EmptySeq
<1>2. /\ toGdb' \in Seq(Output) /\ Len(toGdb') = Len(toGdb) - 1
      /\ \A i \in 1 .. Len(toGdb') : toGdb'[i] = toGdb[i + 1]
  BY <1>1, HeadTailProperties
<1>3. DOMAIN toGdb' = 1 .. Len(toGdb')
  BY <1>2, LenProperties
<1>4. ASSUME NEW i \in DOMAIN toGdb, i > 1 PROVE i - 1 \in DOMAIN toGdb' /\ toGdb'[i - 1] = toGdb[i]
  <2>1. i - 1 \in 1 .. Len(toGdb') /\ i - 1 + 1 = i
    BY <1>1, <1>2, <1>4
  <2> QED
    BY <1>2, <1>3, <2>1
<1>5. Head(toGdb) = toGdb[1]
  BY <1>1
<1> QED
  BY <1>1, <1>2, <1>3, <1>4, <1>5

LEMMA ReadKeeps ==
  ASSUME SessionType, toGdb # <<>>, toGdb' = Tail(toGdb), hart' = hart,
         NEW k \in Nat
  PROVE  /\ Stopped(k + 1) => Stopped(k)'
         /\ gdb'.bps = gdb.bps /\ Resumed(k + 1) => Resumed(k)'
         /\ k >= 1 /\ gdb'.bps = gdb.bps /\ gdb'.cmd = gdb.cmd /\ Answered(k + 1) => Answered(k)'
         /\ rsp' = rsp /\ Refused(k + 1) => Refused(k)'
<1>1. /\ DOMAIN toGdb = 1 .. Len(toGdb) /\ Len(toGdb) \in Nat
      /\ DOMAIN toGdb' = 1 .. Len(toGdb) - 1
      /\ \A i \in DOMAIN toGdb' : i + 1 \in DOMAIN toGdb /\ toGdb'[i] = toGdb[i + 1]
      /\ \A i \in DOMAIN toGdb : i > 1 => i - 1 \in DOMAIN toGdb' /\ toGdb'[i - 1] = toGdb[i]
  BY MessageRead, QueueType
<1>2. ASSUME NEW n \in Nat, Stopped(n + 1) PROVE Stopped(n)'
  <2>1. \A i \in DOMAIN toGdb' : i > n => i + 1 > n + 1
    BY <1>1
  <2> QED
    BY <1>1, <1>2, <2>1 DEF Stopped, PacketsAfter
<1>3. ASSUME gdb'.bps = gdb.bps, Resumed(k + 1) PROVE Resumed(k)'
  <2>1. Agree'
    BY <1>3 DEF Resumed, Agree
  <2>2. ASSUME NEW i \in DOMAIN toGdb', i > k
        PROVE  /\ toGdb'[i].k \in {"packet", "console"}
               /\ toGdb'[i].k = "packet" => Stopped(i)'
    <3>1. i + 1 \in DOMAIN toGdb /\ i + 1 > k + 1 /\ toGdb'[i] = toGdb[i + 1] /\ i \in Nat
      BY <1>1, <2>2
    <3> QED
      BY <1>2, <1>3, <3>1 DEF Resumed
  <2> QED
    BY <2>1, <2>2 DEF Resumed
<1>4. ASSUME k >= 1, gdb'.bps = gdb.bps, gdb'.cmd = gdb.cmd, Answered(k + 1) PROVE Answered(k)'
  <2>1. k + 1 \in DOMAIN toGdb /\ k + 1 > 1 /\ k + 1 - 1 = k
    BY <1>4 DEF Answered
  <2>2. k \in DOMAIN toGdb' /\ toGdb'[k] = toGdb[k + 1]
    BY <1>1, <2>1
  <2>3. Believed(toGdb[k].text)' = Believed(toGdb[k + 1].text)
    BY <1>4, <2>2 DEF Believed
  <2> QED
    BY <1>2, <1>4, <2>2, <2>3 DEF Answered
<1>5. ASSUME rsp' = rsp, Refused(k + 1) PROVE Refused(k)'
  <2>1. ASSUME NEW i \in DOMAIN toGdb' PROVE i <= k
    <3>1. i + 1 \in DOMAIN toGdb /\ i + 1 <= k + 1 /\ i \in Nat
      BY <1>1, <1>5, <2>1 DEF Refused
    <3> QED
      BY <3>1
  <2> QED
    BY <1>5, <2>1 DEF Refused
<1> QED
  BY <1>2, <1>3, <1>4, <1>5

LEMMA MessagesAdded ==
  ASSUME SessionType, NEW s \in Seq(Output), toGdb' = toGdb \o s
  PROVE  /\ DOMAIN toGdb' = 1 .. Len(toGdb) + Len(s) /\ Len(s) \in Nat /\ DOMAIN s = 1 .. Len(s)
         /\ \A i \in DOMAIN toGdb : i \in DOMAIN toGdb' /\ toGdb'[i] = toGdb[i]
         /\ \A i \in DOMAIN toGdb' :
              \/ i \in DOMAIN toGdb
              \/ i > Len(toGdb) /\ i - Len(toGdb) \in DOMAIN s /\ toGdb'[i] = s[i - Len(toGdb)]
         /\ \A i \in DOMAIN s :
              Len(toGdb) + i \in DOMAIN toGdb' /\ toGdb'[Len(toGdb) + i] = s[i]
<1>1. /\ toGdb \in Seq(Output) /\ Len(toGdb) \in Nat /\ DOMAIN toGdb = 1 .. Len(toGdb)
      /\ Len(s) \in Nat /\ DOMAIN s = 1 .. Len(s)
  BY QueueType, LenProperties
<1>2. /\ toGdb' \in Seq(Output) /\ Len(toGdb') = Len(toGdb) + Len(s)
      /\ \A i \in 1 .. Len(toGdb) + Len(s) :
           toGdb'[i] = IF i <= Len(toGdb) THEN toGdb[i] ELSE s[i - Len(toGdb)]
  BY <1>1, ConcatProperties
<1>3. DOMAIN toGdb' = 1 .. Len(toGdb) + Len(s)
  BY <1>2, LenProperties
<1>4. ASSUME NEW i \in DOMAIN s
      PROVE  Len(toGdb) + i \in DOMAIN toGdb' /\ toGdb'[Len(toGdb) + i] = s[i]
  <2>1. /\ Len(toGdb) + i \in 1 .. Len(toGdb) + Len(s) /\ ~(Len(toGdb) + i <= Len(toGdb))
        /\ Len(toGdb) + i - Len(toGdb) = i
    BY <1>1
  <2> QED
    BY <1>2, <1>3, <2>1
<1>5. ASSUME NEW i \in DOMAIN toGdb'
      PROVE  \/ i \in DOMAIN toGdb
             \/ i > Len(toGdb) /\ i - Len(toGdb) \in DOMAIN s /\ toGdb'[i] = s[i - Len(toGdb)]
  BY <1>1, <1>2, <1>3
<1> QED
  BY <1>1, <1>2, <1>3, <1>4, <1>5

\* The stub adds messages, none of them an ack, as the hart goes its way: after
\* a stop report come only packets, and a stopped hart prints nothing.
Reported(s) ==
  /\ s \in Seq(Output)
  /\ \A i \in DOMAIN s : s[i].k \in {"packet", "console"}
  /\ \A i \in DOMAIN s : s[i].k = "packet" =>
       hart'.status # "RUNNING" /\ \A j \in DOMAIN s : j > i => s[j].k = "packet"
  /\ hart.status # "RUNNING" => hart'.status # "RUNNING" /\ \A i \in DOMAIN s : s[i].k = "packet"

LEMMA ReportKeeps ==
  ASSUME SessionType, NEW s, Reported(s), toGdb' = toGdb \o s,
         SameTable(hart', hart),
         gdb'.phase = gdb.phase, gdb'.cmd = gdb.cmd, gdb'.bps = gdb.bps,
         rsp.fatal # "none" => rsp'.fatal # "none" /\ s = <<>>, View
  PROVE  View' /\ (NoAck => NoAck')
<1>1. /\ DOMAIN toGdb = 1 .. Len(toGdb) /\ Len(toGdb) \in Nat /\ Len(s) \in Nat
      /\ DOMAIN toGdb' = 1 .. Len(toGdb) + Len(s) /\ DOMAIN s = 1 .. Len(s)
      /\ \A i \in DOMAIN toGdb : i \in DOMAIN toGdb' /\ toGdb'[i] = toGdb[i]
      /\ \A i \in DOMAIN toGdb' :
           \/ i \in DOMAIN toGdb
           \/ i > Len(toGdb) /\ i - Len(toGdb) \in DOMAIN s /\ toGdb'[i] = s[i - Len(toGdb)]
  BY MessagesAdded, QueueType DEF Reported
<1>2. Armed(hart') = Armed(hart)
  BY SameTableKeeps
<1>3. ASSUME NEW k \in Nat, Stopped(k) PROVE Stopped(k)'
  <2>1. hart'.status # "RUNNING" /\ \A i \in DOMAIN s : s[i].k = "packet"
    BY <1>3 DEF Stopped, Reported
  <2>2. ASSUME NEW i \in DOMAIN toGdb', i > k PROVE toGdb'[i].k = "packet"
    BY <1>1, <1>3, <2>1, <2>2 DEF Stopped, PacketsAfter
  <2> QED
    BY <2>1, <2>2 DEF Stopped, PacketsAfter
<1>4. Agree => Agree'
  BY <1>2 DEF Agree
<1>5. ASSUME NEW k \in Nat, Resumed(k) PROVE Resumed(k)'
  <2>1. ASSUME NEW i \in DOMAIN toGdb', i > k
        PROVE  /\ toGdb'[i].k \in {"packet", "console"}
               /\ toGdb'[i].k = "packet" => Stopped(i)'
    <3>1. CASE i \in DOMAIN toGdb
      <4>1. toGdb'[i] = toGdb[i] /\ i \in Nat
        BY <1>1, <3>1
      <4>2. toGdb[i].k \in {"packet", "console"} /\ (toGdb[i].k = "packet" => Stopped(i))
        BY <1>5, <2>1, <3>1 DEF Resumed
      <4> QED
        BY <1>3, <4>1, <4>2
    <3>2. CASE i > Len(toGdb) /\ i - Len(toGdb) \in DOMAIN s /\ toGdb'[i] = s[i - Len(toGdb)]
      <4>1. toGdb'[i].k \in {"packet", "console"}
        BY <3>2 DEF Reported
      <4>2. ASSUME toGdb'[i].k = "packet" PROVE Stopped(i)'
        <5>1. /\ hart'.status # "RUNNING"
              /\ \A j \in DOMAIN s : j > i - Len(toGdb) => s[j].k = "packet"
          BY <3>2, <4>2 DEF Reported
        <5>2. ASSUME NEW j \in DOMAIN toGdb', j > i PROVE toGdb'[j].k = "packet"
          <6>1. j \notin DOMAIN toGdb
            BY <1>1, <3>2, <5>2
          <6>2. j - Len(toGdb) \in DOMAIN s /\ toGdb'[j] = s[j - Len(toGdb)]
                /\ j - Len(toGdb) > i - Len(toGdb)
            BY <1>1, <5>2, <6>1
          <6> QED
            BY <5>1, <6>2
        <5> QED
          BY <5>1, <5>2 DEF Stopped, PacketsAfter
      <4> QED
        BY <4>1, <4>2
    <3> QED
      BY <1>1, <3>1, <3>2
  <2>2. Agree'
    BY <1>4, <1>5 DEF Resumed
  <2> QED
    BY <2>1, <2>2 DEF Resumed
<1>6. ASSUME NEW k \in Nat, Answered(k) PROVE Answered(k)'
  <2>1. k \in DOMAIN toGdb' /\ toGdb'[k] = toGdb[k]
    BY <1>1, <1>6 DEF Answered
  <2>2. Believed(toGdb[k].text)' = Believed(toGdb[k].text)
    BY <2>1 DEF Believed
  <2> QED
    BY <1>2, <1>3, <1>6, <2>1, <2>2 DEF Answered
<1>13. ASSUME NEW k \in Nat, Refused(k) PROVE Refused(k)'
  <2>1. rsp'.fatal # "none" /\ s = <<>> /\ hart'.status # "RUNNING"
    BY <1>13 DEF Refused, Reported
  <2>2. DOMAIN s = {}
    BY <2>1, EmptySeq
  <2>3. ASSUME NEW i \in DOMAIN toGdb' PROVE i <= k
    BY <1>1, <1>13, <2>2, <2>3 DEF Refused
  <2> QED
    BY <2>1, <2>3 DEF Refused
<1>7. Sensible(gdb.cmd) => Sensible(gdb.cmd)'
  BY DEF Sensible
<1>8. \A i \in DOMAIN toGdb' : toGdb'[i].k \in {"+", "-"} => i \in DOMAIN toGdb
  BY <1>1 DEF Reported
<1>9. NoAck => NoAck'
  BY <1>1, <1>8 DEF NoAck
<1>10. NoAck' => NoAck
  BY <1>1 DEF NoAck
<1>11. ASSUME NEW k \in DOMAIN toGdb', gdb'.phase = "waitAck", toGdb'[k].k \in {"+", "-"}
       PROVE  Acked(k)'
  <2>1. k \in DOMAIN toGdb /\ toGdb'[k] = toGdb[k] /\ k \in Nat /\ k + 1 \in Nat
    BY <1>1, <1>8, <1>11
  <2>2. Acked(k)
    BY <1>11, <2>1 DEF View
  <2>3. \A i \in 1 .. k - 1 : toGdb'[i].k = "packet"
    <3>1. \A i \in 1 .. k - 1 : i \in DOMAIN toGdb
      BY <1>1, <2>1
    <3> QED
      BY <1>1, <2>2, <3>1 DEF Acked
  <2> QED
    BY <1>3, <1>4, <1>5, <1>6, <1>7, <1>13, <2>1, <2>2, <2>3 DEF Acked
<1>12. View'
  BY <1>3, <1>4, <1>5, <1>6, <1>7, <1>10, <1>11, <1>13 DEF View
<1> QED
  BY <1>9, <1>12

LEMMA NothingReported ==
  ASSUME SessionType, toGdb' = toGdb, hart' = hart, rsp.fatal # "none" => rsp' = rsp,
         gdb'.phase = gdb.phase, gdb'.cmd = gdb.cmd, gdb'.bps = gdb.bps, View
  PROVE  View' /\ (NoAck => NoAck')
<1>1. Reported(<<>>)
  BY EmptySeq DEF Reported
<1>2. toGdb' = toGdb \o <<>>
  BY ConcatEmptySeq DEF SessionType
<1> QED
  BY <1>1, <1>2, ReportKeeps DEF SameTable

LEMMA InterruptReports ==
  ASSUME SessionType, rsp.fatal = "none", NEW c, Interrupt(c), gdb' = gdb, View
  PROVE  View' /\ (NoAck => NoAck') /\ SameTable(hart', hart)
<1> DEFINE s == <<Reply("stop", "S02")>>
<1>1. Reply("stop", "S02") \in Output /\ Reply("stop", "S02").k = "packet"
  BY ReplyType DEF Text, Signal, Reply
<1>2. toGdb' = toGdb \o s
  BY <1>1, AppendIsConcat DEF Interrupt, SessionType
<1>3. hart'.status = "PAUSED" /\ SameTable(hart', hart)
  BY DEF Interrupt, SessionType, WellTyped, Hart, SameTable
<1>4. s \in Seq(Output) /\ \A i \in DOMAIN s : s[i].k = "packet"
  BY <1>1
<1> HIDE DEF s
<1>5. Reported(s)
  BY <1>3, <1>4 DEF Reported
<1> QED
  BY <1>2, <1>3, <1>5, ReportKeeps

LEMMA CycleReports ==
  ASSUME SessionType, RunCycle, View
  PROVE  View' /\ (NoAck => NoAck') /\ SameTable(hart', hart)
<1>1. PICK n \in {0, 1} :
        toGdb' = toGdb \o [i \in 1 .. n |-> Ack("console")] \o Reports(hart'.status)
  BY CycleSends
<1>2. SameTable(hart', hart) /\ hart.status = "RUNNING" /\ rsp.fatal = "none"
  BY CycleKeepsTable DEF RunCycle, Alive, SessionType
<1> DEFINE printed == [i \in 1 .. n |-> Ack("console")]
           sent == Reports(hart'.status)
           s == printed \o sent
<1>3. printed \in Seq(Output) /\ Len(printed) = n /\ \A i \in 1 .. n : printed[i].k = "console"
  <2>1. Ack("console") \in Output /\ Ack("console").k = "console"
    BY AckType DEF Ack
  <2> HIDE DEF printed
  <2>2. printed = [i \in 1 .. n |-> Ack("console")]
    BY DEF printed
  <2> QED
    BY <2>1, <2>2
<1>4. /\ sent \in Seq(Output) /\ \A i \in DOMAIN sent : sent[i].k = "packet"
      /\ hart'.status = "RUNNING" => sent = <<>>
  <2>1. /\ Reply("stop", "S0b") \in Output /\ Reply("stop", "S04") \in Output
        /\ Reply("stop", "S05") \in Output
        /\ Reply("stop", "S0b").k = "packet" /\ Reply("stop", "S04").k = "packet"
        /\ Reply("stop", "S05").k = "packet"
    BY ReplyType DEF Text, Signal, Reply
  <2>2. ASSUME NEW m \in Output, m.k = "packet"
        PROVE  <<m>> \in Seq(Output) /\ \A i \in DOMAIN <<m>> : <<m>>[i].k = "packet"
    BY <2>2
  <2>3. ASSUME NEW m \in Output, m.k = "packet", NEW o \in Output, o.k = "packet"
        PROVE  <<m, o>> \in Seq(Output) /\ \A i \in DOMAIN <<m, o>> : <<m, o>>[i].k = "packet"
    BY <2>3
  <2>4. <<>> \in Seq(Output) /\ DOMAIN <<>> = {}
    BY EmptySeq
  <2>5. \/ hart'.status = "RUNNING" /\ sent = <<>>
        \/ hart'.status # "RUNNING" /\ sent = <<Reply("stop", "S0b")>>
        \/ hart'.status # "RUNNING" /\ sent = <<Reply("stop", "S04"), Reply("stop", "S05")>>
        \/ hart'.status # "RUNNING" /\ sent = <<Reply("stop", "S05")>>
    BY DEF Reports
  <2> HIDE DEF sent
  <2>6. CASE sent = <<Reply("stop", "S0b")>> /\ hart'.status # "RUNNING"
    BY <2>1, <2>2, <2>6
  <2>7. CASE sent = <<Reply("stop", "S05")>> /\ hart'.status # "RUNNING"
    BY <2>1, <2>2, <2>7
  <2>8. CASE sent = <<Reply("stop", "S04"), Reply("stop", "S05")>> /\ hart'.status # "RUNNING"
    BY <2>1, <2>3, <2>8
  <2> QED
    BY <2>4, <2>5, <2>6, <2>7, <2>8
<1> HIDE DEF printed, sent
<1>5. toGdb' = toGdb \o s
  <2>1. toGdb' = (toGdb \o printed) \o sent
    BY <1>1 DEF printed, sent
  <2>2. toGdb \in Seq(Output) /\ printed \in Seq(Output) /\ sent \in Seq(Output)
    BY <1>3, <1>4, QueueType
  <2>3. (toGdb \o printed) \o sent = toGdb \o (printed \o sent)
    BY <2>2, ConcatAssociative
  <2> QED
    BY <2>1, <2>3, Zenon
<1>6. /\ s \in Seq(Output) /\ Len(sent) \in Nat /\ DOMAIN sent = 1 .. Len(sent)
      /\ DOMAIN s = 1 .. n + Len(sent)
      /\ \A i \in 1 .. n + Len(sent) : s[i] = IF i <= n THEN printed[i] ELSE sent[i - n]
  BY <1>3, <1>4, ConcatProperties, LenProperties
<1> HIDE DEF s
<1>7. \A i \in DOMAIN s : s[i].k = IF i <= n THEN "console" ELSE "packet"
  <2>1. ASSUME NEW i \in DOMAIN s PROVE IF i <= n THEN i \in 1 .. n ELSE i - n \in DOMAIN sent
    BY <1>6
  <2>2. ASSUME NEW i \in DOMAIN s PROVE s[i] = IF i <= n THEN printed[i] ELSE sent[i - n]
    BY <1>6
  <2>3. ASSUME NEW i \in DOMAIN s PROVE s[i].k = IF i <= n THEN "console" ELSE "packet"
    <3>1. CASE i <= n
      BY <1>3, <2>1, <2>2, <3>1
    <3>2. CASE ~(i <= n)
      <4>1. i - n \in DOMAIN sent /\ s[i] = sent[i - n]
        BY <2>1, <2>2, <3>2
      <4> QED
        BY <1>4, <3>2, <4>1
    <3> QED
      BY <3>1, <3>2
  <2> QED
    BY <2>3
<1>8. Reported(s)
  <2>1. \A i \in DOMAIN s : s[i].k \in {"packet", "console"}
    BY <1>7
  <2>2. ASSUME NEW i \in DOMAIN s, s[i].k = "packet"
        PROVE  hart'.status # "RUNNING" /\ \A j \in DOMAIN s : j > i => s[j].k = "packet"
    <3>1. ~(i <= n) /\ i - n \in DOMAIN sent
      BY <1>6, <1>7, <2>2
    <3>2. sent # <<>>
      BY <1>6, <3>1, EmptySeq
    <3>3. \A j \in DOMAIN s : j > i => ~(j <= n)
      BY <1>6, <3>1
    <3> QED
      BY <1>4, <1>7, <3>2, <3>3
  <2> QED
    BY <1>2, <1>6, <2>1, <2>2 DEF Reported
<1> QED
  BY <1>2, <1>5, <1>8, ReportKeeps DEF RunCycle

-----------------------------------------------------------------------------
(* The command of an accepted packet does what its answer says *)

LEMMA AnswerTells ==
  ASSUME hart \in Hart, gdb.cmd \in Command, DistinctSlots(hart), Agree,
         Sensible(gdb.cmd), hart.status # "RUNNING",
         NEW text, Answers(gdb.cmd, text)
  PROVE  /\ gdb.cmd.op \notin {"c", "k"}
         /\ DistinctSlots(hart')
         /\ gdb.cmd.op # "D" =>
              hart'.status # "RUNNING" /\ Armed(hart') = Believed(text)
<1> DEFINE cmd == gdb.cmd
<1>1. cmd.addr \in Addr
  BY DEF Command
<1>2. cmd.op \notin {"Z0", "z0"} => Believed(text) = Armed(hart)
  BY DEF Believed, Agree
<1>3. CASE HandleQuery(cmd, text) \/ rsp_read_memory(cmd, text) \/ rsp_write_memory(cmd, text)
  <2>1. hart' = hart /\ cmd.op \notin {"Z0", "z0", "c", "k"}
    BY <1>3 DEF HandleQuery, rsp_read_memory, rsp_write_memory, NoChange, hartVars
  <2> QED
    BY <1>2, <2>1
<1>4. CASE rsp_write_registers(cmd, text) \/ rsp_write_specific_register(cmd, text)
  <2>1. SameTable(hart', hart) /\ hart'.status = hart.status /\ cmd.op \notin {"Z0", "z0", "c", "k"}
    BY <1>4 DEF rsp_write_registers, rsp_write_specific_register, SameTable, Hart
  <2> QED
    BY <1>2, <2>1, SameTableKeeps
<1>5. CASE rsp_set_software_breakpoint(cmd, text)
  <2>1. PICK o \in rv32_set_breakpoint(hart, cmd.addr) : hart' = o[1] /\ text = Answer(o[2])
    BY <1>5 DEF rsp_set_software_breakpoint
  <2>2. cmd.op = "Z0" /\ cmd.addr \notin Armed(hart)
    BY <1>5 DEF rsp_set_software_breakpoint, Sensible, Agree
  <2>3. /\ DistinctSlots(hart') /\ hart'.status = hart.status
        /\ \/ o[2] = 1 /\ Armed(hart') = Armed(hart) \cup {cmd.addr}
           \/ o[2] = 0 /\ Armed(hart') = Armed(hart)
    BY <1>1, <2>1, <2>2, SetBreakpointArms
  <2>4. CASE o[2] = 1
    <3>1. Armed(hart') = Armed(hart) \cup {cmd.addr} /\ text = "OK"
      BY <2>1, <2>3, <2>4 DEF Answer
    <3>2. Believed(text) = gdb.bps \cup {cmd.addr}
      BY <2>2, <3>1 DEF Believed
    <3> QED
      BY <2>2, <2>3, <3>1, <3>2 DEF Agree
  <2>5. CASE o[2] = 0
    <3>1. Armed(hart') = Armed(hart)
      BY <2>3, <2>5
    <3>3. text = ""
      <4>1. Answer(0) = ""
        BY DEF Answer
      <4> QED
        BY <2>1, <2>5, <4>1
    <3>2. Believed(text) = gdb.bps
      BY <2>2, <3>3 DEF Believed
    <3> QED
      BY <2>2, <2>3, <3>1, <3>2 DEF Agree
  <2> QED
    BY <2>3, <2>4, <2>5
<1>6. CASE rsp_clear_software_breakpoint(cmd, text)
  <2>1. PICK o \in rv32_clear_breakpoint(hart, cmd.addr) : hart' = o[1] /\ text = Answer(o[2])
    BY <1>6 DEF rsp_clear_software_breakpoint
  <2>2. cmd.op = "z0" /\ cmd.addr \in Armed(hart)
    BY <1>6 DEF rsp_clear_software_breakpoint, Sensible, Agree
  <2>3. /\ DistinctSlots(hart') /\ hart'.status = hart.status
        /\ o[2] = 1 /\ Armed(hart') = Armed(hart) \ {cmd.addr}
    BY <1>1, <2>1, <2>2, ClearBreakpointDisarms
  <2> QED
    BY <2>1, <2>2, <2>3 DEF Answer, Believed, Agree
<1>7. CASE rsp_detach(cmd, text)
  <2>1. cmd.op = "D" /\ hart'.bpMask = {}
    BY <1>7 DEF rsp_detach, rv32_resume, rv32_clear_all_breakpoints, Hart
  <2> QED
    BY <2>1 DEF DistinctSlots
<1> QED
  BY <1>3, <1>4, <1>5, <1>6, <1>7 DEF Answers

LEMMA OneMessage ==
  ASSUME NEW m \in Output
  PROVE  <<m>> \in Seq(Output) /\ DOMAIN <<m>> = {1} /\ Len(<<m>>) = 1 /\ <<m>>[1] = m
  OBVIOUS

\* The stub answers a packet that gdb has sent and not yet had acknowledged.
LEMMA VerdictKeeps ==
  ASSUME SafetyInv, Polled, InPacket,
         \/ PacketAnswered(Stream[1]) \/ PacketUnanswered(Stream[1])
         \/ PacketFatal(Stream[1]) \/ PacketRejected(Stream[1])
  PROVE  View' /\ DistinctSlots(hart')
<1> DEFINE c == Stream[1]
<1>1. /\ gdb' = gdb /\ Pending
      /\ gdb.phase = "waitAck" /\ NoAck /\ Stopped(0) /\ Agree /\ Sensible(gdb.cmd)
  BY DEF SafetyInv, Polled, Pending, PendingInv, View
<1>2. hart \in Hart /\ DistinctSlots(hart) /\ SessionType
  BY DEF SafetyInv, SessionType, WellTyped
<1>3. /\ DOMAIN toGdb = 1 .. Len(toGdb) /\ Len(toGdb) \in Nat
      /\ \A i \in DOMAIN toGdb : i \in Nat /\ i >= 1
  BY <1>2, QueueType
<1>4. \A i \in DOMAIN toGdb : toGdb[i].k = "packet"
  BY <1>1, <1>3 DEF Stopped, PacketsAfter
<1>5. PICK n \in Nat : n = Len(toGdb)
  BY <1>3
\* Whatever is added after an ack, only that ack counts.
<1>6. ASSUME NEW s \in Seq(Output), toGdb' = toGdb \o s, 1 \in DOMAIN s, s[1].k \in {"+", "-"},
             \A i \in DOMAIN s : i > 1 => s[i].k \notin {"+", "-"},
             Acked(n + 1)'
      PROVE  View'
  <2>1. /\ n + 1 \in DOMAIN toGdb' /\ toGdb'[n + 1] = s[1]
        /\ \A i \in DOMAIN toGdb' : toGdb'[i].k \in {"+", "-"} => i = n + 1
    <3>1. /\ DOMAIN s = 1 .. Len(s) /\ Len(s) \in Nat
          /\ \A i \in DOMAIN toGdb : i \in DOMAIN toGdb' /\ toGdb'[i] = toGdb[i]
          /\ \A i \in DOMAIN toGdb' :
               \/ i \in DOMAIN toGdb
               \/ i > n /\ i - n \in DOMAIN s /\ toGdb'[i] = s[i - n]
          /\ \A i \in DOMAIN s : n + i \in DOMAIN toGdb' /\ toGdb'[n + i] = s[i]
          /\ DOMAIN toGdb' = 1 .. n + Len(s)
      BY <1>2, <1>6, <1>5, MessagesAdded
    <3>2. ASSUME NEW i \in DOMAIN toGdb', toGdb'[i].k \in {"+", "-"} PROVE i = n + 1
      <4>1. i \notin DOMAIN toGdb
        BY <1>4, <3>1, <3>2
      <4>2. i - n \in DOMAIN s /\ toGdb'[i] = s[i - n]
        BY <3>1, <4>1
      <4>3. ~(i - n > 1)
        BY <1>6, <3>2, <4>2
      <4> QED
        BY <1>3, <1>5, <3>1, <4>2, <4>3
    <3> QED
      BY <1>6, <3>1, <3>2
  <2>2. ~NoAck'
    BY <1>6, <2>1 DEF NoAck
  <2> QED
    BY <1>1, <1>6, <2>1, <2>2 DEF View
<1>7. CASE PacketRejected(c)
  <2> DEFINE s == <<Ack("-")>>
  <2>1. s \in Seq(Output) /\ DOMAIN s = {1} /\ s[1].k = "-"
    BY OneMessage, AckType DEF Ack
  <2>2. toGdb' = toGdb \o s /\ hart' = hart
    BY <1>2, <1>7, AckType, AppendIsConcat DEF PacketRejected, hartVars, SessionType
  <2> HIDE DEF s
  <2>3. /\ DOMAIN s = 1 .. Len(s) /\ Len(s) \in Nat
        /\ DOMAIN toGdb' = 1 .. n + Len(s)
        /\ \A i \in DOMAIN toGdb : toGdb'[i] = toGdb[i]
        /\ toGdb'[n + 1] = s[1]
    BY <1>2, <2>1, <2>2, <1>5, MessagesAdded
  <2>4. Len(s) = 1
    BY <2>1, <2>3
  <2>5. Stopped(n + 1)'
    BY <1>1, <1>3, <1>5, <2>2, <2>3, <2>4 DEF Stopped, PacketsAfter
  <2>6. Agree' /\ Sensible(gdb.cmd)'
    BY <1>1, <2>2 DEF Agree, Sensible
  <2>7. \A i \in 1 .. n + 1 - 1 : toGdb'[i].k = "packet"
    BY <1>3, <1>5, <1>4, <2>3
  <2>8. Acked(n + 1)'
    BY <2>1, <2>3, <2>5, <2>6, <2>7 DEF Acked
  <2> QED
    BY <1>2, <1>6, <2>1, <2>2, <2>8
<1>8. CASE PacketAnswered(c) \/ PacketUnanswered(c) \/ PacketFatal(c)
  <2>1. Received = gdb.cmd /\ gdb.cmd \in Command
    <3>1. Matches(c)
      BY <1>8 DEF PacketAnswered, PacketUnanswered, PacketFatal
    <3>2. rsp.data = <<c.of>> /\ c.of # NoCommand
      BY <3>1 DEF Matches
    <3>3. Received = c.of
      BY <3>2 DEF Received
    <3>4. Stream # <<>> /\ Stream \in Seq(Byte)
      BY <1>2, StreamType DEF Polled, SessionType
    <3>5. 1 \in DOMAIN Stream
      BY <3>4, EmptySeq, LenProperties
    <3>6. c.of \in {NoCommand, gdb.cmd}
      BY <3>5 DEF SafetyInv, Belongs
    <3>7. gdb.cmd \in Command \cup {NoCommand}
      BY <1>2, CmdType
    <3> QED
      BY <3>2, <3>3, <3>6, <3>7
  <2>2. CASE PacketUnanswered(c)
    <3> DEFINE s == <<Ack("+")>>
    <3>1. s \in Seq(Output) /\ DOMAIN s = {1} /\ s[1].k = "+"
      BY OneMessage, AckType DEF Ack
    <3>2. toGdb' = toGdb \o s
      BY <1>2, <2>2, AckType, AppendIsConcat DEF PacketUnanswered, SessionType
    <3> HIDE DEF s
    <3>3. /\ DOMAIN s = 1 .. Len(s) /\ Len(s) \in Nat
          /\ DOMAIN toGdb' = 1 .. n + Len(s)
          /\ \A i \in DOMAIN toGdb : toGdb'[i] = toGdb[i]
          /\ toGdb'[n + 1] = s[1]
      BY <1>2, <3>1, <3>2, <1>5, MessagesAdded
    <3>4. Len(s) = 1
      BY <3>1, <3>3
    <3>5. \A i \in 1 .. n + 1 - 1 : toGdb'[i].k = "packet"
      BY <1>3, <1>5, <1>4, <3>3
    <3>6. CASE rsp_continue(gdb.cmd)
      <4>1. gdb.cmd.op = "c" /\ SameTable(hart', hart)
        BY <1>2, <3>6 DEF rsp_continue, rv32_resume, SameTable, Hart
      <4>2. Agree' /\ DistinctSlots(hart')
        BY <1>1, <1>2, <4>1, SameTableKeeps DEF Agree
      <4>3. Resumed(n + 1)'
        BY <1>3, <1>5, <3>3, <3>4, <4>2 DEF Resumed
      <4>4. Acked(n + 1)'
        BY <1>1, <3>1, <3>3, <3>5, <4>1, <4>3 DEF Acked
      <4>5. 1 \in DOMAIN s /\ \A i \in DOMAIN s : ~(i > 1)
        BY <3>1
      <4>6. View'
        BY <1>6, <3>1, <3>2, <4>4, <4>5
      <4> QED
        BY <4>2, <4>6
    <3>7. CASE rsp_kill(gdb.cmd)
      <4>1. gdb.cmd.op = "k" /\ DistinctSlots(hart') /\ hart'.status # "RUNNING"
        BY <3>7 DEF rsp_kill, rv32_reset, NewHart, DistinctSlots
      <4>2. Stopped(n + 1)'
        BY <1>3, <1>5, <3>3, <3>4, <4>1 DEF Stopped, PacketsAfter
      <4>3. Acked(n + 1)'
        BY <1>1, <3>1, <3>3, <3>5, <4>1, <4>2 DEF Acked
      <4>4. 1 \in DOMAIN s /\ \A i \in DOMAIN s : ~(i > 1)
        BY <3>1
      <4>5. View'
        BY <1>6, <3>1, <3>2, <4>3, <4>4
      <4> QED
        BY <4>1, <4>5
    <3> QED
      BY <2>1, <2>2, <3>6, <3>7 DEF PacketUnanswered
  <2>3. CASE PacketAnswered(c)
    <3>1. PICK text \in Text :
            /\ Answers(gdb.cmd, text)
            /\ toGdb' = toGdb \o <<Ack("+"), Reply(gdb.cmd.op, text)>>
      BY <2>1, <2>3 DEF PacketAnswered
    <3>2. /\ gdb.cmd.op \notin {"c", "k"}
          /\ DistinctSlots(hart')
          /\ gdb.cmd.op # "D" => hart'.status # "RUNNING" /\ Armed(hart') = Believed(text)
      BY <1>1, <1>2, <2>1, <3>1, AnswerTells DEF Stopped
    <3> DEFINE s == <<Ack("+"), Reply(gdb.cmd.op, text)>>
    <3>3. gdb.cmd.op \in Op
      BY <2>1 DEF Command
    <3>4. s \in Seq(Output) /\ DOMAIN s = {1, 2} /\ Len(s) = 2
          /\ s[1].k = "+" /\ s[2].k = "packet" /\ s[2].answers = gdb.cmd.op /\ s[2].text = text
      <4>1. text \in Text
        BY <3>1
      <4>2. Ack("+") \in Output /\ Reply(gdb.cmd.op, text) \in Output
        BY <3>3, <4>1, AckType, ReplyType
      <4>3. s \in Seq(Output) /\ DOMAIN s = {1, 2} /\ Len(s) = 2
            /\ s[1] = Ack("+") /\ s[2] = Reply(gdb.cmd.op, text)
        BY <4>2
      <4>4. /\ Ack("+").k = "+" /\ Reply(gdb.cmd.op, text).k = "packet"
            /\ Reply(gdb.cmd.op, text).answers = gdb.cmd.op /\ Reply(gdb.cmd.op, text).text = text
        BY DEF Ack, Reply
      <4> HIDE DEF s
      <4> QED
        BY <4>3, <4>4
    <3>5. toGdb' = toGdb \o s
      BY <3>1
    <3> HIDE DEF s
    <3>6. /\ DOMAIN toGdb' = 1 .. n + 2
          /\ \A i \in DOMAIN toGdb : toGdb'[i] = toGdb[i]
          /\ toGdb'[n + 1] = s[1] /\ toGdb'[n + 2] = s[2]
      BY <1>2, <3>4, <3>5, <1>5, MessagesAdded
    <3>7. \A i \in 1 .. n + 1 - 1 : toGdb'[i].k = "packet"
      BY <1>3, <1>5, <1>4, <3>6
    <3>8. hart'.status # "RUNNING" => Stopped(n + 2)'
      BY <1>3, <1>5, <3>6 DEF Stopped, PacketsAfter
    <3>9. Believed(text) = Believed(toGdb[n + 2].text)'
      BY <1>1, <3>4, <3>6 DEF Believed
    <3>10. Answered(n + 2)'
      BY <1>1, <1>3, <1>5, <3>2, <3>4, <3>6, <3>8, <3>9 DEF Answered
    <3>11. n + 1 + 1 = n + 2
      BY <1>3, <1>5
    <3>12. Acked(n + 1)'
      BY <1>1, <3>2, <3>4, <3>6, <3>7, <3>10, <3>11 DEF Acked
    <3>13. 1 \in DOMAIN s /\ \A i \in DOMAIN s : i > 1 => s[i].k \notin {"+", "-"}
      BY <3>4
    <3> QED
      BY <1>6, <3>2, <3>4, <3>5, <3>12, <3>13
  <2>4. CASE PacketFatal(c)
    <3> DEFINE s == <<Ack("+")>>
    <3>1. s \in Seq(Output) /\ DOMAIN s = {1} /\ s[1].k = "+"
      BY OneMessage, AckType DEF Ack
    <3>2. toGdb' = toGdb \o s
      BY <1>2, <2>4, AckType, AppendIsConcat DEF PacketFatal, SessionType
    <3> HIDE DEF s
    <3>3. /\ DOMAIN s = 1 .. Len(s) /\ Len(s) \in Nat
          /\ DOMAIN toGdb' = 1 .. n + Len(s)
          /\ \A i \in DOMAIN toGdb : toGdb'[i] = toGdb[i]
          /\ toGdb'[n + 1] = s[1]
      BY <1>2, <3>1, <3>2, <1>5, MessagesAdded
    <3>4. Len(s) = 1
      BY <3>1, <3>3
    <3>5. \A i \in 1 .. n + 1 - 1 : toGdb'[i].k = "packet"
      BY <1>3, <1>5, <1>4, <3>3
    <3>6. /\ hart' = hart /\ gdb.cmd.op \notin {"c", "k"}
          /\ rsp' = [rsp EXCEPT !.fatal = Refusal(gdb.cmd)] /\ Refusal(gdb.cmd) # "none"
      BY <2>1, <2>4 DEF PacketFatal, Die, Refusal, hartVars
    <3>7. rsp'.fatal # "none"
      BY <1>2, <3>6 DEF SessionType, Rsp
    <3>8. Refused(n + 1)'
      BY <1>1, <1>3, <1>5, <3>3, <3>4, <3>6, <3>7 DEF Refused, Stopped
    <3>9. Acked(n + 1)'
      BY <1>1, <3>1, <3>3, <3>5, <3>6, <3>8 DEF Acked
    <3>10. 1 \in DOMAIN s /\ \A i \in DOMAIN s : ~(i > 1)
      BY <3>1
    <3>11. View'
      BY <1>6, <3>1, <3>2, <3>9, <3>10
    <3> QED
      BY <1>2, <3>6, <3>11
  <2> QED
    BY <1>8, <2>2, <2>3, <2>4
<1> QED
  BY <1>2, <1>7, <1>8 DEF PacketRejected, hartVars

-----------------------------------------------------------------------------
(* Every step keeps the invariant *)

LEMMA PollStep ==
  ASSUME SafetyInv, SessionType', Polled PROVE SafetyInv'
<1> DEFINE c == Stream[1]
<1>1. /\ SessionType /\ gdb' = gdb /\ Stream # <<>> /\ Stream' = Tail(Stream)
      /\ OneOpen /\ Belongs /\ View /\ PendingInv /\ DistinctSlots(hart) /\ rsp_handle_byte(c)
      /\ rsp \in Rsp /\ rsp.fatal = "none"
  BY DEF SafetyInv, Polled, SessionType
<1>2. c \in Byte
  BY <1>1, StreamTaken
<1> HIDE DEF c
<1>3. c = Stream[1]
  BY DEF c
<1>4. ASSUME InPacket' => InPacket \/ c.b = "$"
      PROVE  /\ OneOpen' /\ Belongs' /\ (Pending' => Pending)
             /\ InPacket => \A i \in DOMAIN Stream' : ~Opens(i)'
  BY <1>1, <1>3, <1>4, StreamTakenKeeps DEF Opens
\* The bytes that make no difference to gdb.
<1>5. CASE StartPacket(c) \/ Ignore(c) \/ EndOfData(c) \/ Collect(c) \/ Checksum1(c)
             \/ BadDigit(c) \/ Acknowledged(c) \/ NotAcknowledged(c)
  <2>1. hart' = hart /\ toGdb' = toGdb
    BY <1>5 DEF StartPacket, Ignore, EndOfData, Collect, Checksum1, BadDigit, Acknowledged,
                NotAcknowledged
  <2>2. InPacket' => InPacket \/ c.b = "$"
    BY <1>1, <1>5 DEF StartPacket, Ignore, EndOfData, Collect, Checksum1, BadDigit, Acknowledged,
                      NotAcknowledged, InPacket, Die, Rsp
  <2>3. View' /\ (NoAck => NoAck')
    BY <1>1, <2>1, NothingReported
  <2> QED
    BY <1>1, <1>4, <2>1, <2>2, <2>3 DEF SafetyInv, PendingInv
<1>6. CASE Interrupt(c)
  <2>1. ~InPacket'
    BY <1>1, <1>6 DEF Interrupt, InPacket, Rsp
  <2>2. View' /\ (NoAck => NoAck') /\ SameTable(hart', hart)
    BY <1>1, <1>6, InterruptReports
  <2>3. DistinctSlots(hart')
    BY <1>1, <2>2, SameTableKeeps
  <2> QED
    BY <1>1, <1>4, <2>1, <2>2, <2>3 DEF SafetyInv, PendingInv
<1>7. CASE PacketAnswered(c) \/ PacketUnanswered(c) \/ PacketFatal(c) \/ PacketRejected(c)
  <2>1. InPacket /\ ~InPacket'
    <3>1. CASE PacketAnswered(c) \/ PacketUnanswered(c) \/ PacketRejected(c)
      BY <1>1, <3>1 DEF PacketAnswered, PacketUnanswered, PacketFatal, PacketRejected, InPacket, Rsp
    <3>2. CASE PacketFatal(c)
      BY <1>1, <3>2 DEF PacketFatal, Die, InPacket, Rsp
    <3> QED
      BY <1>7, <3>1, <3>2
  <2>2. View' /\ DistinctSlots(hart')
    BY <1>3, <1>7, <2>1, VerdictKeeps
  <2>3. OneOpen' /\ Belongs' /\ ~Pending'
    BY <1>4, <2>1 DEF Pending
  <2> QED
    BY <1>1, <2>2, <2>3 DEF SafetyInv, PendingInv
<1> QED
  BY <1>1, <1>5, <1>6, <1>7 DEF rsp_handle_byte

\* gdb sends: a command that it has not sent before, or has sent in vain.
LEMMA CommandStep ==
  ASSUME SafetyInv, SessionType', SendCommand PROVE SafetyInv'
<1>1. PICK cmd \in Commands :
        /\ Sensible(cmd)
        /\ gdb' = [gdb EXCEPT !.phase = "waitAck", !.cmd = cmd, !.intr = FALSE]
        /\ toStub' = toStub \o Packet(cmd)
  BY DEF SendCommand
<1>2. /\ SessionType /\ View /\ PendingInv /\ DistinctSlots(hart) /\ gdb \in Gdb
      /\ gdb.phase = "idle" /\ UNCHANGED <<hart, rsp, toGdb, stdin>>
  BY DEF SafetyInv, SessionType, SendCommand
<1>3. gdb'.phase = "waitAck" /\ gdb'.cmd = cmd /\ gdb'.bps = gdb.bps /\ cmd \in Command
  BY <1>1, <1>2, SessionAssumption DEF Gdb
<1>4. ~Pending /\ Stopped(0) /\ Agree
  BY <1>2 DEF PendingInv, View
<1>5. OneOpen' /\ Belongs'
  BY <1>1, <1>2, <1>3, <1>4, PacketSentKeeps
<1>6. NoAck
  BY <1>2, <1>4, QueueType DEF NoAck, Stopped, PacketsAfter
<1>7. NoAck' /\ Stopped(0)' /\ Agree' /\ Sensible(gdb.cmd)'
  BY <1>1, <1>2, <1>3, <1>4, <1>6 DEF NoAck, Stopped, PacketsAfter, Agree, Sensible
<1>8. View'
  BY <1>3, <1>7 DEF View, NoAck
<1> QED
  BY <1>2, <1>3, <1>5, <1>7, <1>8 DEF SafetyInv, PendingInv

LEMMA ResendStep ==
  ASSUME SafetyInv, SessionType', Timeout PROVE SafetyInv'
<1>1. /\ SessionType /\ View /\ DistinctSlots(hart)
      /\ gdb.phase = "waitAck" /\ UNCHANGED <<hart, rsp, toGdb, stdin, gdb>>
      /\ toStub' = toStub \o Packet(gdb.cmd) /\ toGdb = <<>>
      /\ stdin = <<>> /\ toStub = <<>>
  BY DEF SafetyInv, Timeout
<1>2. Stream = <<>>
  BY <1>1, ConcatEmptySeq DEF SessionType, Stream
<1>3. OneOpen' /\ Belongs'
  BY <1>1, <1>2, CmdType, PacketSentKeeps
<1>4. NoAck'
  BY <1>1, EmptySeq DEF NoAck
<1>5. View'
  BY <1>1, NothingReported
<1> QED
  BY <1>1, <1>3, <1>4, <1>5 DEF SafetyInv, PendingInv

LEMMA InterruptStep ==
  ASSUME SafetyInv, SessionType', SendInterrupt PROVE SafetyInv'
<1>1. /\ SessionType /\ OneOpen /\ Belongs /\ View /\ PendingInv /\ DistinctSlots(hart)
      /\ gdb \in Gdb /\ UNCHANGED <<hart, rsp, toGdb, stdin>>
      /\ gdb.phase = "running" /\ gdb' = [gdb EXCEPT !.intr = TRUE]
      /\ toStub' = Append(toStub, Plain("intr"))
  BY DEF SafetyInv, SessionType, SendInterrupt
<1>2. gdb'.phase = gdb.phase /\ gdb'.cmd = gdb.cmd /\ gdb'.bps = gdb.bps
  BY <1>1 DEF Gdb
<1>3. OneOpen' /\ Belongs' /\ (Pending' => Pending)
  BY <1>1, <1>2, PlainSentKeeps
<1>4. View' /\ (NoAck => NoAck')
  BY <1>1, <1>2, NothingReported
<1> QED
  BY <1>1, <1>2, <1>3, <1>4 DEF SafetyInv, PendingInv

LEMMA FaultStep ==
  ASSUME SafetyInv, SessionType', LinkFault PROVE SafetyInv'
<1>1. /\ SessionType /\ OneOpen /\ Belongs /\ View /\ PendingInv /\ DistinctSlots(hart)
      /\ UNCHANGED <<hart, rsp, toGdb, gdb>>
  BY DEF SafetyInv, LinkFault
<1>2. OneOpen' /\ Belongs' /\ (Pending' => Pending)
  BY <1>1, FaultKeeps
<1>3. View' /\ (NoAck => NoAck')
  BY <1>1, NothingReported
<1> QED
  BY <1>1, <1>2, <1>3 DEF SafetyInv, PendingInv

LEMMA CycleStep ==
  ASSUME SafetyInv, SessionType', RunCycle PROVE SafetyInv'
<1>1. /\ SessionType /\ OneOpen /\ Belongs /\ View /\ PendingInv /\ DistinctSlots(hart)
      /\ UNCHANGED <<rsp, toStub, stdin, gdb>>
  BY DEF SafetyInv, RunCycle
<1>2. Stream' = Stream
  BY <1>1 DEF Stream
<1>3. OneOpen' /\ Belongs' /\ (Pending' => Pending)
  BY <1>1, <1>2 DEF OneOpen, Belongs, Pending, Opens, InPacket
<1>4. View' /\ (NoAck => NoAck') /\ SameTable(hart', hart)
  BY <1>1, CycleReports
<1>5. DistinctSlots(hart')
  BY <1>1, <1>4, SameTableKeeps
<1> QED
  BY <1>1, <1>3, <1>4, <1>5 DEF SafetyInv, PendingInv

LEMMA IdleStep ==
  ASSUME SafetyInv, SessionType', UNCHANGED <<hart, rsp, toStub, toGdb, stdin, gdb>>
  PROVE  SafetyInv'
<1>1. /\ SessionType /\ OneOpen /\ Belongs /\ View /\ PendingInv /\ DistinctSlots(hart)
  BY DEF SafetyInv
<1>2. Stream' = Stream
  BY DEF Stream
<1>3. OneOpen' /\ Belongs' /\ (Pending' => Pending)
  BY <1>1, <1>2 DEF OneOpen, Belongs, Pending, Opens, InPacket
<1>4. View' /\ (NoAck => NoAck')
  BY <1>1, NothingReported
<1> QED
  BY <1>1, <1>3, <1>4 DEF SafetyInv, PendingInv

-----------------------------------------------------------------------------
(* gdb reads *)

LEMMA ReadAckStep ==
  ASSUME SafetyInv, SessionType', ReadAck PROVE SafetyInv'
<1>1. /\ SessionType /\ OneOpen /\ Belongs /\ View /\ PendingInv /\ DistinctSlots(hart)
      /\ gdb \in Gdb /\ UNCHANGED <<hart, rsp, toStub, stdin>>
      /\ toGdb # <<>> /\ toGdb' = Tail(toGdb)
      /\ gdb' = [gdb EXCEPT !.phase = IF @ = "waitAck" THEN AfterAck ELSE @]
      /\ gdb.phase \in {"waitAck", "waitReply", "running"}
  BY DEF SafetyInv, SessionType, ReadAck, Reading
<1>2. 1 \in DOMAIN toGdb /\ toGdb[1].k = "+"
  BY <1>1, MessageRead DEF ReadAck
<1>3. gdb.phase = "waitAck"
  <2>1. gdb.phase # "waitReply"
    BY <1>1, <1>2, QueueType DEF View, Answered, Refused
  <2>2. gdb.phase # "running"
    BY <1>1, <1>2 DEF View, Resumed
  <2> QED
    BY <1>1, <2>1, <2>2
<1>4. gdb'.phase = AfterAck /\ gdb'.cmd = gdb.cmd /\ gdb'.bps = gdb.bps
  BY <1>1, <1>3 DEF Gdb
<1>5. Acked(1) /\ ~NoAck
  BY <1>1, <1>2, <1>3 DEF View, NoAck
<1>6. ~Pending /\ Stream' = Stream
  BY <1>1, <1>5 DEF PendingInv, Stream
<1>7. OneOpen' /\ Belongs' /\ ~Pending'
  BY <1>1, <1>4, <1>6 DEF OneOpen, Belongs, Pending, Opens, InPacket
<1>8. View'
  <2>1. CASE gdb.cmd.op = "c"
    <3>1. Resumed(0)'
      BY <1>1, <1>2, <1>4, <1>5, <2>1, ReadKeeps DEF Acked
    <3> QED
      BY <1>4, <2>1, <3>1 DEF AfterAck, View
  <2>2. CASE gdb.cmd.op = "k"
    BY <1>4, <2>2 DEF AfterAck, View
  <2>3. CASE gdb.cmd.op \notin {"c", "k"}
    <3>1. Answered(1)' \/ Refused(0)'
      <4>1. Answered(1 + 1) \/ Refused(0 + 1)
        BY <1>2, <1>5, <2>3 DEF Acked
      <4> QED
        BY <1>1, <1>4, <4>1, ReadKeeps
    <3> QED
      BY <1>4, <2>3, <3>1 DEF AfterAck, View
  <2> QED
    BY <2>1, <2>2, <2>3
<1> QED
  BY <1>1, <1>7, <1>8 DEF SafetyInv, PendingInv

LEMMA ReadNakStep ==
  ASSUME SafetyInv, SessionType', ReadNak PROVE SafetyInv'
<1>1. /\ SessionType /\ OneOpen /\ Belongs /\ View /\ PendingInv /\ DistinctSlots(hart)
      /\ UNCHANGED <<hart, rsp, stdin, gdb>>
      /\ toGdb # <<>> /\ toGdb' = Tail(toGdb)
      /\ toStub' = toStub \/ toStub' = toStub \o Packet(gdb.cmd)
      /\ gdb.phase \in {"waitAck", "waitReply", "running"}
  BY DEF SafetyInv, ReadNak, Reading
<1>2. 1 \in DOMAIN toGdb /\ toGdb[1].k = "-"
  BY <1>1, MessageRead DEF ReadNak
<1>3. gdb.phase = "waitAck"
  <2>1. gdb.phase # "waitReply"
    BY <1>1, <1>2, QueueType DEF View, Answered, Refused
  <2>2. gdb.phase # "running"
    BY <1>1, <1>2 DEF View, Resumed
  <2> QED
    BY <1>1, <2>1, <2>2
<1>4. Acked(1) /\ ~NoAck /\ ~Pending
  BY <1>1, <1>2, <1>3 DEF View, NoAck, PendingInv
<1>5. OneOpen' /\ Belongs'
  <2>1. CASE toStub' = toStub
    BY <1>1, <2>1 DEF OneOpen, Belongs, Opens, InPacket, Stream
  <2>2. CASE toStub' = toStub \o Packet(gdb.cmd)
    BY <1>1, <1>4, <2>2, CmdType, PacketSentKeeps
  <2> QED
    BY <1>1, <2>1, <2>2
<1>6. Stopped(0)' /\ Agree' /\ Sensible(gdb.cmd)'
  <2>1. Stopped(1) /\ Agree /\ Sensible(gdb.cmd)
    BY <1>2, <1>4 DEF Acked
  <2> QED
    BY <1>1, <2>1, ReadKeeps DEF Agree, Sensible
<1>7. NoAck'
  BY <1>6, QueueType DEF Stopped, PacketsAfter, NoAck, SessionType
<1>8. View'
  BY <1>1, <1>3, <1>6, <1>7 DEF View, NoAck
<1> QED
  BY <1>1, <1>3, <1>5, <1>7, <1>8 DEF SafetyInv, PendingInv

\* A packet read where an ack is awaited leaves the wait as it is.
LEMMA ReadWaiting ==
  ASSUME SessionType, SessionType', View, gdb.phase = "waitAck", gdb' = gdb, hart' = hart,
         rsp' = rsp, toGdb # <<>>, toGdb' = Tail(toGdb), toGdb[1].k = "packet"
  PROVE  View' /\ (NoAck => NoAck')
<1>1. /\ DOMAIN toGdb' = 1 .. Len(toGdb) - 1 /\ Len(toGdb) \in Nat
      /\ \A i \in DOMAIN toGdb' : i + 1 \in DOMAIN toGdb /\ toGdb'[i] = toGdb[i + 1]
      /\ \A i \in DOMAIN toGdb : i > 1 => i - 1 \in DOMAIN toGdb' /\ toGdb'[i - 1] = toGdb[i]
      /\ \A i \in DOMAIN toGdb : i \in Nat /\ i >= 1
  BY MessageRead, QueueType
<1>2. NoAck <=> NoAck'
  <2>1. ASSUME NoAck PROVE NoAck'
    BY <1>1, <2>1 DEF NoAck
  <2>2. ASSUME NoAck', NEW i \in DOMAIN toGdb PROVE toGdb[i].k \notin {"+", "-"}
    <3>1. CASE i = 1
      BY <3>1
    <3>2. CASE i # 1
      <4>1. i > 1
        BY <1>1, <3>2
      <4> QED
        BY <1>1, <2>2, <4>1 DEF NoAck
    <3> QED
      BY <3>1, <3>2
  <2> QED
    BY <2>1, <2>2 DEF NoAck
<1>3. ASSUME NoAck PROVE Stopped(0)' /\ Agree' /\ Sensible(gdb.cmd)'
  <2>1. Stopped(0) /\ Agree /\ Sensible(gdb.cmd)
    BY <1>3 DEF View
  <2>2. Stopped(0 + 1)
    BY <1>1, <2>1 DEF Stopped, PacketsAfter
  <2> QED
    BY <2>1, <2>2, ReadKeeps DEF Agree, Sensible
<1>4. ASSUME NEW k \in DOMAIN toGdb', toGdb'[k].k \in {"+", "-"} PROVE Acked(k)'
  <2>1. k \in Nat /\ k >= 1 /\ k + 1 \in Nat /\ k + 1 + 1 = k + 2
        /\ k + 1 \in DOMAIN toGdb /\ toGdb'[k] = toGdb[k + 1]
    BY <1>1
  <2>2. Acked(k + 1)
    BY <1>4, <2>1 DEF View
  <2>3. \A i \in 1 .. k - 1 : toGdb'[i].k = "packet"
    <3>1. ASSUME NEW i \in 1 .. k - 1 PROVE toGdb'[i].k = "packet"
      <4>1. i \in DOMAIN toGdb' /\ i + 1 \in 1 .. k + 1 - 1
        BY <1>1, <2>1
      <4>2. toGdb[i + 1].k = "packet"
        BY <2>2, <4>1 DEF Acked
      <4> QED
        BY <1>1, <4>1, <4>2
    <3> QED
      BY <3>1
  <2>4. toGdb'[k].k = "-" => Stopped(k)' /\ Agree' /\ Sensible(gdb.cmd)'
    BY <2>1, <2>2, ReadKeeps DEF Acked, Agree, Sensible
  <2>5. toGdb'[k].k = "+" /\ gdb'.cmd.op = "c" => Resumed(k)'
    BY <2>1, <2>2, ReadKeeps DEF Acked
  <2>6. toGdb'[k].k = "+" /\ gdb'.cmd.op \notin {"c", "k"} => Answered(k + 1)' \/ Refused(k)'
    BY <2>1, <2>2, ReadKeeps DEF Acked
  <2>7. toGdb'[k].k = "+" /\ gdb'.cmd.op = "k" => Stopped(k)'
    BY <2>1, <2>2, ReadKeeps DEF Acked
  <2> QED
    BY <2>3, <2>4, <2>5, <2>6, <2>7 DEF Acked
<1> QED
  BY <1>2, <1>3, <1>4 DEF View

LEMMA ReadPacketStep ==
  ASSUME SafetyInv, SessionType', ReadPacket PROVE SafetyInv'
<1>1. /\ SessionType /\ OneOpen /\ Belongs /\ View /\ PendingInv /\ DistinctSlots(hart)
      /\ gdb \in Gdb /\ UNCHANGED <<hart, rsp, stdin>>
      /\ toGdb # <<>> /\ toGdb' = Tail(toGdb)
      /\ toStub' = Append(toStub, Plain("+"))
      /\ gdb.phase \in {"waitAck", "waitReply", "running"}
  BY DEF SafetyInv, SessionType, ReadPacket, Reading
<1>2. 1 \in DOMAIN toGdb /\ toGdb[1].k = "packet" /\ Head(toGdb) = toGdb[1]
  BY <1>1, MessageRead DEF ReadPacket
<1>3. gdb'.cmd = gdb.cmd
  BY <1>1 DEF ReadPacket, Gdb
<1>4. OneOpen' /\ Belongs' /\ (Pending' => Pending)
  BY <1>1, <1>3, PlainSentKeeps
<1>5. CASE gdb.phase = "waitAck"
  <2>1. gdb' = gdb
    BY <1>5 DEF ReadPacket
  <2>2. View' /\ (NoAck => NoAck')
    BY <1>1, <1>2, <1>5, <2>1, ReadWaiting
  <2> QED
    BY <1>1, <1>4, <2>1, <2>2 DEF SafetyInv, PendingInv
<1>6. CASE gdb.phase # "waitAck"
  <2>1. ~Pending
    BY <1>1, <1>6 DEF PendingInv
  <2>2. View'
    <3>1. CASE gdb.phase = "waitReply"
      <4>1. gdb' = [gdb EXCEPT !.phase = IF gdb.cmd.op = "D" THEN "gone" ELSE "idle",
                               !.bps = Believed(toGdb[1].text)]
        BY <1>2, <3>1 DEF ReadPacket
      <4>2. /\ gdb'.phase = IF gdb.cmd.op = "D" THEN "gone" ELSE "idle"
            /\ gdb'.bps = Believed(toGdb[1].text)
        BY <1>1, <4>1 DEF Gdb
      <4>3. CASE gdb.cmd.op = "D"
        BY <4>2, <4>3 DEF View
      <4>4. CASE gdb.cmd.op # "D"
        <5>1. Stopped(1) /\ Armed(hart) = Believed(toGdb[1].text)
          <6>1. ~Refused(0)
            BY <1>1, <1>2, QueueType DEF Refused
          <6> QED
            BY <1>1, <3>1, <4>4, <6>1 DEF View, Answered
        <5>2. Stopped(0)' /\ Agree'
          BY <1>1, <4>2, <5>1, ReadKeeps DEF Agree
        <5> QED
          BY <4>2, <4>4, <5>2 DEF View
      <4> QED
        BY <4>3, <4>4
    <3>2. CASE gdb.phase = "running"
      <4>1. gdb.cmd.op = "c" /\ Resumed(0) /\ Agree /\ Stopped(1)
        BY <1>1, <1>2, <3>2 DEF View, Resumed
      <4>2. CASE toGdb[1].text \in Signal
        <5>1. gdb' = [gdb EXCEPT !.phase = "idle"]
          BY <1>2, <3>2, <4>2 DEF ReadPacket
        <5>2. gdb'.phase = "idle" /\ gdb'.bps = gdb.bps
          BY <1>1, <5>1 DEF Gdb
        <5>3. Stopped(0)' /\ Agree'
          BY <1>1, <4>1, <5>2, ReadKeeps DEF Agree
        <5> QED
          BY <5>2, <5>3 DEF View
      <4>3. CASE toGdb[1].text \notin Signal
        <5>1. gdb' = gdb
          BY <1>2, <3>2, <4>3 DEF ReadPacket
        <5>2. Resumed(0 + 1)
          BY <1>1, <4>1, QueueType DEF Resumed
        <5>3. Resumed(0)'
          BY <1>1, <5>1, <5>2, ReadKeeps
        <5> QED
          BY <3>2, <4>1, <5>1, <5>3 DEF View
      <4> QED
        BY <4>2, <4>3
    <3> QED
      BY <1>1, <1>6, <3>1, <3>2
  <2> QED
    BY <1>1, <1>4, <2>1, <2>2 DEF SafetyInv, PendingInv
<1> QED
  BY <1>5, <1>6

LEMMA ReadConsoleStep ==
  ASSUME SafetyInv, SessionType', ReadConsole PROVE SafetyInv'
<1>1. /\ SessionType /\ OneOpen /\ Belongs /\ View /\ PendingInv /\ DistinctSlots(hart)
      /\ UNCHANGED <<hart, rsp, toStub, stdin, gdb>>
      /\ toGdb # <<>> /\ toGdb' = Tail(toGdb)
      /\ gdb.phase \in {"waitAck", "waitReply", "running"}
  BY DEF SafetyInv, ReadConsole, Reading
<1>2. 1 \in DOMAIN toGdb /\ toGdb[1].k = "console"
  BY <1>1, MessageRead DEF ReadConsole
<1>3. gdb.phase = "running"
  <2>1. gdb.phase # "waitReply"
    BY <1>1, <1>2, QueueType DEF View, Answered, Refused
  <2>2. ASSUME gdb.phase = "waitAck" PROVE FALSE
    <3>1. ~NoAck
      BY <1>1, <1>2, <2>2 DEF View, Stopped, PacketsAfter
    <3>2. PICK k \in DOMAIN toGdb : toGdb[k].k \in {"+", "-"}
      BY <3>1 DEF NoAck
    <3>3. Acked(k) /\ k \in Nat /\ k >= 1
      BY <1>1, <2>2, <3>2, QueueType DEF View
    <3>4. k # 1
      BY <1>2, <3>2
    <3>5. 1 \in 1 .. k - 1
      BY <3>3, <3>4
    <3> QED
      BY <1>2, <3>3, <3>5 DEF Acked
  <2> QED
    BY <1>1, <2>1, <2>2
<1>4. OneOpen' /\ Belongs' /\ ~Pending'
  <2>1. ~Pending /\ Stream' = Stream
    BY <1>1, <1>3 DEF PendingInv, Stream
  <2> QED
    BY <1>1, <2>1 DEF OneOpen, Belongs, Pending, Opens, InPacket
<1>5. gdb.cmd.op = "c" /\ Resumed(0)
  BY <1>1, <1>3 DEF View
<1>6. Resumed(0 + 1)
  BY <1>1, <1>5, QueueType DEF Resumed
<1>7. Resumed(0)'
  BY <1>1, <1>6, ReadKeeps
<1>8. View'
  BY <1>1, <1>3, <1>5, <1>7 DEF View
<1> QED
  BY <1>1, <1>4, <1>8 DEF SafetyInv, PendingInv

LEMMA SafetyStep == ASSUME SafetyInv, [Next]_sessionVars PROVE SafetyInv'
<1>1. SessionType /\ SessionType'
  BY TypeStep DEF SafetyInv
<1>2. CASE UNCHANGED sessionVars
  BY <1>1, <1>2, IdleStep DEF sessionVars
<1>3. CASE PollBuffered \/ PollByte \/ PollSerial
  BY <1>1, <1>3, StubPolls, PollStep
<1>4. CASE PollNothing \/ PollEof \/ RunNothing
  BY <1>1, <1>4, IdleStep DEF PollNothing, PollEof, RunNothing
<1>5. CASE RunCycle
  BY <1>1, <1>5, CycleStep
<1>6. CASE SendCommand
  BY <1>1, <1>6, CommandStep
<1>7. CASE SendInterrupt
  BY <1>1, <1>7, InterruptStep
<1>8. CASE Timeout
  BY <1>1, <1>8, ResendStep
<1>9. CASE LinkFault
  BY <1>1, <1>9, FaultStep
<1>10. CASE ReadAck
  BY <1>1, <1>10, ReadAckStep
<1>11. CASE ReadNak
  BY <1>1, <1>11, ReadNakStep
<1>12. CASE ReadPacket
  BY <1>1, <1>12, ReadPacketStep
<1>13. CASE ReadConsole
  BY <1>1, <1>13, ReadConsoleStep
<1> QED
  BY <1>2, <1>3, <1>4, <1>5, <1>6, <1>7, <1>8, <1>9, <1>10, <1>11, <1>12, <1>13
  DEF Next, Stub, GdbReads

-----------------------------------------------------------------------------
(* What the invariant says *)

LEMMA SafetyInit == Init => SafetyInv
<1> SUFFICES ASSUME Init PROVE SafetyInv
  OBVIOUS
<1>1. /\ hart = NewHart /\ rsp = NewRsp /\ toStub = <<>> /\ stdin = <<>> /\ toGdb = <<>>
      /\ gdb = [phase |-> "idle", cmd |-> NoCommand, bps |-> {}, intr |-> FALSE]
  BY DEF Init
<1>2. <<>> \in Seq(Byte) /\ <<>> \in Seq(Output) /\ <<>> \in Seq(Command \cup {NoCommand})
      /\ Len(<<>>) = 0 /\ DOMAIN <<>> = {}
  BY EmptySeq
<1>3. SessionType
  <2>1. WellTyped
    BY NewHartType, GuestAssumption DEF Init, WellTyped
  <2>2. rsp \in Rsp /\ Len(rsp.data) <= BufferSize
    BY <1>1, <1>2, BufferAssumption DEF NewRsp, Rsp, RspState
  <2>3. gdb \in Gdb
    BY <1>1 DEF Gdb, Phase
  <2>4. budget \in Budget /\ loop = "poll"
    BY SessionAssumption DEF Init, Budget
  <2> QED
    BY <1>1, <1>2, <2>1, <2>2, <2>3, <2>4 DEF SessionType
<1>4. Stream = <<>>
  BY <1>1, <1>2, ConcatEmptySeq DEF Stream
<1>5. ~InPacket /\ DOMAIN Stream = {}
  BY <1>1, <1>2, <1>4 DEF InPacket, NewRsp
<1>6. PendingInv /\ OneOpen /\ Belongs
  BY <1>5 DEF PendingInv, Pending, OneOpen, Belongs
<1>7. View
  BY <1>1, <1>2 DEF View, Stopped, PacketsAfter, Agree, NewHart, Armed
<1>8. DistinctSlots(hart)
  BY <1>1 DEF DistinctSlots, NewHart
<1> QED
  BY <1>3, <1>6, <1>7, <1>8 DEF SafetyInv

\* The invariant holds in every behaviour, whatever the link loses or garbles.
THEOREM SafetyAlways == Spec => []SafetyInv
<1>1. Init => SafetyInv
  BY SafetyInit
<1>2. SafetyInv /\ [Next]_sessionVars => SafetyInv'
  BY SafetyStep
<1> QED
  BY <1>1, <1>2, PTL DEF Spec

\* Types: the stub's buffer never holds more than RSP_BUFFER_SIZE tokens.
THEOREM SessionTypeCorrect == Spec => []TypeOK
<1>1. SafetyInv => TypeOK
  <2> SUFFICES ASSUME SafetyInv PROVE TypeOK
    OBVIOUS
  <2>1. SessionType
    BY DEF SafetyInv
  <2>2. /\ \A i \in DOMAIN toStub : toStub[i] \in Byte
        /\ \A i \in DOMAIN stdin : stdin[i] \in Byte
        /\ \A i \in DOMAIN toGdb : toGdb[i] \in Output
    BY <2>1, LenProperties DEF SessionType
  <2>3. rsp.state \in RspState /\ rsp.digit \in Command \cup {NoCommand} /\ rsp.fatal \in Fatal \cup {"none"}
    BY <2>1 DEF SessionType, Rsp
  <2> QED
    BY <2>1, <2>2, <2>3 DEF SessionType, WellTyped, TypeOK
<1> QED
  BY <1>1, SafetyAlways, PTL

\* When gdb shows a stopped target the hart is stopped: rsp_handle_byte resumes
\* it for no other command than c and D, and for these not before gdb expects it.
THEOREM StoppedTarget == Spec => []StoppedWhenBelieved
<1>1. SafetyInv => StoppedWhenBelieved
  <2> SUFFICES ASSUME SafetyInv, BelievesStopped PROVE hart.status # "RUNNING"
    BY DEF StoppedWhenBelieved
  <2>1. View /\ SessionType
    BY DEF SafetyInv
  <2>2. CASE gdb.phase = "idle"
    BY <2>1, <2>2 DEF View, Stopped
  <2>3. CASE gdb.phase = "waitReply" /\ gdb.cmd.op \notin {"c", "D"}
    BY <2>1, <2>3 DEF View, Answered, Refused, Stopped
  <2>4. CASE gdb.phase = "waitAck" /\ gdb.cmd.op \notin {"c", "D"}
    <3>1. CASE NoAck
      BY <2>1, <2>4, <3>1 DEF View, Stopped
    <3>2. CASE ~NoAck
      <4>1. PICK k \in DOMAIN toGdb : toGdb[k].k \in {"+", "-"}
        BY <3>2 DEF NoAck
      <4>2. Acked(k)
        BY <2>1, <2>4, <4>1 DEF View
      <4> QED
        BY <2>4, <4>1, <4>2 DEF Acked, Answered, Refused, Stopped
    <3> QED
      BY <3>1, <3>2
  <2> QED
    BY <2>2, <2>3, <2>4 DEF BelievesStopped
<1> QED
  BY <1>1, SafetyAlways, PTL

\* gdb takes no packet for the answer to another command, nor reads what the
\* guest prints while it awaits an ack or an answer: an answer is sent right
\* behind its ack, and only a running hart prints.
THEOREM AnswersAlwaysMatch == Spec => []AnswersMatch
<1>1. SafetyInv => AnswersMatch
  <2> SUFFICES ASSUME SafetyInv, NEW i \in DOMAIN toGdb
               PROVE  LET none(k) == \A j \in 1 .. i - 1 : toGdb[j].k # k IN
                      /\ gdb.phase = "waitReply" /\ toGdb[i].k = "packet" /\ none("packet")
                           => toGdb[i].answers = gdb.cmd.op
                      /\ gdb.phase = "waitAck" /\ toGdb[i].k = "console" => ~none("+")
                      /\ gdb.phase = "waitReply" /\ toGdb[i].k = "console" => ~none("packet")
    BY DEF AnswersMatch
  <2>1. View /\ SessionType
    BY DEF SafetyInv
  <2>2. /\ DOMAIN toGdb = 1 .. Len(toGdb) /\ Len(toGdb) \in Nat
        /\ \A j \in DOMAIN toGdb : j \in Nat /\ j >= 1
    BY <2>1, QueueType
  <2>3. ASSUME gdb.phase = "waitReply"
        PROVE  /\ toGdb[i].k = "packet" /\ (\A j \in 1 .. i - 1 : toGdb[j].k # "packet")
                    => toGdb[i].answers = gdb.cmd.op
               /\ toGdb[i].k = "console" => ~(\A j \in 1 .. i - 1 : toGdb[j].k # "packet")
    <3>1. toGdb[1].k = "packet" /\ toGdb[1].answers = gdb.cmd.op
      BY <2>1, <2>2, <2>3 DEF View, Answered, Refused
    <3>2. i = 1 \/ 1 \in 1 .. i - 1
      BY <2>2
    <3> QED
      BY <3>1, <3>2
  <2>4. ASSUME gdb.phase = "waitAck", toGdb[i].k = "console"
        PROVE  ~(\A j \in 1 .. i - 1 : toGdb[j].k # "+")
    <3>1. ~NoAck
      BY <2>1, <2>2, <2>4 DEF View, Stopped, PacketsAfter
    <3>2. PICK k \in DOMAIN toGdb : toGdb[k].k \in {"+", "-"}
      BY <3>1 DEF NoAck
    <3>3. Acked(k)
      BY <2>1, <2>4, <3>2 DEF View
    <3>4. k < i
      <4>1. k # i
        BY <2>4, <3>2
      <4>2. i \notin 1 .. k - 1
        BY <2>4, <3>3 DEF Acked
      <4> QED
        BY <2>2, <4>1, <4>2
    <3>5. toGdb[k].k = "+"
      BY <2>4, <3>2, <3>3, <3>4 DEF Acked, Stopped, PacketsAfter
    <3>6. k \in 1 .. i - 1
      BY <2>2, <3>4
    <3> QED
      BY <3>5, <3>6
  <2> QED
    BY <2>3, <2>4
<1> QED
  BY <1>1, SafetyAlways, PTL

\* Between two commands the breakpoints gdb believes set are those rv32_cycle
\* stops at, however many slots the table has: also when it was full, and when a
\* command was sent again.
THEOREM BreakpointsAlwaysAgree == Spec => []BreakpointsAgree
<1>1. SafetyInv => BreakpointsAgree
  BY DEF SafetyInv, View, Agree, BreakpointsAgree
<1> QED
  BY <1>1, SafetyAlways, PTL

-----------------------------------------------------------------------------
(* On a link that loses nothing *)

\* Of gdb's packet the last r bytes are left, up to place e of the stream;
\* acks and interrupts are before it, acks behind it.
Whole(e, r) ==
  /\ e \in 0 .. Len(Stream) /\ r \in 0 .. 5 /\ r <= e
  /\ \A i \in DOMAIN Stream :
       /\ i <= e - r => Stream[i].b \in {"+", "intr"}
       /\ i > e - r /\ i <= e => Stream[i] = Packet(gdb.cmd)[5 - e + i]
       /\ i > e => Stream[i].b = "+"

\* The stub has read all of gdb's packet but the last r bytes.
HasRead(r) ==
  \/ r = 4 /\ rsp.state = "PACKET_DATA" /\ rsp.data = <<>>
  \/ r = 3 /\ rsp.state = "PACKET_DATA" /\ rsp.data = <<gdb.cmd>>
  \/ r = 2 /\ rsp.state = "CHECKSUM_1" /\ rsp.data = <<gdb.cmd>>
  \/ r = 1 /\ rsp.state = "CHECKSUM_2" /\ rsp.data = <<gdb.cmd>> /\ rsp.digit = gdb.cmd

ArrivesWhole ==
  IF InPacket THEN \E r \in 1 .. 4 : Whole(r, r) /\ HasRead(r)
  ELSE \E e \in Nat, r \in {0, 5} : Whole(e, r)

\* When the stub waits for an ack, that is the next byte to come, or gdb has
\* the packet to read and sends nothing else before.
AckFirst ==
  rsp.state = "WAIT_ACK" =>
    IF Stream = <<>>
    THEN \/ gdb.phase = "waitAck" /\ ~NoAck /\ gdb.cmd.op \notin {"c", "k"}
         \/ gdb.phase = "waitReply"
    ELSE Stream[1].b = "+"

NoNak == \A i \in DOMAIN toGdb : toGdb[i].k # "-"

Lossless ==
  /\ rsp.fatal = "none" /\ budget.faults = 0
  /\ NoNak
  /\ gdb.phase = "waitAck" => gdb.cmd \in Command
  /\ ArrivesWhole /\ AckFirst

\* The stub has acknowledged a P that it refuses, sent nothing after that, and
\* ended.  gdb gets as far as the wait for an answer.
Ended ==
  /\ rsp.fatal = Refusal(gdb.cmd) /\ rsp.fatal # "none" /\ rsp.state = "CHECKSUM_2"
  /\ \/ /\ gdb.phase = "waitAck" /\ toGdb # <<>>
        /\ \A i \in DOMAIN toGdb : toGdb[i].k = IF i = Len(toGdb) THEN "+" ELSE "packet"
     \/ gdb.phase = "waitReply" /\ toGdb = <<>>

LEMMA WholeTaken ==
  ASSUME SessionType, SessionType', Stream # <<>>, Stream' = Tail(Stream), gdb'.cmd = gdb.cmd,
         NEW e \in Nat, NEW r \in Nat, Whole(e, r)
  PROVE  /\ r < e => Whole(e - 1, r)'
         /\ r = e /\ r > 0 => Whole(r - 1, r - 1)' /\ Stream[1] = Packet(gdb.cmd)[6 - r]
         /\ r < e => Stream[1].b \in {"+", "intr"}
         /\ e = 0 => Whole(0, 0)' /\ Stream[1].b = "+"
<1>1. /\ DOMAIN Stream = 1 .. Len(Stream) /\ DOMAIN Stream' = 1 .. Len(Stream) - 1
      /\ Len(Stream) \in Nat \ {0} /\ 1 \in DOMAIN Stream
      /\ \A i \in DOMAIN Stream' : i + 1 \in DOMAIN Stream /\ Stream'[i] = Stream[i + 1]
  BY StreamTaken
<1>2. Len(Stream') = Len(Stream) - 1
  BY <1>1, StreamType DEF SessionType
<1>3. e \in 0 .. Len(Stream) /\ r \in 0 .. 5 /\ r <= e
  BY DEF Whole
<1>4. ASSUME NEW d \in Nat, NEW q \in Nat, q <= d, d \in 0 .. Len(Stream'), q \in 0 .. 5,
             \/ d = e - 1 /\ (q = r \/ (q = r - 1 /\ r = e))
             \/ d = 0 /\ e = 0 /\ q = 0
      PROVE  Whole(d, q)'
  <2>1. ASSUME NEW i \in DOMAIN Stream'
        PROVE  /\ i <= d - q => Stream'[i].b \in {"+", "intr"}
               /\ i > d - q /\ i <= d => Stream'[i] = Packet(gdb.cmd)[5 - d + i]
               /\ i > d => Stream'[i].b = "+"
    <3>1. i + 1 \in DOMAIN Stream /\ Stream'[i] = Stream[i + 1] /\ i \in Nat /\ i >= 1
      BY <1>1
    <3>2. /\ i + 1 <= e - r => Stream[i + 1].b \in {"+", "intr"}
          /\ i + 1 > e - r /\ i + 1 <= e => Stream[i + 1] = Packet(gdb.cmd)[5 - e + (i + 1)]
          /\ i + 1 > e => Stream[i + 1].b = "+"
      BY <3>1 DEF Whole
    <3>3. CASE d = e - 1
      <4>1. 5 - e + (i + 1) = 5 - d + i
        BY <3>1, <3>3
      <4>2. /\ i <= d - q => i + 1 <= e - r
            /\ i > d - q /\ i <= d => i + 1 > e - r /\ i + 1 <= e
            /\ i > d => i + 1 > e
        BY <1>3, <1>4, <3>1, <3>3
      <4> QED
        BY <3>1, <3>2, <4>1, <4>2
    <3>4. CASE d = 0 /\ e = 0 /\ q = 0
      BY <1>3, <3>1, <3>2, <3>4
    <3> QED
      BY <1>4, <3>3, <3>4
  <2> QED
    BY <1>4, <2>1 DEF Whole
<1>5. ASSUME r < e PROVE Whole(e - 1, r)' /\ Stream[1].b \in {"+", "intr"}
  <2>1. e - 1 \in Nat /\ r <= e - 1 /\ e - 1 \in 0 .. Len(Stream') /\ 1 <= e - r
    BY <1>1, <1>2, <1>3, <1>5
  <2> QED
    BY <1>1, <1>3, <1>4, <2>1 DEF Whole
<1>6. ASSUME r = e, r > 0
      PROVE  Whole(r - 1, r - 1)' /\ Stream[1] = Packet(gdb.cmd)[6 - r]
  <2>1. r - 1 \in Nat /\ r - 1 <= e - 1 /\ r - 1 \in 0 .. Len(Stream') /\ r - 1 \in 0 .. 5
        /\ 1 > e - r /\ 1 <= e /\ 5 - e + 1 = 6 - r
    BY <1>1, <1>2, <1>3, <1>6
  <2>2. Stream[1] = Packet(gdb.cmd)[5 - e + 1]
    BY <1>1, <2>1 DEF Whole
  <2> QED
    BY <1>4, <1>6, <2>1, <2>2
<1>7. ASSUME e = 0 PROVE Whole(0, 0)' /\ Stream[1].b = "+"
  <2>1. 0 \in 0 .. Len(Stream') /\ r = 0 /\ 1 > e
    BY <1>1, <1>2, <1>3, <1>7
  <2> QED
    BY <1>1, <1>4, <1>7, <2>1 DEF Whole
<1> QED
  BY <1>5, <1>6, <1>7

\* With no packet on its way, only acks and interrupts are.
LEMMA NoPacketLeft ==
  ASSUME SessionType, ~Pending, ArrivesWhole
  PROVE  \A i \in DOMAIN Stream : Stream[i].b \in {"+", "intr"}
<1>1. PICK e \in Nat, r \in {0, 5} : Whole(e, r)
  BY DEF ArrivesWhole, Pending
<1>2. DOMAIN Stream = 1 .. Len(Stream) /\ Len(Stream) \in Nat
  BY StreamType DEF SessionType
<1>3. r = 0
  <2> SUFFICES ASSUME r = 5 PROVE FALSE
    OBVIOUS
  <2>1. e - 4 \in DOMAIN Stream /\ e - 4 > e - r /\ e - 4 <= e /\ 5 - e + (e - 4) = 1
    BY <1>1, <1>2 DEF Whole
  <2>2. Stream[e - 4] = Packet(gdb.cmd)[1]
    BY <1>1, <2>1 DEF Whole
  <2>3. Stream[e - 4] = Plain("$")
    BY <2>2, CmdType, PacketType
  <2>4. Stream[e - 4].b = "$"
    BY <2>3 DEF Plain
  <2> QED
    BY <2>1, <2>4 DEF Pending, Opens
<1>4. ASSUME NEW i \in DOMAIN Stream PROVE Stream[i].b \in {"+", "intr"}
  <2>1. i <= e - 0 \/ i > e
    BY <1>2
  <2> QED
    BY <1>1, <1>3, <2>1 DEF Whole
<1> QED
  BY <1>4

LEMMA PacketArrives ==
  ASSUME SessionType, SessionType', stdin' = stdin, rsp' = rsp,
         gdb'.cmd \in Command \cup {NoCommand},
         toStub' = toStub \o Packet(gdb'.cmd),
         ~Pending, ArrivesWhole
  PROVE  ArrivesWhole' /\ (Stream # <<>> => Stream' # <<>> /\ Stream'[1] = Stream[1])
<1> DEFINE s == Packet(gdb'.cmd)
<1>1. s \in Seq(Byte) /\ Len(s) = 5
  BY PacketType
<1> HIDE DEF s
<1>2. /\ DOMAIN Stream = 1 .. Len(Stream) /\ DOMAIN Stream' = 1 .. Len(Stream) + 5
      /\ Len(Stream) \in Nat
      /\ \A i \in DOMAIN Stream : Stream'[i] = Stream[i]
      /\ \A i \in 1 .. 5 : Stream'[Len(Stream) + i] = s[i]
  BY <1>1, StreamSent DEF s
<1>3. \A i \in DOMAIN Stream : Stream[i].b \in {"+", "intr"}
  BY NoPacketLeft
<1>4. PICK n \in Nat : n = Len(Stream)
  BY <1>2
<1>5. Len(Stream') = n + 5
  BY <1>2, <1>4, StreamType DEF SessionType
<1>6. ASSUME NEW i \in DOMAIN Stream'
      PROVE  /\ i <= n => Stream'[i].b \in {"+", "intr"}
             /\ i > n => Stream'[i] = s[i - n]
  <2>1. CASE i <= n
    BY <1>2, <1>3, <1>4, <2>1
  <2>2. CASE i > n
    <3>1. i - n \in 1 .. 5 /\ n + (i - n) = i /\ ~(i <= n)
      BY <1>2, <1>4, <2>2
    <3>2. Stream'[n + (i - n)] = s[i - n]
      BY <1>2, <1>4, <3>1
    <3> QED
      BY <3>1, <3>2
  <2> QED
    BY <1>2, <1>4, <2>1, <2>2
<1>7. Whole(n + 5, 5)'
  <2>1. ASSUME NEW i \in DOMAIN Stream'
        PROVE  /\ i <= n + 5 - 5 => Stream'[i].b \in {"+", "intr"}
               /\ i > n + 5 - 5 /\ i <= n + 5 => Stream'[i] = s[5 - (n + 5) + i]
               /\ i > n + 5 => Stream'[i].b = "+"
    <3>1. 5 - (n + 5) + i = i - n /\ n + 5 - 5 = n /\ ~(i > n + 5)
      BY <1>2, <1>4
    <3> QED
      BY <1>6, <3>1
  <2> QED
    BY <1>4, <1>5, <2>1 DEF Whole, s
<1>8. ~InPacket' /\ n + 5 \in Nat
  BY <1>4 DEF Pending, InPacket
<1>9. Stream # <<>> => Stream' # <<>> /\ Stream'[1] = Stream[1]
  <2> SUFFICES ASSUME Stream # <<>> PROVE Stream' # <<>> /\ Stream'[1] = Stream[1]
    OBVIOUS
  <2>1. Len(Stream) # 0
    BY StreamType, EmptySeq DEF SessionType
  <2> QED
    BY <1>2, <2>1, EmptySeq
<1> QED
  BY <1>7, <1>8, <1>9 DEF ArrivesWhole

LEMMA PlainArrives ==
  ASSUME SessionType, SessionType', stdin' = stdin, rsp' = rsp, gdb'.cmd = gdb.cmd,
         NEW b \in {"+", "intr"}, toStub' = Append(toStub, Plain(b)),
         b = "intr" => ~Pending, ArrivesWhole
  PROVE  /\ ArrivesWhole'
         /\ Stream' # <<>> /\ Stream'[1] = IF Stream = <<>> THEN Plain(b) ELSE Stream[1]
<1> DEFINE s == <<Plain(b)>>
<1>1. s \in Seq(Byte) /\ Len(s) = 1 /\ s[1] = Plain(b) /\ toStub' = toStub \o s
  BY PlainType, AppendIsConcat DEF SessionType
<1> HIDE DEF s
<1>2. /\ DOMAIN Stream = 1 .. Len(Stream) /\ DOMAIN Stream' = 1 .. Len(Stream) + 1
      /\ Len(Stream) \in Nat
      /\ \A i \in DOMAIN Stream : Stream'[i] = Stream[i]
      /\ Stream'[Len(Stream) + 1] = Plain(b)
  <2>1. 1 \in 1 .. Len(s)
    BY <1>1
  <2> QED
    BY <1>1, <2>1, StreamSent
<1>3. Len(Stream') = Len(Stream) + 1
  BY <1>2, StreamType DEF SessionType
<1>4. ASSUME NEW e \in Nat, NEW r \in Nat, Whole(e, r), b = "+" PROVE Whole(e, r)'
  <2>1. e \in 0 .. Len(Stream) /\ r \in 0 .. 5 /\ r <= e
    BY <1>4 DEF Whole
  <2>2. ASSUME NEW i \in DOMAIN Stream'
        PROVE  /\ i <= e - r => Stream'[i].b \in {"+", "intr"}
               /\ i > e - r /\ i <= e => Stream'[i] = Packet(gdb.cmd)[5 - e + i]
               /\ i > e => Stream'[i].b = "+"
    <3>1. CASE i \in DOMAIN Stream
      BY <1>2, <1>4, <3>1 DEF Whole
    <3>2. CASE i = Len(Stream) + 1
      BY <1>2, <1>4, <2>1, <3>2 DEF Plain
    <3> QED
      BY <1>2, <3>1, <3>2
  <2> QED
    BY <1>2, <1>3, <2>1, <2>2 DEF Whole
<1>5. ASSUME b = "+" PROVE ArrivesWhole'
  <2>1. (InPacket' <=> InPacket) /\ \A r \in 1 .. 4 : HasRead(r)' <=> HasRead(r)
    BY DEF InPacket, HasRead
  <2>2. CASE InPacket
    <3>1. PICK r \in 1 .. 4 : Whole(r, r) /\ HasRead(r)
      BY <2>2 DEF ArrivesWhole
    <3>2. Whole(r, r)' /\ HasRead(r)'
      BY <1>4, <1>5, <2>1, <3>1
    <3> QED
      BY <2>1, <2>2, <3>2 DEF ArrivesWhole
  <2>3. CASE ~InPacket
    <3>1. PICK e \in Nat, r \in {0, 5} : Whole(e, r)
      BY <2>3 DEF ArrivesWhole
    <3>2. Whole(e, r)'
      BY <1>4, <1>5, <3>1
    <3> QED
      BY <2>1, <2>3, <3>2 DEF ArrivesWhole
  <2> QED
    BY <2>2, <2>3
<1>6. ASSUME b = "intr" PROVE ArrivesWhole'
  <2>1. \A i \in DOMAIN Stream : Stream[i].b \in {"+", "intr"}
    BY <1>6, NoPacketLeft
  <2>2. \A i \in DOMAIN Stream' : Stream'[i].b \in {"+", "intr"}
    BY <1>2, <2>1 DEF Plain
  <2>3. ~InPacket'
    BY <1>6 DEF Pending, InPacket
  <2>4. PICK n \in Nat : n = Len(Stream')
    BY <1>2, <1>3
  <2>5. Whole(n, 0)'
    BY <1>2, <1>3, <2>2, <2>4 DEF Whole
  <2> QED
    BY <2>3, <2>4, <2>5 DEF ArrivesWhole
<1>7. Stream' # <<>> /\ Stream'[1] = IF Stream = <<>> THEN Plain(b) ELSE Stream[1]
  <2>1. Stream = <<>> <=> Len(Stream) = 0
    BY StreamType, EmptySeq DEF SessionType
  <2> QED
    BY <1>2, <2>1, EmptySeq
<1> QED
  BY <1>5, <1>6, <1>7

LEMMA SameArrives ==
  ASSUME Stream' = Stream, rsp' = rsp, gdb'.cmd = gdb.cmd, ArrivesWhole PROVE ArrivesWhole'
<1>1. (InPacket' <=> InPacket) /\ \A r \in 1 .. 4 : HasRead(r)' <=> HasRead(r)
  BY DEF InPacket, HasRead
<1>2. ASSUME NEW e \in Nat, NEW r \in Nat, Whole(e, r) PROVE Whole(e, r)'
  BY <1>2 DEF Whole
<1>3. CASE InPacket
  <2>1. PICK r \in 1 .. 4 : Whole(r, r) /\ HasRead(r)
    BY <1>3 DEF ArrivesWhole
  <2>2. Whole(r, r)' /\ HasRead(r)'
    BY <1>1, <1>2, <2>1
  <2> QED
    BY <1>1, <1>3, <2>2 DEF ArrivesWhole
<1>4. CASE ~InPacket
  <2>1. PICK e \in Nat, r \in {0, 5} : Whole(e, r)
    BY <1>4 DEF ArrivesWhole
  <2>2. Whole(e, r)'
    BY <1>2, <2>1
  <2> QED
    BY <1>1, <1>4, <2>2 DEF ArrivesWhole
<1> QED
  BY <1>3, <1>4

LEMMA NoNakAdded ==
  ASSUME SessionType, NoNak, NEW s \in Seq(Output), toGdb' = toGdb \o s,
         \A i \in DOMAIN s : s[i].k # "-"
  PROVE  NoNak' /\ (NoAck' => NoAck)
<1>1. /\ \A i \in DOMAIN toGdb : i \in DOMAIN toGdb' /\ toGdb'[i] = toGdb[i]
      /\ \A i \in DOMAIN toGdb' :
           \/ i \in DOMAIN toGdb
           \/ i - Len(toGdb) \in DOMAIN s /\ toGdb'[i] = s[i - Len(toGdb)]
  BY MessagesAdded
<1> QED
  BY <1>1 DEF NoNak, NoAck

LEMMA NoNakRead ==
  ASSUME SessionType, NoNak, toGdb # <<>>, toGdb' = Tail(toGdb)
  PROVE  NoNak' /\ toGdb[1].k # "-" /\ (toGdb[1].k # "+" /\ NoAck' => NoAck)
<1>1. /\ 1 \in DOMAIN toGdb /\ Head(toGdb) = toGdb[1]
      /\ \A i \in DOMAIN toGdb' : i + 1 \in DOMAIN toGdb /\ toGdb'[i] = toGdb[i + 1]
      /\ \A i \in DOMAIN toGdb : i > 1 => i - 1 \in DOMAIN toGdb' /\ toGdb'[i - 1] = toGdb[i]
  BY MessageRead
<1>2. \A i \in DOMAIN toGdb : i = 1 \/ i > 1
  BY QueueType
<1>3. NoNak' /\ toGdb[1].k # "-"
  BY <1>1 DEF NoNak
<1>4. ASSUME toGdb[1].k # "+", NoAck' PROVE NoAck
  <2>1. ASSUME NEW i \in DOMAIN toGdb, i > 1 PROVE toGdb[i].k \notin {"+", "-"}
    BY <1>1, <1>4, <2>1 DEF NoAck
  <2> QED
    BY <1>2, <1>3, <1>4, <2>1 DEF NoAck
<1> QED
  BY <1>3, <1>4

\* Between packets.
LEMMA BetweenArrives ==
  ASSUME SafetyInv, Lossless, SessionType', Polled, ~InPacket
  PROVE  Lossless'
<1> DEFINE c == Stream[1]
<1>1. /\ SessionType /\ gdb' = gdb /\ budget' = budget /\ Stream # <<>> /\ Stream' = Tail(Stream)
      /\ rsp_handle_byte(c) /\ rsp \in Rsp /\ rsp.fatal = "none" /\ NoNak /\ AckFirst
  BY DEF SafetyInv, Polled, SessionType, Lossless, NoNak
<1>2. PICK e \in Nat, r \in {0, 5} : Whole(e, r)
  BY DEF Lossless, ArrivesWhole
<1>3. e \in 0 .. Len(Stream) /\ r \in 0 .. 5 /\ r <= e /\ gdb'.cmd = gdb.cmd
  BY <1>1, <1>2 DEF Whole
<1>4. /\ r < e => Whole(e - 1, r)' /\ c.b \in {"+", "intr"}
      /\ r = e /\ r = 5 => Whole(4, 4)' /\ c = Packet(gdb.cmd)[1]
      /\ e = 0 => Whole(0, 0)' /\ c.b = "+"
  <2>1. r = e /\ r = 5 => r > 0 /\ r - 1 = 4 /\ 6 - r = 1
    BY <1>3
  <2> QED
    BY <1>1, <1>2, <1>3, <2>1, WholeTaken
<1>5. Packet(gdb.cmd)[1] = Plain("$")
  BY <1>1, CmdType, PacketType
<1> HIDE DEF c
<1>6. \/ c.b = "$" /\ Whole(4, 4)'
      \/ c.b \in {"+", "intr"} /\ \E d \in Nat, q \in {0, 5} : Whole(d, q)'
  <2>1. CASE r < e
    <3>1. e - 1 \in Nat
      BY <1>3, <2>1
    <3> QED
      BY <1>4, <2>1, <3>1
  <2>2. CASE r = e /\ r = 5
    BY <1>4, <1>5, <2>2 DEF Plain
  <2>3. CASE e = 0
    BY <1>4, <2>3
  <2> QED
    BY <1>3, <2>1, <2>2, <2>3
<1>7. ~Opens(1) \/ rsp.state = "WAIT_START"
  BY <1>1 DEF Opens, AckFirst, Rsp, RspState, InPacket
<1>8. c.b = "$" => rsp.state = "WAIT_START"
  BY <1>7 DEF Opens, c
<1>9. rsp.state = "WAIT_ACK" => c.b = "+"
  BY <1>1 DEF AckFirst, c
<1>10. rsp.state \in {"WAIT_START", "WAIT_ACK"}
  BY <1>1 DEF InPacket, Rsp, RspState
<1>11. CASE c.b = "$"
  <2>1. StartPacket(c)
    BY <1>1, <1>8, <1>11 DEF rsp_handle_byte, StartPacket, Interrupt, Ignore, EndOfData, Collect,
      Checksum1, BadDigit, PacketAnswered, PacketUnanswered, PacketFatal, PacketRejected, Acknowledged, NotAcknowledged
  <2>2. /\ rsp'.state = "PACKET_DATA" /\ rsp'.data = <<>> /\ rsp'.fatal = "none"
        /\ toGdb' = toGdb
    BY <1>1, <2>1 DEF StartPacket, Rsp
  <2>3. Whole(4, 4)' /\ HasRead(4)' /\ InPacket' /\ ~(rsp'.state = "WAIT_ACK")
    BY <1>6, <1>11, <2>2 DEF HasRead, InPacket
  <2>4. ArrivesWhole'
    BY <2>3 DEF ArrivesWhole
  <2> QED
    BY <1>1, <2>2, <2>3, <2>4 DEF Lossless, NoNak, AckFirst
<1>12. CASE c.b \in {"+", "intr"}
  <2>1. Ignore(c) \/ Interrupt(c) \/ Acknowledged(c)
    BY <1>1, <1>9, <1>10, <1>12 DEF rsp_handle_byte, StartPacket, EndOfData, Collect,
      Checksum1, BadDigit, PacketAnswered, PacketUnanswered, PacketFatal, PacketRejected, NotAcknowledged
  <2>2. rsp'.state = "WAIT_START" /\ rsp'.fatal = "none"
    BY <1>1, <2>1 DEF Ignore, Interrupt, Acknowledged, Rsp
  <2>3. NoNak'
    <3>1. CASE Ignore(c) \/ Acknowledged(c)
      BY <1>1, <3>1 DEF NoNak, Ignore, Acknowledged
    <3>2. CASE Interrupt(c)
      <4> DEFINE m == Reply("stop", "S02")
      <4>1. m \in Output /\ m.k # "-"
        BY ReplyType DEF Text, Signal, Reply
      <4>2. toGdb' = toGdb \o <<m>>
        BY <1>1, <3>2, <4>1, QueueType, AppendIsConcat DEF Interrupt
      <4> HIDE DEF m
      <4>3. <<m>> \in Seq(Output) /\ \A i \in DOMAIN <<m>> : <<m>>[i].k # "-"
        BY <4>1, OneMessage
      <4> QED
        BY <1>1, <4>2, <4>3, NoNakAdded
    <3> QED
      BY <2>1, <3>1, <3>2
  <2>4. ~InPacket' /\ rsp'.state # "WAIT_ACK"
    BY <2>2 DEF InPacket
  <2>5. ArrivesWhole'
    BY <1>6, <1>12, <2>4 DEF ArrivesWhole
  <2> QED
    BY <1>1, <2>2, <2>3, <2>4, <2>5 DEF Lossless, NoNak, AckFirst
<1> QED
  BY <1>6, <1>11, <1>12

\* Inside a packet.
LEMMA InsideArrives ==
  ASSUME SafetyInv, Lossless, SessionType', Polled, InPacket
  PROVE  Lossless' \/ Ended'
<1> DEFINE c == Stream[1]
           cmd == gdb.cmd
<1>1. /\ SessionType /\ gdb' = gdb /\ budget' = budget /\ Stream # <<>> /\ Stream' = Tail(Stream)
      /\ rsp_handle_byte(c) /\ rsp \in Rsp /\ rsp.fatal = "none" /\ NoNak
      /\ gdb.phase = "waitAck" /\ NoAck /\ Stopped(0)
  BY DEF SafetyInv, Polled, SessionType, Lossless, Pending, PendingInv, View
<1>2. cmd \in Command /\ cmd # NoCommand /\ cmd \in Command \cup {NoCommand} /\ gdb'.cmd = cmd
  <2>1. cmd \in Command /\ gdb'.cmd = cmd
    BY <1>1 DEF Lossless
  <2>2. \A o \in Command : o.op \in Op
    BY DEF Command
  <2>3. NoCommand.op \notin Op
    BY DEF NoCommand, Op
  <2> HIDE DEF cmd
  <2> QED
    BY <2>1, <2>2, <2>3
<1>3. PICK r \in 1 .. 4 : Whole(r, r) /\ HasRead(r)
  BY DEF Lossless, ArrivesWhole
<1>4. Whole(r - 1, r - 1)' /\ c = Packet(cmd)[6 - r]
  <2>1. r \in Nat /\ r > 0
    OBVIOUS
  <2> QED
    BY <1>1, <1>2, <1>3, <2>1, WholeTaken
<1>5. /\ Packet(cmd)[2] = [b |-> "data", of |-> cmd]
      /\ Packet(cmd)[3] = Plain("#")
      /\ Packet(cmd)[4] = [b |-> "digit", of |-> cmd]
      /\ Packet(cmd)[5] = [b |-> "digit", of |-> cmd]
  BY <1>2, PacketType
<1> HIDE DEF c, cmd
<1>6. \/ StartPacket(c) \/ Interrupt(c) \/ Ignore(c)
      \/ EndOfData(c) \/ Collect(c)
      \/ Checksum1(c) \/ BadDigit(c)
      \/ PacketAnswered(c) \/ PacketUnanswered(c) \/ PacketFatal(c) \/ PacketRejected(c)
      \/ Acknowledged(c) \/ NotAcknowledged(c)
  BY <1>1 DEF rsp_handle_byte
<1>7. InPacket' /\ NoNak' /\ rsp'.fatal = "none" /\ Whole(r - 1, r - 1)' /\ HasRead(r - 1)' /\ r - 1 \in 1 .. 4
      => Lossless'
  BY <1>1 DEF Lossless, ArrivesWhole, AckFirst, InPacket, cmd
<1>8. CASE r = 4
  <2>1. c.b = "data" /\ c.of = cmd /\ rsp.state = "PACKET_DATA" /\ rsp.data = <<>> /\ Len(rsp.data) < BufferSize
    BY <1>3, <1>4, <1>5, <1>8, BufferAssumption, EmptySeq DEF HasRead
  <2>2. Collect(c)
    BY <1>6, <2>1 DEF StartPacket, Interrupt, Ignore, EndOfData, Checksum1, BadDigit,
                      PacketAnswered, PacketUnanswered, PacketFatal, PacketRejected, Acknowledged, NotAcknowledged
  <2>3. Append(rsp.data, cmd) = <<cmd>>
    BY <2>1
  <2>4. toGdb' = toGdb /\ rsp'.state = "PACKET_DATA" /\ rsp'.data = <<cmd>> /\ rsp'.fatal = "none"
    BY <1>1, <2>1, <2>2, <2>3 DEF Collect, Rsp
  <2>5. r - 1 = 3
    BY <1>8
  <2> QED
    BY <1>1, <1>4, <1>7, <2>4, <2>5 DEF HasRead, InPacket, NoNak, cmd
<1>9. CASE r = 3
  <2>1. c.b = "#" /\ rsp.state = "PACKET_DATA" /\ rsp.data = <<cmd>>
    BY <1>3, <1>4, <1>5, <1>9 DEF HasRead, Plain, cmd
  <2>2. EndOfData(c)
    BY <1>6, <2>1 DEF StartPacket, Interrupt, Ignore, Collect, Checksum1, BadDigit,
                      PacketAnswered, PacketUnanswered, PacketFatal, PacketRejected, Acknowledged, NotAcknowledged
  <2>3. toGdb' = toGdb /\ rsp'.state = "CHECKSUM_1" /\ rsp'.data = <<cmd>> /\ rsp'.fatal = "none"
    BY <1>1, <2>1, <2>2 DEF EndOfData, Rsp
  <2>4. r - 1 = 2
    BY <1>9
  <2> QED
    BY <1>1, <1>4, <1>7, <2>3, <2>4 DEF HasRead, InPacket, NoNak, cmd
<1>10. CASE r = 2
  <2>1. c.b = "digit" /\ c.of = cmd /\ rsp.state = "CHECKSUM_1" /\ rsp.data = <<cmd>>
    BY <1>3, <1>4, <1>5, <1>10 DEF HasRead, cmd
  <2>2. Checksum1(c)
    BY <1>6, <2>1 DEF StartPacket, Interrupt, Ignore, Collect, EndOfData, BadDigit,
                      PacketAnswered, PacketUnanswered, PacketFatal, PacketRejected, Acknowledged, NotAcknowledged
  <2>3. /\ toGdb' = toGdb /\ rsp'.state = "CHECKSUM_2" /\ rsp'.data = <<cmd>> /\ rsp'.digit = cmd
        /\ rsp'.fatal = "none"
    BY <1>1, <2>1, <2>2 DEF Checksum1, Rsp
  <2>4. r - 1 = 1
    BY <1>10
  <2> QED
    BY <1>1, <1>4, <1>7, <2>3, <2>4 DEF HasRead, InPacket, NoNak, cmd
\* The last byte of a good packet: the ack goes out before the stub waits.
<1>11. CASE r = 1
  <2>1. c.b = "digit" /\ c.of = cmd /\ rsp.state = "CHECKSUM_2" /\ rsp.data = <<cmd>> /\ rsp.digit = cmd
    BY <1>3, <1>4, <1>5, <1>11 DEF HasRead, cmd
  <2>2. Matches(c) /\ Received = cmd
    BY <1>2, <2>1 DEF Matches, Received
  <2>3. PacketAnswered(c) \/ PacketUnanswered(c) \/ PacketFatal(c)
    BY <1>6, <2>1, <2>2 DEF StartPacket, Interrupt, Ignore, Collect, EndOfData, BadDigit, Checksum1,
                      PacketRejected, Acknowledged, NotAcknowledged
  <2>4. /\ Ack("+") \in Output /\ Ack("+").k = "+"
        /\ \A text \in Text : Reply(cmd.op, text) \in Output /\ Reply(cmd.op, text).k = "packet"
    BY <1>2, AckType, ReplyType DEF Ack, Reply, Command
  <2>5. PICK n \in Nat : n = Len(toGdb)
    BY <1>1, QueueType
  <2>6. ASSUME NEW s \in Seq(Output), toGdb' = toGdb \o s, 1 \in DOMAIN s, s[1].k = "+",
               \A i \in DOMAIN s : s[i].k # "-"
        PROVE  NoNak' /\ ~NoAck'
    <3>1. n + 1 \in DOMAIN toGdb' /\ toGdb'[n + 1] = s[1]
      BY <1>1, <2>5, <2>6, MessagesAdded
    <3> QED
      BY <1>1, <2>6, <3>1, NoNakAdded DEF NoAck
  <2>7. Whole(0, 0)' /\ 0 \in Nat /\ r - 1 = 0
    BY <1>4, <1>11
  <2>8. \A i \in DOMAIN Stream' : Stream'[i].b = "+"
    <3>1. DOMAIN Stream' = 1 .. Len(Stream) - 1 /\ Len(Stream) \in Nat
      BY <1>1, StreamTaken
    <3>2. \A i \in DOMAIN Stream' : i > 0
      BY <3>1
    <3> QED
      BY <2>7, <3>2 DEF Whole
  <2>9. Stream' = <<>> \/ 1 \in DOMAIN Stream'
    <3>1. Stream \in Seq(Byte)
      BY <1>1, StreamType DEF SessionType
    <3>2. Stream' \in Seq(Byte)
      BY <1>1, <3>1, HeadTailProperties
    <3> QED
      BY <3>2, EmptySeq, LenProperties
  <2>10. CASE PacketAnswered(c)
    <3>1. PICK text \in Text :
            Answers(cmd, text) /\ toGdb' = toGdb \o <<Ack("+"), Reply(cmd.op, text)>>
      BY <2>2, <2>10 DEF PacketAnswered
    <3> DEFINE s == <<Ack("+"), Reply(cmd.op, text)>>
    <3>2. s \in Seq(Output) /\ 1 \in DOMAIN s /\ s[1].k = "+" /\ \A i \in DOMAIN s : s[i].k # "-"
      BY <2>4
    <3> HIDE DEF s
    <3>3. NoNak' /\ ~NoAck'
      BY <2>6, <3>1, <3>2 DEF s
    <3>4. rsp'.state = "WAIT_ACK" /\ rsp'.fatal = "none" /\ ~InPacket'
      BY <1>1, <2>10 DEF PacketAnswered, Rsp, InPacket
    <3>5. cmd.op \notin {"c", "k"}
      BY <3>1 DEF Answers, HandleQuery, rsp_write_registers, rsp_write_specific_register,
        rsp_read_memory, rsp_write_memory, rsp_set_software_breakpoint, rsp_clear_software_breakpoint,
        rsp_detach
    <3>6. AckFirst'
      BY <1>1, <2>8, <2>9, <3>3, <3>5 DEF AckFirst, cmd
    <3> QED
      BY <1>1, <1>2, <2>7, <3>3, <3>4, <3>6 DEF Lossless, ArrivesWhole, cmd
  <2>11. CASE PacketUnanswered(c)
    <3> DEFINE s == <<Ack("+")>>
    <3>1. toGdb' = toGdb \o s
      BY <1>1, <2>4, <2>11, QueueType, AppendIsConcat DEF PacketUnanswered
    <3>2. s \in Seq(Output) /\ 1 \in DOMAIN s /\ s[1].k = "+" /\ \A i \in DOMAIN s : s[i].k # "-"
      BY <2>4, OneMessage
    <3> HIDE DEF s
    <3>3. NoNak'
      BY <2>6, <3>1, <3>2
    <3>4. rsp'.state = "WAIT_START" /\ rsp'.fatal = "none" /\ ~InPacket'
      BY <1>1, <2>11 DEF PacketUnanswered, Rsp, InPacket
    <3>5. AckFirst'
      BY <3>4 DEF AckFirst
    <3> QED
      BY <1>1, <1>2, <2>7, <3>3, <3>4, <3>5 DEF Lossless, ArrivesWhole, cmd
  <2>12. CASE PacketFatal(c)
    <3> DEFINE m == Ack("+")
               s == <<m>>
    <3>1. toGdb' = toGdb \o s
      BY <1>1, <2>4, <2>12, QueueType, AppendIsConcat DEF PacketFatal
    <3>2. m \in Output /\ m.k = "+"
      BY <2>4
    <3> HIDE DEF m
    <3>3. s \in Seq(Output) /\ Len(s) = 1 /\ s[1].k = "+"
      BY <3>2, OneMessage
    <3> HIDE DEF s
    <3>4. /\ DOMAIN toGdb = 1 .. n /\ n \in Nat /\ DOMAIN toGdb' = 1 .. n + 1
          /\ \A i \in DOMAIN toGdb : toGdb'[i] = toGdb[i]
          /\ toGdb'[n + 1] = s[1]
      <4>1. DOMAIN toGdb = 1 .. n /\ n \in Nat
        BY <1>1, <2>5, QueueType
      <4>2. /\ DOMAIN toGdb' = 1 .. n + Len(s) /\ DOMAIN s = 1 .. Len(s)
            /\ \A i \in DOMAIN toGdb : toGdb'[i] = toGdb[i]
            /\ \A i \in DOMAIN s : toGdb'[n + i] = s[i]
        BY <1>1, <2>5, <3>1, <3>3, MessagesAdded
      <4>3. 1 \in DOMAIN s
        BY <3>3, <4>2
      <4> QED
        BY <3>3, <4>1, <4>2, <4>3
    <3>5. /\ toGdb' \in Seq(Output) /\ DOMAIN toGdb' = 1 .. Len(toGdb') /\ Len(toGdb') \in Nat
      BY LenProperties DEF SessionType
    <3>6. Len(toGdb') = n + 1 /\ toGdb' # <<>>
      BY <3>4, <3>5, EmptySeq
    <3>7. \A i \in DOMAIN toGdb : toGdb[i].k = "packet"
      BY <1>1, <3>4 DEF Stopped, PacketsAfter
    <3>8. \A i \in DOMAIN toGdb' : toGdb'[i].k = IF i = Len(toGdb') THEN "+" ELSE "packet"
      BY <3>3, <3>4, <3>6, <3>7
    <3>9. rsp' = [rsp EXCEPT !.fatal = Refusal(cmd)] /\ Refusal(cmd) # "none"
      BY <2>2, <2>12 DEF PacketFatal, Die
    <3>10. rsp'.fatal = Refusal(cmd) /\ rsp'.state = "CHECKSUM_2"
      BY <1>1, <2>1, <3>9 DEF Rsp
    <3>11. Refusal(gdb.cmd)' = Refusal(cmd)
      BY <1>1 DEF Refusal, cmd
    <3> QED
      BY <1>1, <3>6, <3>8, <3>9, <3>10, <3>11 DEF Ended
  <2> QED
    BY <2>3, <2>10, <2>11, <2>12
<1> QED
  BY <1>3, <1>8, <1>9, <1>10, <1>11

\* Steps that add nothing to what is on its way to the stub.
LEMMA NothingSentArrives ==
  ASSUME Lossless, UNCHANGED <<rsp, toStub, stdin>>, gdb'.cmd = gdb.cmd,
         gdb'.phase = "waitAck" => gdb.phase = "waitAck",
         budget'.faults = budget.faults, NoNak', AckFirst'
  PROVE  Lossless'
<1>1. Stream' = Stream
  BY DEF Stream
<1>2. ArrivesWhole'
  BY <1>1, SameArrives DEF Lossless
<1> QED
  BY <1>2 DEF Lossless

LEMMA CycleArrives ==
  ASSUME SafetyInv, Lossless, SessionType', RunCycle PROVE Lossless'
<1>1. /\ SessionType /\ UNCHANGED <<rsp, toStub, stdin, gdb>> /\ NoNak /\ AckFirst /\ budget \in Budget
      /\ Stream' = Stream
  BY DEF SafetyInv, RunCycle, Lossless, SessionType, Stream
<1>2. PICK n \in {0, 1} : toGdb' = toGdb \o [i \in 1 .. n |-> Ack("console")] \o Reports(hart'.status)
  BY <1>1, CycleSends
<1> DEFINE p == [i \in 1 .. n |-> Ack("console")]
           q == Reports(hart'.status)
<1>3. /\ Ack("console") \in Output /\ Ack("console").k = "console"
      /\ \A t \in Text : Reply("stop", t) \in Output /\ Reply("stop", t).k = "packet"
  BY AckType, ReplyType DEF Ack, Reply
<1>4. p \in Seq(Output) /\ \A i \in DOMAIN p : p[i].k # "-"
  BY <1>3
<1>5. q \in Seq(Output) /\ \A i \in DOMAIN q : q[i].k # "-"
  <2>1. q \in {<<>>, <<Reply("stop", "S0b")>>, <<Reply("stop", "S04"), Reply("stop", "S05")>>,
               <<Reply("stop", "S05")>>}
    BY DEF Reports
  <2>2. "S0b" \in Text /\ "S04" \in Text /\ "S05" \in Text
    BY DEF Text, Signal
  <2>3. ASSUME NEW m \in Output, m.k # "-"
        PROVE  <<m>> \in Seq(Output) /\ \A i \in DOMAIN <<m>> : <<m>>[i].k # "-"
    BY <2>3, OneMessage
  <2>4. ASSUME NEW m \in Output, NEW o \in Output, m.k # "-", o.k # "-"
        PROVE  <<m, o>> \in Seq(Output) /\ \A i \in DOMAIN <<m, o>> : <<m, o>>[i].k # "-"
    BY <2>4
  <2>5. <<>> \in Seq(Output) /\ \A i \in DOMAIN <<>> : <<>>[i].k # "-"
    BY EmptySeq
  <2>6. ASSUME NEW t \in {"S0b", "S04", "S05"}
        PROVE  Reply("stop", t) \in Output /\ Reply("stop", t).k # "-"
    BY <1>3, <2>2
  <2> HIDE DEF q
  <2> QED
    BY <2>1, <2>3, <2>4, <2>5, <2>6
<1> HIDE DEF p, q
<1>6. p \o q \in Seq(Output) /\ toGdb' = toGdb \o (p \o q) /\ \A i \in DOMAIN (p \o q) : (p \o q)[i].k # "-"
  <2>1. toGdb \in Seq(Output)
    BY <1>1, QueueType
  <2>2. toGdb' = toGdb \o (p \o q)
    <3>1. toGdb' = (toGdb \o p) \o q
      BY <1>2 DEF p, q
    <3> QED
      BY <1>4, <1>5, <2>1, <3>1, ConcatAssociative
  <2>3. /\ p \o q \in Seq(Output) /\ Len(p \o q) = Len(p) + Len(q)
        /\ \A i \in 1 .. Len(p) + Len(q) : (p \o q)[i] = IF i <= Len(p) THEN p[i] ELSE q[i - Len(p)]
    BY <1>4, <1>5, ConcatProperties
  <2>4. /\ Len(p) \in Nat /\ Len(q) \in Nat /\ DOMAIN p = 1 .. Len(p) /\ DOMAIN q = 1 .. Len(q)
        /\ DOMAIN (p \o q) = 1 .. Len(p) + Len(q)
    BY <1>4, <1>5, <2>3, LenProperties
  <2>5. ASSUME NEW i \in DOMAIN (p \o q) PROVE (p \o q)[i].k # "-"
    <3>1. i <= Len(p) => i \in DOMAIN p
      BY <2>4
    <3>2. ~(i <= Len(p)) => i - Len(p) \in DOMAIN q
      BY <2>4
    <3> QED
      BY <1>4, <1>5, <2>3, <2>4, <3>1, <3>2
  <2> QED
    BY <2>2, <2>3, <2>5
<1>7. NoNak' /\ (NoAck' => NoAck)
  BY <1>1, <1>6, NoNakAdded
<1>8. AckFirst'
  BY <1>1, <1>7 DEF AckFirst
<1>9. budget'.faults = budget.faults
  BY <1>1 DEF RunCycle, Budget
<1> QED
  BY <1>1, <1>7, <1>8, <1>9, NothingSentArrives

\* gdb reads an ack, or what the guest printed.
LEMMA ReadArrives ==
  ASSUME SafetyInv, Lossless, SessionType', ReadAck \/ ReadConsole PROVE Lossless'
<1>1. /\ SessionType /\ UNCHANGED <<rsp, toStub, stdin, budget>> /\ NoNak /\ AckFirst /\ gdb \in Gdb
      /\ toGdb # <<>> /\ toGdb' = Tail(toGdb) /\ Stream' = Stream
  BY DEF SafetyInv, ReadAck, ReadConsole, Reading, Lossless, SessionType, Stream
<1>2. NoNak' /\ (toGdb[1].k # "+" /\ NoAck' => NoAck)
  BY <1>1, NoNakRead
<1>3. Head(toGdb) = toGdb[1]
  BY <1>1, MessageRead
<1>4. CASE ReadAck
  <2>1. /\ gdb' = [gdb EXCEPT !.phase = IF @ = "waitAck" THEN AfterAck ELSE @]
        /\ gdb.phase \in {"waitAck", "waitReply", "running"}
    BY <1>4 DEF ReadAck, Reading
  <2>2. /\ gdb'.cmd = gdb.cmd
        /\ gdb.phase = "waitAck" => gdb'.phase = AfterAck
        /\ gdb.phase # "waitAck" => gdb'.phase = gdb.phase
    BY <1>1, <2>1 DEF Gdb
  <2>3. gdb'.phase # "waitAck" /\ (gdb.cmd.op \notin {"c", "k"} => AfterAck = "waitReply")
    BY <2>2 DEF AfterAck
  <2>4. AckFirst'
    BY <1>1, <2>2, <2>3 DEF AckFirst
  <2> QED
    BY <1>1, <1>2, <2>2, <2>3, <2>4, NothingSentArrives
<1>5. CASE ReadConsole
  <2>1. gdb' = gdb /\ toGdb[1].k # "+"
    BY <1>3, <1>5 DEF ReadConsole
  <2>2. AckFirst'
    BY <1>1, <1>2, <2>1 DEF AckFirst
  <2> QED
    BY <1>1, <1>2, <2>1, <2>2, NothingSentArrives
<1> QED
  BY <1>4, <1>5

\* gdb sends.
LEMMA CommandArrives ==
  ASSUME SafetyInv, Lossless, SessionType', SendCommand \/ Timeout PROVE Lossless'
<1>1. /\ SessionType /\ UNCHANGED <<rsp, toGdb, stdin>> /\ NoNak /\ AckFirst /\ ArrivesWhole
      /\ rsp.fatal = "none" /\ budget.faults = 0 /\ budget \in Budget /\ gdb \in Gdb
  BY DEF SafetyInv, SendCommand, Timeout, Lossless, SessionType
<1>2. budget'.faults = 0 /\ NoNak' /\ rsp'.fatal = "none"
  BY <1>1 DEF SendCommand, Timeout, Budget, NoNak
<1>3. /\ ~Pending /\ gdb'.cmd \in Command /\ toStub' = toStub \o Packet(gdb'.cmd)
      /\ rsp.state = "WAIT_ACK" => Stream # <<>>
  <2>1. CASE SendCommand
    <3>1. PICK cmd \in Commands : /\ gdb' = [gdb EXCEPT !.phase = "waitAck", !.cmd = cmd, !.intr = FALSE]
                                  /\ toStub' = toStub \o Packet(cmd)
      BY <2>1 DEF SendCommand
    <3>2. gdb'.cmd = cmd /\ cmd \in Command /\ gdb.phase = "idle"
      BY <1>1, <2>1, <3>1, SessionAssumption DEF Gdb, SendCommand
    <3> QED
      BY <1>1, <3>1, <3>2 DEF AckFirst, SafetyInv, PendingInv
  <2>2. CASE Timeout
    <3>1. /\ gdb' = gdb /\ gdb.phase = "waitAck" /\ toStub' = toStub \o Packet(gdb.cmd)
          /\ stdin = <<>> /\ toStub = <<>> /\ toGdb = <<>>
      BY <2>2 DEF Timeout
    <3>2. gdb.cmd \in Command
      BY <3>1 DEF Lossless
    <3>3. Stream = <<>> /\ DOMAIN Stream = {} /\ Len(Stream) = 0
      BY <1>1, <3>1, ConcatEmptySeq, EmptySeq DEF Stream
    <3>4. ~InPacket
      <4> SUFFICES ASSUME InPacket PROVE FALSE
        OBVIOUS
      <4>1. PICK r \in 1 .. 4 : Whole(r, r)
        BY <1>1 DEF ArrivesWhole
      <4> QED
        BY <3>3, <4>1 DEF Whole
    <3>5. NoAck
      BY <3>1, EmptySeq DEF NoAck
    <3> QED
      BY <1>1, <3>1, <3>2, <3>3, <3>4, <3>5 DEF Pending, AckFirst
  <2> QED
    BY <2>1, <2>2
<1>4. ArrivesWhole' /\ (Stream # <<>> => Stream' # <<>> /\ Stream'[1] = Stream[1])
  BY <1>1, <1>3, PacketArrives
<1>5. AckFirst'
  BY <1>1, <1>3, <1>4 DEF AckFirst
<1> QED
  BY <1>2, <1>3, <1>4, <1>5 DEF Lossless

LEMMA InterruptArrives ==
  ASSUME SafetyInv, Lossless, SessionType', SendInterrupt PROVE Lossless'
<1>1. /\ SessionType /\ UNCHANGED <<rsp, toGdb, stdin, budget>> /\ gdb \in Gdb
      /\ gdb.phase = "running" /\ gdb' = [gdb EXCEPT !.intr = TRUE]
      /\ toStub' = Append(toStub, Plain("intr"))
      /\ ArrivesWhole /\ AckFirst /\ NoNak /\ ~Pending
  BY DEF SafetyInv, SessionType, SendInterrupt, Lossless, PendingInv
<1>2. gdb'.cmd = gdb.cmd /\ gdb'.phase = gdb.phase
  BY <1>1 DEF Gdb
<1>3. /\ ArrivesWhole'
      /\ Stream' # <<>> /\ Stream'[1] = IF Stream = <<>> THEN Plain("intr") ELSE Stream[1]
  BY <1>1, <1>2, PlainArrives
<1>4. AckFirst' /\ NoNak'
  BY <1>1, <1>3 DEF AckFirst, NoNak
<1> QED
  BY <1>1, <1>2, <1>3, <1>4 DEF Lossless

\* gdb's ack of a packet is the first byte to come if the stub waits for it.
LEMMA PacketReadArrives ==
  ASSUME SafetyInv, Lossless, SessionType', ReadPacket PROVE Lossless'
<1>1. /\ SessionType /\ UNCHANGED <<rsp, stdin, budget>> /\ gdb \in Gdb
      /\ toGdb # <<>> /\ toGdb' = Tail(toGdb)
      /\ toStub' = Append(toStub, Plain("+"))
      /\ ArrivesWhole /\ AckFirst /\ NoNak
  BY DEF SafetyInv, SessionType, ReadPacket, Reading, Lossless
<1>2. gdb'.cmd = gdb.cmd /\ (gdb'.phase = "waitAck" => gdb.phase = "waitAck")
  BY <1>1 DEF ReadPacket, Gdb
<1>3. /\ ArrivesWhole'
      /\ Stream' # <<>> /\ Stream'[1] = IF Stream = <<>> THEN Plain("+") ELSE Stream[1]
  BY <1>1, <1>2, PlainArrives
<1>4. AckFirst' /\ NoNak'
  BY <1>1, <1>3, NoNakRead DEF AckFirst, Plain
<1> QED
  BY <1>1, <1>2, <1>3, <1>4 DEF Lossless

LosslessInv == SafetyInv /\ (Lossless \/ Ended)

\* An ended stub stays as it is, and gdb waits.
LEMMA EndedStays ==
  ASSUME SafetyInv, SessionType', Ended, [Next]_sessionVars PROVE Ended'
<1>1. SessionType /\ rsp.fatal # "none" /\ gdb.phase \in {"waitAck", "waitReply"} /\ gdb \in Gdb
  BY DEF SafetyInv, SessionType, Ended
<1>2. ASSUME UNCHANGED <<rsp, toGdb, gdb>> PROVE Ended'
  BY <1>2 DEF Ended, Refusal
<1>3. ~(Stub \/ SendCommand \/ SendInterrupt)
  BY <1>1 DEF Stub, PollBuffered, PollByte, PollSerial, PollNothing, PollEof, RunCycle, RunNothing,
              Alive, SendCommand, SendInterrupt
<1>4. ~Timeout
  BY DEF Timeout, Ended
<1>5. CASE LinkFault \/ UNCHANGED sessionVars
  BY <1>2, <1>5 DEF LinkFault, sessionVars
<1>6. CASE ReadAck \/ ReadNak \/ ReadPacket \/ ReadConsole
  <2>1. /\ toGdb # <<>> /\ toGdb' = Tail(toGdb) /\ gdb.phase = "waitAck" /\ rsp' = rsp
        /\ \A i \in DOMAIN toGdb : toGdb[i].k = IF i = Len(toGdb) THEN "+" ELSE "packet"
    BY <1>6 DEF ReadAck, ReadNak, ReadPacket, ReadConsole, Reading, Ended
  <2>2. /\ DOMAIN toGdb' = 1 .. Len(toGdb) - 1 /\ 1 \in DOMAIN toGdb /\ Head(toGdb) = toGdb[1]
        /\ \A i \in DOMAIN toGdb' : i + 1 \in DOMAIN toGdb /\ toGdb'[i] = toGdb[i + 1]
        /\ Len(toGdb) \in Nat /\ DOMAIN toGdb = 1 .. Len(toGdb)
    BY <1>1, <2>1, MessageRead, QueueType
  <2>3. toGdb' \in Seq(Output) /\ DOMAIN toGdb' = 1 .. Len(toGdb') /\ Len(toGdb') \in Nat
    BY LenProperties DEF SessionType
  <2>4. Len(toGdb') = Len(toGdb) - 1
    BY <1>1, <2>1, QueueType, HeadTailProperties
  <2>5. CASE Len(toGdb) = 1
    <3>1. ReadAck /\ toGdb' = <<>>
      BY <1>6, <2>1, <2>2, <2>3, <2>4, <2>5, EmptySeq DEF ReadNak, ReadPacket, ReadConsole
    <3>2. gdb.cmd.op \notin {"c", "k"}
      BY DEF Ended, Refusal
    <3>3. gdb'.phase = "waitReply" /\ gdb'.cmd = gdb.cmd
      BY <1>1, <2>1, <3>1, <3>2 DEF ReadAck, AfterAck, Gdb
    <3> QED
      BY <2>1, <3>1, <3>3 DEF Ended, Refusal
  <2>6. CASE Len(toGdb) # 1
    <3>1. toGdb[1].k = "packet"
      BY <2>1, <2>2, <2>6
    <3>2. ReadPacket /\ gdb' = gdb
      BY <1>6, <2>1, <2>2, <3>1 DEF ReadAck, ReadNak, ReadPacket, ReadConsole
    <3>3. toGdb' # <<>>
      BY <2>2, <2>4, <2>6, EmptySeq
    <3>4. \A i \in DOMAIN toGdb' : toGdb'[i].k = IF i = Len(toGdb') THEN "+" ELSE "packet"
      <4>1. ASSUME NEW i \in DOMAIN toGdb'
            PROVE  toGdb'[i].k = IF i = Len(toGdb') THEN "+" ELSE "packet"
        <5>1. toGdb'[i].k = IF i + 1 = Len(toGdb) THEN "+" ELSE "packet"
          BY <2>1, <2>2
        <5>2. i + 1 = Len(toGdb) <=> i = Len(toGdb')
          BY <2>2, <2>4
        <5> QED
          BY <5>1, <5>2
      <4> QED
        BY <4>1
    <3> QED
      BY <2>1, <3>2, <3>3, <3>4 DEF Ended, Refusal
  <2> QED
    BY <2>5, <2>6
<1> QED
  BY <1>3, <1>4, <1>5, <1>6 DEF Next, GdbReads

LEMMA LosslessStep == ASSUME LosslessInv, [Next]_sessionVars PROVE LosslessInv'
<1>0. SafetyInv /\ SafetyInv' /\ SessionType /\ SessionType' /\ (Lossless \/ Ended)
  BY SafetyStep, TypeStep DEF LosslessInv, SafetyInv
<1> SUFFICES ASSUME Lossless PROVE Lossless' \/ Ended'
  BY <1>0, EndedStays DEF LosslessInv
<1>1. SafetyInv /\ Lossless /\ SafetyInv' /\ SessionType /\ SessionType'
  BY <1>0
<1>2. ASSUME UNCHANGED <<rsp, toStub, toGdb, stdin, gdb, budget>> PROVE Lossless'
  <2>1. NoNak' /\ AckFirst'
    <3>1. Stream' = Stream
      BY <1>2 DEF Stream
    <3>2. (NoAck' <=> NoAck) /\ (NoNak' <=> NoNak)
      BY <1>2 DEF NoAck, NoNak
    <3>3. AckFirst /\ NoNak
      BY <1>1 DEF Lossless
    <3> QED
      BY <1>2, <3>1, <3>2, <3>3 DEF AckFirst
  <2> QED
    BY <1>2, <2>1, NothingSentArrives, <1>1
<1>3. CASE UNCHANGED sessionVars
  BY <1>2, <1>3 DEF sessionVars
<1>4. CASE PollBuffered \/ PollByte \/ PollSerial
  <2>1. Polled
    BY <1>1, <1>4, StubPolls
  <2> QED
    BY <1>1, <2>1, BetweenArrives, InsideArrives
<1>5. CASE PollNothing \/ PollEof \/ RunNothing
  BY <1>2, <1>5 DEF PollNothing, PollEof, RunNothing
<1>6. CASE RunCycle
  BY <1>1, <1>6, CycleArrives
<1>7. CASE SendCommand \/ Timeout
  BY <1>1, <1>7, CommandArrives
<1>8. CASE SendInterrupt
  BY <1>1, <1>8, InterruptArrives
<1>9. CASE LinkFault
  BY <1>1, <1>9 DEF Lossless, LinkFault
<1>10. CASE ReadAck \/ ReadConsole
  BY <1>1, <1>10, ReadArrives
<1>11. CASE ReadNak
  <2>1. toGdb # <<>> /\ toGdb' = Tail(toGdb) /\ Head(toGdb).k = "-"
    BY <1>11 DEF ReadNak, Reading
  <2>2. toGdb[1].k = "-" /\ toGdb[1].k # "-"
    BY <1>1, <2>1, MessageRead, NoNakRead DEF Lossless
  <2> QED
    BY <2>2
<1>12. CASE ReadPacket
  BY <1>1, <1>12, PacketReadArrives
<1> QED
  BY <1>3, <1>4, <1>5, <1>6, <1>7, <1>8, <1>9, <1>10, <1>11, <1>12 DEF Next, Stub, GdbReads

LEMMA LosslessInit == ASSUME MaxFaults = 0, Init PROVE LosslessInv
<1>1. /\ rsp = NewRsp /\ toStub = <<>> /\ stdin = <<>> /\ toGdb = <<>> /\ budget.faults = 0
      /\ gdb.phase = "idle"
  BY DEF Init
<1>2. <<>> \in Seq(Byte) /\ DOMAIN <<>> = {}
  BY EmptySeq
<1>3. Stream = <<>> /\ Len(Stream) = 0 /\ DOMAIN Stream = {}
  BY <1>1, <1>2, ConcatEmptySeq, EmptySeq DEF Stream
<1>4. Whole(0, 0)
  BY <1>3 DEF Whole
<1>5. ArrivesWhole
  BY <1>1, <1>4 DEF ArrivesWhole, InPacket, NewRsp
<1>6. NoNak /\ AckFirst
  BY <1>1, <1>2 DEF NoNak, AckFirst, NewRsp
<1> QED
  BY <1>1, <1>5, <1>6, SafetyInit DEF LosslessInv, Lossless, NewRsp

-----------------------------------------------------------------------------

\* On a link that loses nothing, the invariant holds in every behaviour.
THEOREM LosslessAlways == ASSUME MaxFaults = 0 PROVE Spec => []LosslessInv
<1>1. Init => LosslessInv
  BY LosslessInit
<1>2. LosslessInv /\ [Next]_sessionVars => LosslessInv'
  BY LosslessStep
<1> QED
  BY <1>1, <1>2, PTL DEF Spec

\* On such a link the stub gives up over nothing but a P whose register it
\* refuses (rsp.h:169-178), and with that refusal: no other RSP_FATAL exit is
\* reached, on the pc's buffered stdin and on the board's serial port, whatever
\* gdb asks and however often.
THEOREM GivesUpOnlyOverP == ASSUME MaxFaults = 0 PROVE Spec => []FatalOnlyByP
<1>1. LosslessInv => FatalOnlyByP
  BY DEF LosslessInv, Lossless, Ended, FatalOnlyByP
<1> QED
  BY <1>1, LosslessAlways, PTL

\* On such a link, the ack the stub waits for is on its way or gdb still has the
\* packet to read.
THEOREM AckAlwaysComes == ASSUME MaxFaults = 0 PROVE Spec => []AckOnItsWay
<1>1. LosslessInv => AckOnItsWay
  <2> SUFFICES ASSUME LosslessInv, rsp.state = "WAIT_ACK", gdb.phase # "gone"
               PROVE  \/ \E i \in DOMAIN toGdb : toGdb[i].k = "packet"
                      \/ \E i \in DOMAIN stdin : stdin[i].b = "+"
                      \/ \E i \in DOMAIN toStub : toStub[i].b = "+"
    BY DEF AckOnItsWay
  <2>1. SafetyInv /\ SessionType /\ AckFirst /\ View /\ NoNak /\ rsp.fatal = "none"
    BY DEF LosslessInv, Lossless, Ended, SafetyInv
  <2>2. CASE Stream # <<>>
    <3>1. Stream[1].b = "+" /\ stdin \in Seq(Byte) /\ toStub \in Seq(Byte)
      BY <2>1, <2>2 DEF AckFirst, SessionType
    <3>2. CASE stdin # <<>>
      <4>1. Stream[1] = Head(stdin) /\ 1 \in DOMAIN stdin /\ Head(stdin) = stdin[1]
        BY <3>1, <3>2, TailOfConcat, EmptySeq, LenProperties DEF Stream
      <4> QED
        BY <3>1, <4>1
    <3>3. CASE stdin = <<>>
      <4>1. Stream = toStub /\ toStub # <<>>
        BY <2>2, <3>1, <3>3, ConcatEmptySeq DEF Stream
      <4>2. 1 \in DOMAIN toStub
        BY <3>1, <4>1, EmptySeq, LenProperties
      <4> QED
        BY <3>1, <4>1, <4>2
    <3> QED
      BY <3>2, <3>3
  <2>3. CASE Stream = <<>>
    <3>1. \/ gdb.phase = "waitAck" /\ ~NoAck /\ gdb.cmd.op \notin {"c", "k"}
          \/ gdb.phase = "waitReply"
      BY <2>1, <2>3 DEF AckFirst
    <3>2. \E k : Answered(k)
      <4>1. CASE gdb.phase = "waitReply"
        BY <2>1, <4>1 DEF View, Refused
      <4>2. CASE gdb.phase = "waitAck" /\ ~NoAck /\ gdb.cmd.op \notin {"c", "k"}
        <5>1. PICK k \in DOMAIN toGdb : toGdb[k].k \in {"+", "-"}
          BY <4>2 DEF NoAck
        <5>2. Acked(k) /\ toGdb[k].k = "+"
          BY <2>1, <4>2, <5>1 DEF View, NoNak
        <5>3. Answered(k + 1)
          BY <2>1, <4>2, <5>2 DEF Acked, Refused
        <5> QED
          BY <5>3
      <4> QED
        BY <3>1, <4>1, <4>2
    <3> QED
      BY <3>2 DEF Answered
  <2> QED
    BY <2>2, <2>3
<1> QED
  BY <1>1, LosslessAlways, PTL
=============================================================================
