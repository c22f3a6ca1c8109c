# rv32: TLA+ models and proofs

A verification development for the RV32IM virtual machine of `src/rv32.h`, the
gdb stub built on it (`gdb_stub`), the programs around both (`examples`, `elf`)
and the guests they run. Paths are relative to the repository.

## 1. Inventory

| Part | State it keeps | Operations | Talks to |
| --- | --- | --- | --- |
| Hart, `src/rv32.h` | `struct RV32`: status, pc, registers, CSRs, `wfi`, `interrupt_controller.{ie,ip}` | `rv32_new`, `rv32_reset`, `rv32_resume`, `rv32_trigger_external_interrupt`, `rv32_cycle` | RAM; callbacks `mmio_*` and `ecall` |
| Breakpoint table, `src/rv32.h` | `bp_mask`, `bp[8]` | `rv32_set_breakpoint`, `rv32_clear_breakpoint`, `rv32_clear_all_breakpoints`, the lookup in `rv32_cycle` | the hart's status |
| Memory, `src/rv32.h` | `mem[mem_size]` | `rv32_load*`, `rv32_store*` | interrupt controller mask, `mmio_*` |
| Debugger stub, `gdb_stub/rsp.h` | parser state, input buffer, two checksums | `rsp_handle_byte`, `rsp_handle_packet` and its handlers, `rsp_report_signal` | the hart's functions; the link |
| Stub's programs, `gdb_stub/main.c`, `examples/arduino` | place in the loop, stdio's buffer or a serial port | poll and feed a byte, run a cycle, report a stop | stub, hart, gdb |
| Emulator, `examples/embedding` | file, memory | load, run to a stop, exit code; console and exit calls | hart |
| Fantasy computer, `examples/fantasy-computer/src` | file, memory, SDL's objects, pixels | start-up, event loop, keys, frames | hart, user |
| newlib-nano, `examples/c-newlib-nano` | a fork of an older `rv32.h` | the same without interrupts and breakpoints; `stubs.c` for the guest | its own emulator |
| `elf/loadelf.c` | file, memory | lists executable segments | files |
| Guests: `examples/c`, `examples/fantasy-computer/{example*,menu*}`, `tests`, ... | - | programs that run on the hart | system calls |

What is hard. Nothing here runs on two threads, but the hart has several
masters: the guest, the host that raises interrupt lines between any two cycles,
and the debugger, which pauses, resumes, resets and plants breakpoints. The
order of the tests at the head of `rv32_cycle` (interrupt, sleep, status,
breakpoint, fetch) decides what each combination does. The stub has a peer: its
stop reports cross gdb's commands and interrupt characters, bytes get lost, the
guest prints on the same stdout, and input goes through `select` and through
stdio's buffer, which do not see the same bytes. The programs have start-ups of
up to ten steps with a cleanup for each. And the arithmetic has the usual
edges: widths, signs, bounds that wrap. `PROJECT.json` lists these hazards line
by line.

What makes each part correct:

* interrupts: a request reaches the trap handler exactly once, does not disturb
  the interrupted program, does not overwrite a return address, and wakes a
  sleeper; nothing else does;
* run control: a stopped hart executes nothing; a breakpoint comes before its
  instruction; breakpoint table: a bag of bounded size;
* data: instructions compute what the instruction set says; accesses stay inside
  RAM; a guest does the same on the header and on the fork;
* stub and session: both sides agree on whether the target runs, which
  breakpoints are set and which reply answers which command; every command is
  answered; the user can always regain control; packets decode to what was meant;
* programs: use only what they hold, release it, return a code that tells
  success from failure, and can be closed.

## 2. Modules

| Module | Models |
| --- | --- |
| `BpBag` | the promise of the breakpoint table: a bag of at most `NumSlots` addresses |
| `BpTable`, `Breakpoints` | the table's operations on the hart record; the table alone as a specification that refines `BpBag` |
| `Rv32Hart` | the hart and RAM: interrupts, one action per instruction class, `rv32_cycle`, the host's calls |
| `Rv32Core` | a guest and a host driving the hart; interrupts and run control |
| `Rv32Guest` | the same hart as the interrupted program sees it |
| `RspStub` | `rsp_handle_byte` and the command handlers, on `Rv32Hart` |
| `GdbSession` | the loop of the stub's `main()` and of the Arduino's `loop()`, gdb (external) and the link |
| `Rv32Isa` | arithmetic, M extension, branches and decoding, for a register width `W` |
| `Rv32Encoding` | immediates out of instruction words, as sets of bits |
| `Rv32Memory` | bounds and effects of every load and store: the header's, the fork's, the front ends' `mmio_*`, the stub's `m` and `M` |
| `Rv32Machine` | one cycle with registers, csrs and bytes |
| `NewlibRv32` | one cycle of the fork |
| `Lockstep` | both machines on the same program; refinement of `Rv32Hart` |
| `RspPacket` | digits, packets, escapes, checksum, memory commands, registers in packets |
| `GuestPrograms` | system calls of each front end, the C guests, newlib's stubs, ELF files |
| `FrontEnds` | all seven programs from start to exit |
| `DataLaws` | laws of the pure modules, against reference definitions |
| `MC*` | values for TLC; `MCData` runs the breakpoint table beside the laws |
| `*_proofs` | theorems (section 4) |

Correspondence. `hart` is `struct RV32` as a record: `bpMask` and `bp` are the
slots, bit masks (`mstatus`, `mie`, `mip`, `ie`, `ip`) are sets of bits, `mtvec`
is its base and its mode bit. In `Rv32Hart` `mem` is RAM as instruction classes
and addresses are words on a ring of `AddrSpace`; integer registers are left out,
so that a branch goes anywhere, a load or store hits RAM, the interrupt
controller, the console or nothing, and a csr instruction writes any of the
values the configuration gives the guest. `Rv32Machine` puts registers and bytes
back, and `Lockstep!ImplementsHart` says that its cycles are `Rv32Hart`'s, so
that the nondeterminism there is known to cover the program, csr instructions and
`mret` included (`NamedBits`, `Vector` and `CauseOf` take a csr's word to its
parts): run `lockstep` checks it, `ImplementsHartAlways` proves it. Functions keep
their names, with one named action per parser state and kind of byte of
`rsp_handle_byte` (`StartPacket`, `Collect`, `PacketRejected`, ...). Functions
that cannot fail in C but may fault in the model return the set of outcomes.

`rsp` holds the static variables of `rsp_handle_byte`; `stdin` is stdio's buffer
and `toStub`/`toGdb` the bytes between the two programs. A gdb command is one
token; a checksum digit belongs to one command, and two commands never have the
same checksum. `P` has four tokens: a register below 16, one from 16 to 31, pc, and
a number beyond; gdb writes numbers without leading zeros, so the first has 11
characters and the stub, which wants 12, ends (`Refusal`). It has sent its `+` by
then. On the Arduino, whose `RSP_FATAL` shows the message for ever, ending means
that too: no byte is read any more. The uninitialised `handler_result` of `rsp_handle_byte` is either
value. gdb is external: one command at a time, an ack for each packet it reads,
an interrupt character only while it believes the target runs, at most one per
run, packets read in place of an ack acked and dropped, and a timeout longer than
a round trip.

In `FrontEnds` a start-up is a list of steps. Each names what it uses, gets and
drops, and on failure what is released and returned; `main.held` is what is held
and `misused` collects uses of what is not. `Rv32Encoding` and the words of
`RspPacket` are sets of bits, so that 32-bit widths are used as they are.

Not every source matches the current header. `gdb_stub/main.c` and the fantasy
computer were written for an older one (`rv32_new` with an allocator,
`RV32_BREAKPOINT`, other `mmio_*` signatures). The models give them the current
functions under the same names; where it matters whether the older `rv32_new`
left the hart running, both are tried (`FrontEnds!Created`).

## 3. Runs

| Run | Shows | Bounds | Distinct states |
| --- | --- | --- | --- |
| `interrupts` | no request lost, `mip.MEI` up exactly while one is pending, return address kept, sleepers wake and nothing else wakes them, line 0 served | 2 lines, RAM of 2 words, both trap vector modes | 213,344 |
| `guest` | interrupts are invisible to the interrupted program; a stopped hart executes nothing; breakpoints come first | external and timer interrupts, 1 slot, 2 armed addresses, RAM of 2 words | 2.9 million |
| `session` | stub and gdb stay in step, nobody waits for ever, Ctrl-C works, on the pc and on a board; the stub gives up over a refused `P` only; a closed link ends the program | 3 commands of all but breakpoints, no faults | 689,255 |
| `session_faults` | faults may end the stub but do not mislead gdb; breakpoints agree; console output never stands where an answer is read | 2 lost or garbled bytes, 2 resends, 3 commands, 1 slot, 2 addresses, 1 console byte | 7.6 million |
| `data` | the laws below; free breakpoint slots hold address 0, and the table implements the bag | all 4-bit operands, memories of 0 to 12 bytes, offsets with up to two odd bits, texts around the size of a buffer of 64; 4 slots, 3 addresses | 6,167 |
| `lockstep` | header and fork agree until a listed difference; the machine refines the hart | 8-bit words in four bytes, all pairs of 24 instructions, 5 start values of 2 registers | 35,042 |
| `frontends` | what programs hold, return, and that the window closes | every set of failing steps, 7 programs, 2 exit values | 379,646 |
| `irq_range`, `masked_irq`, `hex_example`, `key_interrupt`, `session_fatal` | the findings below, as counterexamples | | |

Why the bounds are enough. The interrupt logic compares lines only by order and
by being the last one, so two lines show every case. A second pending line, a
nonempty trap while sleeping and a trap into RAM need no more than a few words;
jumps reach any address. One slot makes the table full after one set, which is
the case gdb has to learn about. A stop report needs one run to be sent, one
command to be crossed and one more to be mistaken for an answer to: three
commands. A command is retransmitted after the first fault and the second hits
the retransmission. Arithmetic is uniform in the width: four bits have every
combination of signs, the overflowing quotient, and shift counts at and beyond
the width; an immediate of three bits is shorter than a word as 12 is than 32.
Programs of two words include those that overwrite the word they are about to
execute. Memories of 0 to 12 bytes have every position of an access relative to
both ends, and the sizes at which the header's bound and the fork's wrap. Texts go
from short ones of all kinds of characters to ones whose packets just fit the
buffer and just do not, with and without escapes.

Deadlock is not checked in the sessions (the stub blocks in `fgetc` while the hart
is stopped, and ends at EOF or in `RSP_FATAL`), in `lockstep` (machines stop), nor in
`frontends`, whose configuration says so because programs end.

The laws of `data`:

* `MulDivLaw`, `OrderLaw`, `ImmediateLaw`, `DecodesLaw`, `OffsetLaw`: arithmetic,
  comparison, immediates and decoding against the instruction set, with the
  exceptions the code has (`sltiu` with a negative immediate, jumps of 512 kB and
  more, encodings of no instruction that pass for one).
* `AccessLaw`: who grants which access, and what the screen shows of a pixel. Both
  bounds are unsigned: the header's wraps for a RAM smaller than the access, the
  fork's for one that lacks two bytes of it or more, and then everything is granted.
* `MemoryLaw`: `M` then `m` gives back what was written, unless the range is
  refused. An `M` too long for the input buffer ends the program and is not carried
  out; so do an answer that does not fit and an `m` whose length wraps.
* `TextLaw`: the string up to its first 0 is what the receiver decodes, with the
  checksum it computes; nothing is sent, the program ending, exactly when the packet
  with its escapes and framing is larger than the buffer.
* `WordLaw`: registers are shown under the number the calling convention gives them, and
  what gdb writes into one arrives exactly when it is less than 256.
* `ProgramLaw`: what the guests show on each front end, RGB565, newlib's calls.
* `UnusedSlotsAreZero`, `BagSpec`: the breakpoint table under any sequence of calls.
* `ElfLaw`: of a file, the entry point and the executable segments, each with its own bytes.

Fairness. `Rv32Core!FairSpec` assumes weak fairness of `rv32_cycle` while the
status is RUNNING: every front end calls it in a loop under that condition, and
nothing is assumed of the host. `GdbSession!Spec` assumes that the loop goes on (a
step that blocks in `fgetc` is not enabled) and that gdb reads what it waits for;
the user, the link and gdb's timeouts owe nothing. `FrontEnds!Spec` assumes that
the queue of events is read to its end (`SDL_PollEvent` takes the oldest first)
and that a frame ends when its time is over, whatever the guest does in it.

Scope of the properties:

* `MeipBacked` and `IrqNotLost` hold for guests that leave `mip`, and `mepc` and
  `mcause`, to the hart; `MainUndisturbed` for those that leave `mstatus` and `mepc`
  alone after their prologue. The repository's interrupt examples clear `mip.MEI`
  in their handlers, which can leave a request waiting for the next trigger: no
  property notices that. Nor does one look behind `rv32_reset`, after which the
  first word of the program is gone.
* `SleeperWakes` needs a deliverable interrupt: `wfi` with `MIE` clear, or with
  nothing enabled, or with two kinds of interrupts pending (the `switch` has no
  case for it), sleeps on. The emulator and the fantasy computer raise no line, so
  under them no interrupt is ever deliverable: finding 4, and `SleepNeverEnds` in
  section 4. `LineZeroServed` is
  about line 0 because the claim always takes the lowest line and higher ones can
  starve.
* `InterruptRegainsControl` makes one exception. `input_available` asks `select`,
  but `fgetc` reads all that has arrived into stdio's buffer. When the interrupt
  character arrives together with a byte before it (the ack of a stop report that
  crossed a command), it lies in the buffer, `select` sees nothing, the hart runs,
  and the interrupt is taken only when gdb sends something more. TLC reaches this
  state (`Stranded`) in the `session` run.
* `FatalOnlyByP` and the liveness of a session are about links without faults: the
  stub ends at the first lost ack, as its TODO says. On such a link it ends only over
  a `P` it refuses (`rsp.h:170` and 176), and `CommandAnswered` says of that `P` that
  the stub does end. The fatal exits of the other handlers, and of a `P` of other
  lengths, need commands gdb does not send.
* `ClosedLinkEnds` is about the pc: a guest that `D` has resumed does not run on
  there, since the closed link reads as the end of stdin. On a board it does.
* `ForkAgrees` ends where `Parts` and `PartsAt` say that the two machines differ: a fetch from
  the last three bytes of RAM or from the interrupt controller; shift
  counts of the width or more; `jalr` with one register twice or an odd target; `sh` on the
  last byte; the interrupt controller and mmio; the exit call and `ebreak`; `mret`, `wfi`
  and the csr instructions, which the fork has not; and an instruction of opcode 0x73
  with a funct3 and the number of `ecall` or `ebreak`, which it takes for that.
* `UsesWhatItHolds` and `EndsClean` name, program by program, the misuse and the
  leaks the code has; everything else is free of both.

### Findings

1. `rv32.h:351` refuses lines 4 to 31: it compares with the size of the mask in
   bytes where the comment says "IRQ between 0 and 31 only".
2. `rv32.h:257` claims the lowest pending line even when it is not enabled in
   `interrupt_controller.ie` (declared "interrupt enabled", line 40), as soon as any
   enabled one is pending.
3. `rsp.h:84` shifts bytes by 4 bits: "cdab3412" is not read as 0x1234abcd, which is
   the example of line 80. Registers and pc that gdb writes are wrong from 256 on.
4. `main.c:111` of the fantasy computer says of what it does for a key "trigger an
   interrupt". It raises `mip.MEIP` and no line, so the claim finds nothing and no
   interrupt is taken: not by a guest that has enabled everything, and not by the
   example program whose handler is installed for it.
5. `rsp.h:396` reads `handler_result` before any assignment when a checksum is bad;
   the stub may then wait for an ack of nothing and end with "gdb didn't
   acknowledge last packet".

The exceptions in the laws and in the scope above are further places where the code
does something unexpected; of those we know of no text in the repository that says
otherwise.

## 4. Theorems

All are proved for every value of the constants that meets the named assumptions
(`BpTable`, `Rv32Hart`, `Rv32Core`, `Rv32Guest`, `RspStub`, `GdbSession`, `FrontEnds`,
`Rv32Isa`, `Rv32Machine`, `Lockstep`, `DataLaws`), which say only what kind of thing each constant is; those about
memory state theirs.

* `Breakpoints_proofs`. `TableInvariant` (`TableOK`, `UnusedSlotsAreZero`) is
  inductive as it stands. `TableIsBag`: initial states map to the empty bag and each
  operation to the bag's. A set takes one free slot, so the count of its address
  grows by one and the cardinality of the used slots with it; a clear frees one
  slot that holds the address. The step from slots to counts is a lemma on the
  cardinality of a set with one element added or removed.
* `Rv32Hart_proofs` has the lemmas about the hart that the next two share: one
  for interrupt handling, one for execution (a case for each instruction class),
  one for each host call, each stating types and what is left alone.
* `Rv32Guest_proofs`, first with any host at all (`Rv32Core`). `TypeCorrect`.
  `LineIsBacked` (`MeipBacked`) is inductive with
  `TypeOK`; the step that matters is the claim, which lowers `mip.MEI` when it
  takes the last line. It assumes that the guest does not write `mip`.
  `RequestsAreNotLost`, `ReturnAddressKept`, `StoppedIsStill`, `OnlyInterruptsWake` and
  `BreakpointsStopFirst` are properties of single steps, proved from what a trap
  does to `ip`, `mcause`, `mepc` and the status; the first two and the wake-up assume
  that the guest does not write `mepc` (the first, nor `mcause`). For the breakpoint,
  the cycle is followed through the interrupt that precedes the lookup.
  Then as main() sees it. `InterruptsAreTransparent` (`MainUndisturbed`): every step of
  the hart takes main's pc to itself or to a successor. It needs no more
  than the hart's type: a trap is taken with `MIE` set only, which puts main's pc into
  `mepc` and leaves `mstatus` at {MPIE}; the guest leaves both alone, so that nothing
  but `mret`, which returns to `mepc`, ends the handler; and a cycle that takes an interrupt
  and executes the handler's first instruction is the two in that order.
  The other theorems carry the hart's type, run control and breakpoints over to a
  start after the prologue.
* `GdbSession_proofs`, for any commands, RAM, slots, and any number of commands,
  faults, resends and console bytes. What gdb believes says nothing by itself: the
  hart may be running again while gdb still waits for the ack that will tell it. So
  `SafetyInv` speaks of what is in flight. `PendingInv`: while a packet of gdb's may
  still be carried out, gdb awaits its ack and none is on its way, so no command is
  carried out twice. `OneOpen` and `Belongs`: there is one such packet, and from its
  `$` on the stream holds nothing of another command, so that lost bytes cannot make
  a packet out of two. `View`: for each message gdb has not read, what it will believe
  after it and that the hart and its breakpoints are as it then believes; stop reports
  that crossed a command stand before its ack only. `DistinctSlots`: an address is armed
  once, so that one clear disarms it. `SafetyAlways` gives `SessionTypeCorrect`
  (`TypeOK`), `StoppedTarget` (`StoppedWhenBelieved`), `AnswersAlwaysMatch`
  (`AnswersMatch`) and `BreakpointsAlwaysAgree` (`BreakpointsAgree`), on lossy links too.
  Under `MaxFaults = 0`, which is the links that the last two properties are about,
  `LosslessAlways` adds: the open packet arrives whole, with nothing but acks and
  interrupts around it (`ArrivesWhole`), and the next byte of a stub that waits for
  an ack is one (`AckFirst`); and a stub that has ended did so over the command at
  hand (`Ended`), after which nothing is read any more and only acks lie behind.
  `GivesUpOnlyOverP` (`FatalOnlyByP`) and `AckAlwaysComes` (`AckOnItsWay`) follow.
* `FrontEnds_proofs`. `SleepNeverEnds` (`SleepsForEver`, which no run checks: it is what
  finding 4 comes to for a guest that waits for its key). The invariant: no line is
  pending in the interrupt controller, so that `mip.MEI` alone (a key) leads to no
  trap; and an emulator whose guest sleeps is in its loop.
  `NothingElseMisused` (`UsesWhatItHolds`) and `EndsAlwaysClean` (`EndsClean`): for all
  seven programs, every guest and every set of failing steps. `Books` is the
  invariant. It has a table of what each program holds at each step of its start-up
  (`HeldOf`), less what the failures it goes on after have cost (`Missing`, `Forgiven`),
  and of the misuses these excuse (`Excused`). `Told` keeps the pc beyond RAM from the
  message about it to the end, for the machine has stopped by then; `FreshIfPaused` says
  that a paused machine has executed nothing, which no cycle can undo.
* `Rv32Isa_proofs` has what the next two share, and no theorem of its own to list.
  A fold over a set (`Value`, `WordOf`) is the value of a recursive function on its
  subsets. Its existence and its uniqueness are proved once (`SumsExist`,
  `SumsUnique`) by looking at a smallest counterexample: finite sets and naturals are
  well-founded, which the library states without an operator for a parameter. It
  follows that the fold does not depend on the order (`TotalAny`), that disjoint sets of
  bits add up (`ValueUnion`), and that words and sets of bits are two names for the same
  thing (`OnesValue`, `ValueOnes`). The rest is the uniqueness of quotient and remainder,
  and powers of two. `PowerAssumption` (2^0 = 1, each next power is twice the last) is
  arithmetic the provers have no theory of.
* `DataLaws_proofs`, for registers of any width, memories and screens of any size, and
  every case: the laws are stated of the variable `case`, and `CasesAssumption` says of
  the set it ranges over only what makes a case one (operands are words, funct7 has 7
  bits, an immediate is one its format can carry). `DecodesAlways`, `AccessesAlways`,
  `OffsetsAlways`, `MulDivAlways`, `OrderAlways` and `ImmediateAlways` prove `DecodesLaw`,
  `AccessLaw`, `OffsetLaw`, `MulDivLaw`, `OrderLaw` and `ImmediateLaw`, `TextsAlwaysArrive`
  and `WordsAlwaysShown` prove `TextLaw` and `WordLaw`, `MemoryAlwaysReturns` proves
  `MemoryLaw` and `FilesAlwaysListed` proves `ElfLaw`.
  For `MulDivLaw`, the high word of a product is that of a number that differs
  from the product by a multiple of the modulus, and the truncated quotient of two
  words is a word but for the overflowing one. For `OrderLaw`, exclusive or with the
  top bit adds half the modulus to the signed value, and with all bits subtracts from
  the largest word. For `ImmediateLaw`, the bits above an immediate sum to
  2^W - 2^ImmBits, a multiple of W, so that shift counts do not see the sign; that is
  `ShiftAssumption`: W is a power of two no longer than an immediate.
  For `TextLaw`, `Checksum` and `Decoded` are folds over sequences, and recursion over
  sequences has solutions for the reason sums have (`FoldsExist`, `FlattensExist`): a
  smallest set or length without one would have one. So there is a run of the receiver
  over the characters (`ReceiveRuns`). The body grows by one escaped character at a time
  (`JoinsGrow`), and after the i-th the receiver is outside an escape and has the first i
  characters of the text (`BodyDecodes`); no `#` is in the body, so the first one ends it
  (`BodyFound`). For `WordLaw`, bits from the second byte on move down when
  bytes are shifted by four, so the largest one would have to come from a larger one.
  For `MemoryLaw`, `MemoryReturns` is the round trip for every start and length of 32
  bits, all bytes and every content of a RAM of any size. `Hexadecimal` is a recursion
  that ends for the reason sums do (`HexadecimalOf`), and the loop that reads it back has
  the number in hand after its last digit, the modulus never met (`HexadecimalRead`). A
  number ends at the first character that is no digit (`NumberParsed`), so start, comma and
  length are found and what follows them is left over (`RangeParsed`); the k-th byte is in the
  digits 2k + 1 and 2k + 2 (`DigitsShape`). A range that fits either buffer is shorter than
  the distance from the end of RAM to the end of the address space, so its end does not
  wrap and granted means inside (`GrantedRange`): that is `RamAssumption`, RAM and buffer
  together no larger than the address space (64 kB and 1024 bytes of 4 GB). The starts and lengths
  are numbers of 32 bits (`CasesAssumption`), which is what the stub's `uint32_t` holds.
  For `ElfLaw`, `FileListed` is about every file whose segments 16 bits can count and whose
  bytes 32 bits can (`FilesAssumption`, the widths of `e_phnum` and of an offset). Where a
  field is and where a segment begins are both sums of the sizes before it (`SizesRuns`),
  and the same sums say where a sequence is among many put one after the other
  (`FlatPlaces`). So each field's bytes are at its offset (`LaidPlaces`), the header of segment
  k at 52 + 32 (k - 1) (`TablePlaces`) and its bytes after all headers (`ElfPlaces`). Two or four
  bytes, put together the way the loader's little-endian host does, are the number they came from
  (`LittleRead`) because every value a header has is no larger than the file, or than its
  largest address (`SegmentFits`); and the loader's struct member is the one of that name
  (`MemberRead`).
  The theorems about memory: granted accesses are inside (`GrantedInside`, with the
  RAM at least a word), everything inside is granted, the fork's bounds are exact
  from three bytes of RAM on, wrap below, and its excess stays in its allocation,
  pixels and debugger chunks stay in their arrays. `StoreThenLoad` runs
  `rv32_store` and `rv32_load` one after the other: bounds, dispatch to RAM or to the
  interrupt controller, and bytes together give back what was stored, and leave alone
  what has no byte in common with it.
* `Lockstep_proofs`, for every width, memory, set of instructions, program and initial
  values. `LockstepTypeCorrect` (`TypeOK`) is inductive: every operation on words gives
  a word, four bytes make one, and granted accesses are inside.
  `ForkAlwaysAgrees` (`ForkAgrees`) is inductive with it: as long as the two machines
  are together and none of the differences of `PartsAt` applies, a granted access is
  granted by both, and the bytes loaded, the results and the bytes stored are equal.
  It needs `Unparted` with it: a machine that is still together with the fork has met
  neither `wfi` nor a csr (`Fresh`), so it is not asleep when the fork goes on.
  `ZeroAlwaysReadsZero` (`ZeroReadsZero`): x0 is cleared before it is read, whatever is in it,
  and the fetch does not look at registers.
  `ImplementsHartAlways` (`ImplementsHart`): the refinement mapping takes a machine to
  its status, its pc in words, its interrupt mask as a set, and each word of its RAM to the
  class of what it decodes to. Each instruction becomes the step of its class, a store in one
  word changes one word of RAM to a word that decodes to something, and a fetch from
  where there is nothing becomes the hart's fetch fault. The csrs of the hart are those of
  the machine, taken apart; a write of any word is one of the hart's, and `mret` copies
  one bit of `mstatus`.

Only model-checked:

* liveness (`SleeperWakes`, `LineZeroServed`, `CommandAnswered`,
  `InterruptRegainsControl`, `WindowCloses`), which needs fairness and ENABLED and is
  out of the prover's reach;
* `ProgramLaw`, which computes what particular programs print and draw, with sums, powers
  of two and sequences of many steps: TLC evaluates them, the provers do not.

## 5. Not modelled

* Rendering (SDL, TFT), text input, the trace functions, the text of messages.
* The Mandelbrot set and line drawing of `menu-fantasy-computer/src/lib.c`,
  the Zig and assembler programs, the instruction tests of `tests` and `my_tests`,
  which test the same operations `Rv32Isa` defines.
* Csr values computed from registers in the interrupt model: a csr instruction of
  `Rv32Hart` writes one of the values its configuration gives it. `Rv32Machine`
  computes them, without interrupts.
* Commands gdb does not send (a `G` or `P` of another length, digits that are none) and
  their `RSP_FATAL` exits, the text of `qSupported`, malformed ELF files.
* The last three of 2^32 addresses in the fork's bound when it wraps.
* Faults on the way from the stub to gdb, a gdb that times out early, the serial
  port's own buffer overflowing.
* What a compiler may do with `asm` statements that declare no operands
  (`stubs.c`, `lib.c`): they are taken to do what they say, in their order.
* `elf.h` beyond the two structures and the flag that `loadelf.c` uses: it is
  the glibc header, mostly constants of other architectures.

## 6. Plan

Done: the hart, its data, the memory, the breakpoint table, the guest's view, the
stub, the sessions on both devices, packets, the fork, the front ends, the guests
and the theorems above. What is left, in order of worth:

1. An abstract debugging session (run, stop, set, clear) that `GdbSession`
   implements.
2. Faults towards gdb in the session.
3. Interrupts in `Rv32Machine`, so that `ImplementsHart` covers the trap too.
