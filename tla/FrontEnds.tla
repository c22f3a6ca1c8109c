----------------------------- MODULE FrontEnds ------------------------------
(***************************************************************************)
(* The programs around the virtual machine, from start to exit: the        *)
(* emulators of src/examples/embedding and of src/examples/c-newlib-nano,  *)
(* the fantasy computer, the set-up of the two Arduino sketches and of     *)
(* the debugger stub (whose loops are GdbSession.tla's), and loadelf.      *)
(*                                                                         *)
(* A start-up is a list of steps, each of which may fail; what a program   *)
(* has opened, allocated or created is held until it is released.  What    *)
(* the guest does is Rv32Hart.tla's, except in the newlib emulator, whose  *)
(* own machine (NewlibRv32.tla) only tells its loop when it fails.         *)
(***************************************************************************)
EXTENDS Rv32Hart, Integers, Sequences

CONSTANTS
  Programs,     \* the programs that are run
  Created,      \* the statuses in which rv32_new leaves the fantasy computer's
                \* machine: PAUSED is what it does today
  ExitValues    \* what a guest may leave in a0

ASSUME FrontEndAssumption ==
  /\ Programs \subseteq {"embedding", "newlib", "fantasy", "pio", "ino", "stub", "loadelf"}
  /\ ExitValues \subseteq 0 .. 255 /\ Created \subseteq {"PAUSED", "RUNNING"}

VARIABLES
  main,         \* the program and where it is
  desktop,      \* the fantasy computer's loop and the user in front of it
  misused       \* the things used or released that were not held

vars == <<hart, mem, main, desktop, misused>>

-----------------------------------------------------------------------------
(* Start-up: the things a step uses, gets and, on success, releases; on      *)
(* failure, those it releases (in turn) and the exit code, or one of these.  *)

GoesOn == -1
Hangs == -2
Never == -3        \* the step cannot fail

S(name, uses, gets, drops, releases, code) ==
  [name |-> name, uses |-> uses, gets |-> gets, drops |-> drops, releases |-> releases, code |-> code]

\* (mutant) the file is closed where the program is found too big, and again
\* at the end
EmulatorClosesTwice ==
  << S("args", {}, {}, {}, <<>>, 1), S("open", {}, {"file"}, {}, <<>>, 1),
     S("malloc", {}, {"memory"}, {}, <<>>, 1), S("size", {"file", "memory"}, {}, {}, <<"file">>, GoesOn),
     S("read", {"file", "memory"}, {}, {}, <<"file", "memory">>, 1), S("close", {}, {}, {"file"}, <<>>, Never) >>

\* src/examples/embedding/emulator.c
EmulatorStart ==
  << S("args", {}, {}, {}, <<>>, 1),
     S("open", {}, {"file"}, {}, <<>>, 1),
     S("malloc", {}, {"memory"}, {}, <<>>, 1),
     S("size", {"file", "memory"}, {}, {}, <<"file", "memory">>, 1),
     S("read", {"file", "memory"}, {}, {}, <<"file", "memory">>, 1),
     S("close", {}, {}, {"file"}, <<>>, Never) >>

\* src/examples/c-newlib-nano/emulator.c: a program too big is only reported,
\* and so is one that cannot be read, whose file is closed twice.  rv32_new has
\* written to the memory before the check.
NewlibStart ==
  << S("args", {}, {}, {}, <<>>, 1),
     S("open", {}, {"file"}, {}, <<>>, 1),
     S("malloc", {}, {"memory"}, {}, <<>>, 1),
     S("size", {"file"}, {}, {}, <<>>, GoesOn),
     S("read", {"file", "memory"}, {}, {}, <<"file">>, GoesOn),
     S("close", {}, {}, {"file"}, <<>>, Never) >>

\* src/examples/fantasy-computer/src/main.c: the labels cleanup4 to cleanup1
\* release what was created before the jump, last first.
FantasyStart ==
  << S("args", {}, {}, {}, <<>>, 1),
     S("malloc", {}, {"memory"}, {}, <<>>, 1),
     S("open", {}, {"file"}, {}, <<>>, 0),
     S("size", {"file"}, {}, {}, <<"memory", "file">>, 0),
     S("read", {"file", "memory"}, {}, {"file"}, <<"file", "memory">>, 0),
     S("sdl", {}, {"sdl"}, {}, <<>>, 1),
     S("window", {"sdl"}, {"window"}, {}, <<"sdl", "memory">>, 1),
     S("renderer", {"window"}, {"renderer"}, {}, <<"window", "sdl", "memory">>, 1),
     S("texture", {"renderer"}, {"texture"}, {}, <<"renderer", "window", "sdl", "memory">>, 1),
     S("pixels", {"texture"}, {"pixels"}, {}, <<"texture", "renderer", "window", "sdl", "memory">>, 1) >>

\* src/examples/arduino: an endless loop is all there is to do.
PioStart == << S("pixels", {}, {"pixels"}, {}, <<>>, Hangs), S("malloc", {}, {"memory"}, {}, <<>>, Hangs) >>
InoStart == << S("malloc", {}, {"memory"}, {}, <<>>, Hangs) >>

\* src/gdb_stub/main.c
StubStart == << S("malloc", {}, {"memory"}, {}, <<>>, 1) >>

\* src/elf/loadelf.c: a file that did not open is read all the same, into
\* memory it may not have.
LoadElfStart ==
  << S("args", {}, {}, {}, <<>>, 1),
     S("open", {}, {"file"}, {}, <<>>, GoesOn),
     S("malloc", {"file"}, {"memory"}, {}, <<>>, GoesOn),
     S("close", {"memory"}, {}, {"file"}, <<>>, Never) >>

StartOf(program) ==
  CASE program = "embedding" -> EmulatorStart [] program = "newlib" -> NewlibStart
    [] program = "fantasy" -> FantasyStart [] program = "pio" -> PioStart [] program = "ino" -> InoStart
    [] program = "stub" -> StubStart [] program = "loadelf" -> LoadElfStart

-----------------------------------------------------------------------------

\* step counts through the start-up; code is GoesOn until there is an exit code.
Init ==
  /\ \E p \in Programs :
       /\ main = [program |-> p, step |-> 1, code |-> GoesOn, held |-> {}, failed |-> {}]
       /\ hart \in {[NewHart EXCEPT !.status = s] : s \in IF p = "fantasy" THEN Created ELSE {"PAUSED"}}
  /\ mem \in [Ram -> GuestInstr]
  /\ desktop = [phase |-> "events", closing |-> FALSE, quit |-> FALSE]
  /\ misused = {}

Starting == main.code = GoesOn /\ main.step <= Len(StartOf(main.program))
Running(program) ==
  main.code = GoesOn /\ main.program = program /\ main.step > Len(StartOf(main.program))

\* Releasing the things of a list one after the other: what is left, and what
\* was not there to be released.
Left(held, list) == held \ {list[i] : i \in DOMAIN list}
NotThere(held, list) ==
  {list[i] : i \in {k \in DOMAIN list : list[k] \notin Left(held, SubSeq(list, 1, k - 1))}}

\* Reading a program that is too big fills more than RAM.
Overrun(s) == IF s.name = "read" /\ "size" \in main.failed THEN {"ram"} ELSE {}

\* The fork's rv32_new sets mem_size in what calloc has not returned.
Unchecked(s) == IF main.program = "newlib" /\ s.name = "malloc" THEN {"memory"} ELSE {}

StepSucceeds ==
  /\ Starting
  /\ LET s == StartOf(main.program)[main.step] IN
     /\ main' = [main EXCEPT !.step = @ + 1, !.held = (@ \cup s.gets) \ s.drops]
     /\ misused' = misused \cup ((s.uses \cup s.drops) \ main.held) \cup Overrun(s)
  /\ UNCHANGED <<hart, mem, desktop>>

StepFails ==
  /\ Starting
  /\ LET s == StartOf(main.program)[main.step] IN
     /\ s.code # Never
     /\ main' = [main EXCEPT !.step = @ + 1, !.failed = @ \cup {s.name},
                             !.held = Left(@, s.releases), !.code = s.code]
     /\ misused' = misused \cup (s.uses \ main.held) \cup NotThere(main.held, s.releases)
                     \cup Overrun(s) \cup Unchecked(s)
  /\ UNCHANGED <<hart, mem, desktop>>

\* The end of main(): the releases in their order, and the exit code.
End(list, code) ==
  /\ main' = [main EXCEPT !.held = Left(@, list), !.code = code]
  /\ misused' = misused \cup NotThere(main.held, list)

-----------------------------------------------------------------------------
(* src/examples/embedding/emulator.c *)

\* The message about a fault prints the word at mem[pc], which a fetch beyond
\* RAM has just missed.
Diagnosed(h) ==
  IF h.status \in {"INVALID_INSTRUCTION", "INVALID_MEMORY_ACCESS", "PAUSED"} /\ h.pc \notin Ram
  THEN {"beyond"} ELSE {}

\* rv32->status = RV32_RUNNING, before the loop.
EmulatorResumes ==
  /\ Running("embedding") /\ hart.status = "PAUSED"
  /\ hart' = [hart EXCEPT !.status = "RUNNING"]
  /\ UNCHANGED <<mem, main, desktop, misused>>

EmulatorCycles ==
  /\ Running("embedding") /\ hart.status = "RUNNING"
  /\ rv32_cycle
  /\ misused' = misused \cup Diagnosed(hart')
  /\ UNCHANGED <<main, desktop>>

\* (mutant) whatever stops the guest, its a0 is the exit code
EmulatorEndsWithA0 ==
  /\ Running("embedding") /\ hart.status \notin {"PAUSED", "RUNNING"}
  /\ \E a0 \in ExitValues : End(<<"memory">>, a0)
  /\ UNCHANGED <<hart, mem, desktop>>

\* The exit code is the guest's if it exited, 1 if anything else stopped it.
EmulatorEnds ==
  /\ Running("embedding") /\ hart.status \notin {"PAUSED", "RUNNING"}
  /\ \E a0 \in ExitValues : End(<<"memory">>, IF hart.status = "HALTED" THEN a0 ELSE 1)
  /\ UNCHANGED <<hart, mem, desktop>>

-----------------------------------------------------------------------------
(* src/examples/c-newlib-nano/emulator.c: the loop ends at the first failure *)
(* of rv32_cycle and not otherwise, and the exit code is 0.  Its message      *)
(* prints the word at mem[pc] too.                                           *)

NewlibEnds ==
  /\ Running("newlib")
  /\ \E missed \in {{}, {"beyond"}} :
       misused' = misused \cup NotThere(main.held, <<"memory">>) \cup missed
  /\ main' = [main EXCEPT !.held = Left(@, <<"memory">>), !.code = 0]
  /\ UNCHANGED <<hart, mem, desktop>>

-----------------------------------------------------------------------------
(* src/examples/fantasy-computer/src/main.c *)

\* Nothing here resumes the machine: main.c was written for a header whose rv32_new
\* left it running, and with the present one it ends in its first frame.

\* The user closes the window, or presses a key.
CloseWindow ==
  /\ Running("fantasy") /\ ~desktop.closing /\ ~desktop.quit
  /\ desktop' = [desktop EXCEPT !.closing = TRUE]
  /\ UNCHANGED <<hart, mem, main, misused>>

\* CSR_SET_BIT(rv32->mip, CSR_MIP_MEIP, 1): no line becomes pending.
PollKey ==
  /\ Running("fantasy") /\ desktop.phase = "events"
  /\ hart' = [hart EXCEPT !.mip = @ \cup {"MEI"}]
  /\ UNCHANGED <<mem, main, desktop, misused>>

PollQuit ==
  /\ Running("fantasy") /\ desktop.phase = "events" /\ desktop.closing
  /\ desktop' = [desktop EXCEPT !.closing = FALSE, !.quit = TRUE]
  /\ UNCHANGED <<hart, mem, main, misused>>

\* The queue is empty: the frame is drawn, and the machine runs for the rest of
\* its sixtieth of a second.
Draw ==
  /\ Running("fantasy") /\ desktop.phase = "events" /\ ~desktop.closing
  /\ desktop' = [desktop EXCEPT !.phase = "cycles"]
  /\ UNCHANGED <<hart, mem, main, misused>>

Stopped(status) == status \notin {"RUNNING", "EBREAK"}

\* (mutant) closing the window ends the frame, not the program
CycleForgetsQuit ==
  /\ Running("fantasy") /\ desktop.phase = "cycles" /\ rv32_cycle
  /\ desktop' = [desktop EXCEPT !.phase = IF Stopped(hart'.status) THEN "over" ELSE "events", !.quit = FALSE]
  /\ misused' = misused \cup Diagnosed(hart')
  /\ UNCHANGED main

\* One cycle of the machine, and on with the frame,
CycleInFrame ==
  /\ Running("fantasy") /\ desktop.phase = "cycles" /\ rv32_cycle
  /\ ~Stopped(hart'.status) /\ ~desktop.quit
  /\ UNCHANGED <<main, desktop, misused>>

\* or to the next one, or out.  Exit, faults and a paused machine end the
\* program, ebreak does not.
CycleEndsFrame ==
  /\ Running("fantasy") /\ desktop.phase = "cycles" /\ rv32_cycle
  /\ LET quit == desktop.quit \/ Stopped(hart'.status) IN
     desktop' = [desktop EXCEPT !.phase = IF quit THEN "over" ELSE "events", !.quit = quit]
  /\ misused' = misused \cup Diagnosed(hart')
  /\ UNCHANGED main

\* free(pixels), the labels cleanup4 to cleanup1, return res.
FantasyEnds ==
  /\ Running("fantasy") /\ desktop.phase = "over"
  /\ End(<<"pixels", "texture", "renderer", "window", "sdl", "memory">>, 0)
  /\ UNCHANGED <<hart, mem, desktop>>

Fantasy ==
  \/ CloseWindow \/ PollKey \/ PollQuit \/ Draw
  \/ CycleInFrame \/ CycleEndsFrame \/ FantasyEnds

-----------------------------------------------------------------------------

\* loadelf has printed the segments, or the debugger has closed the link: what
\* is still allocated is left to the system.
OthersEnd ==
  /\ Running("loadelf") \/ Running("stub")
  /\ End(<<>>, 0)
  /\ UNCHANGED <<hart, mem, desktop>>

Next ==
  \/ StepSucceeds \/ StepFails
  \/ EmulatorResumes \/ EmulatorCycles \/ EmulatorEnds
  \/ NewlibEnds
  \/ Fantasy
  \/ OthersEnd

\* The queue of events is read to its end (SDL_PollEvent takes the oldest
\* first), and a frame is over when its time is.
Spec ==
  /\ Init /\ [][Next]_vars
  /\ WF_vars(PollQuit) /\ WF_vars(Draw) /\ WF_vars(CycleEndsFrame) /\ WF_vars(FantasyEnds)

-----------------------------------------------------------------------------

Ended == main.code >= 0

\* No path through a program uses or releases what it does not hold, whichever
\* steps fail, with these exceptions: the newlib emulator uses the memory it did
\* not get, closes a file it could not read twice and reads one that is too big;
\* loadelf goes on without the file and the memory it did not get; the message
\* about a fetch beyond RAM reads there too.
UsesWhatItHolds ==
  /\ "file" \in misused =>
       \/ main.program = "newlib" /\ "read" \in main.failed
       \/ main.program = "loadelf" /\ "open" \in main.failed
  /\ "memory" \in misused => main.program \in {"newlib", "loadelf"} /\ "malloc" \in main.failed
  /\ "ram" \in misused => main.program = "newlib" /\ "size" \in main.failed
  /\ "beyond" \in misused =>
       main.program = "newlib" \/ (main.program \in {"embedding", "fantasy"} /\ hart.pc \notin Ram)
  /\ misused \subseteq {"file", "memory", "ram", "beyond"}

\* A program that ends has released what it held, but for the file of an
\* emulator without memory, and the memory of a fantasy computer without its
\* file or without SDL.  The exit code of the embedding emulator is 0 only if
\* its guest has exited; the other two can say 0 after a failure.  A fantasy
\* computer that ends with its machine paused has not executed anything.
EndsClean ==
  Ended =>
    /\ main.held \subseteq
         CASE main.program \in {"embedding", "newlib"} -> IF "malloc" \in main.failed THEN {"file"} ELSE {}
           [] main.program = "fantasy" -> IF main.failed \cap {"open", "sdl"} # {} THEN {"memory"} ELSE {}
           [] OTHER -> {"memory"}
    /\ main.program = "embedding" /\ main.code = 0 => main.failed = {} /\ hart.status = "HALTED"
    /\ main.program = "fantasy" /\ main.code = 0 => main.failed \subseteq {"open", "size", "read"}
    /\ main.program = "fantasy" /\ hart.status = "PAUSED" => hart = [NewHart EXCEPT !.mip = hart.mip]
    /\ main.program = "newlib" /\ main.code = 0 => main.failed \subseteq {"size", "read"}

\* "trigger an interrupt", says main.c of the statement it executes for a key.
\* So a guest that lets external interrupts in has taken one by the end of the
\* frame the key came in.  The statement raises mip.MEI and no line, which is
\* what rv32_claim_irq looks for: the property is false.
KeyTriggersInterrupt ==
  [][/\ main.program = "fantasy"
     /\ desktop.phase = "cycles" /\ desktop'.phase # "cycles"
     /\ "MIE" \in hart.mstatus /\ hart.mie \cap hart.mip = {"MEI"} /\ hart.ie # {}
     => hart'.mcause >= 16]_vars

\* What becomes of it: a guest that executes wfi, to wait for a key say, sleeps
\* for ever.  No front end raises a line, and the fantasy computer's mip.MEI is
\* never claimed.  The embedding emulator sleeps with its guest.
SleepsForEver ==
  [][hart.wfi => hart'.wfi /\ (main.program = "embedding" => main' = main)]_vars

\* The fantasy computer's window can be closed, whatever its guest does:
\* asleep, in an endless loop, or stopped at an ebreak.
WindowCloses == desktop.closing ~> Ended
=============================================================================
