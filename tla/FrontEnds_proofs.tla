--------------------------- MODULE FrontEnds_proofs --------------------------
(***************************************************************************)
(* Two results about the programs of FrontEnds.tla, for every guest, RAM   *)
(* size and address space.                                                 *)
(*                                                                         *)
(* A guest that sleeps sleeps for ever.  The program raises no line, so no *)
(* external interrupt is ever claimed; and a hart falls asleep in a cycle  *)
(* that has taken every other interrupt it could take, after which only a  *)
(* key press changes what is pending.                                      *)
(*                                                                         *)
(* No program uses what it does not hold or ends without releasing it, but *)
(* for the named exceptions: Books says what each program holds at each    *)
(* step of its start-up, after each set of failures it survives.           *)
(***************************************************************************)
EXTENDS FrontEnds, Rv32Hart_proofs

-----------------------------------------------------------------------------
(* One cycle of a hart no line of which is pending *)

\* Neither a software nor a timer interrupt would be taken.
Deaf(h) == "MIE" \in h.mstatus => h.mie \cap h.mip \notin {{"MSI"}, {"MTI"}}

LEMMA InterruptDeaf ==
  ASSUME NEW h \in Hart, h.ip = {}, NEW o \in rv32_handle_interrupt(h)
  PROVE  /\ o \in Hart /\ o.ip = {} /\ o.status = h.status
         /\ Deaf(o)
         /\ Deaf(h) => o = h
<1>1. ~Claimable(h)
  BY DEF Claimable
<1>2. CASE Deaf(h)
  <2>1. o = h
    BY <1>1, <1>2 DEF Deaf, rv32_handle_interrupt
  <2> QED
    BY <1>2, <2>1
<1>3. CASE ~Deaf(h)
  <2>1. PICK cause \in {3, 7} : o = EnterTrap(h, cause)
    BY <1>1, <1>3 DEF Deaf, rv32_handle_interrupt
  <2>2. o.mstatus = {"MPIE"} /\ o.ip = h.ip /\ o.status = h.status
    BY <2>1 DEF EnterTrap, Hart
  <2> QED
    BY <1>3, <2>2, InterruptType DEF Deaf
<1> QED
  BY <1>2, <1>3

\* wfi is the only instruction after which the hart sleeps.
LEMMA ExecuteSleeps ==
  ASSUME NEW h \in Hart, ~h.wfi, NEW i, Execute(h, i), hart'.wfi
  PROVE  /\ hart'.mstatus = h.mstatus /\ hart'.mie = h.mie /\ hart'.mip = h.mip
         /\ hart'.status = h.status
<1> USE DEF Hart, Step, Stop
<1>1. CASE ExecReg(h) \/ ExecLoad(h) \/ ExecStore(h)
  BY <1>1 DEF ExecReg, ExecLoad, ExecStore, StoreRam, StoreIe, StoreConsole, StoreFault
<1>2. CASE ExecBranch(h) \/ ExecJump(h) \/ ExecEcall(h) \/ ExecEbreak(h)
  BY <1>2 DEF ExecBranch, ExecJump, ExecEcall, ExecEbreak
<1>3. CASE ExecMret(h) \/ ExecWfi(h) \/ ExecIllegal(h)
  BY <1>3 DEF ExecMret, ExecWfi, ExecIllegal
<1>4. CASE ExecCsr(h)
  BY <1>4 DEF ExecCsr, rv32_write_csr
<1> QED
  BY <1>1, <1>2, <1>3, <1>4 DEF Execute

\* What is known of the hart: it never has a pending line, and asleep it is deaf.
Unheard(h) == h.ip = {} /\ (h.wfi => Deaf(h))

LEMMA CycleUnheard ==
  ASSUME WellTyped, Unheard(hart), rv32_cycle
  PROVE  /\ Unheard(hart')
         /\ hart.wfi => hart' = hart
         /\ hart'.wfi => hart'.status = hart.status
<1> USE DEF WellTyped
<1>1. PICK h \in rv32_handle_interrupt(hart) :
        Asleep(h) \/ NotRunning(h) \/ BreakpointHit(h) \/ FetchFault(h) \/ FetchAndExecute(h)
  BY DEF rv32_cycle
<1>2. /\ h \in Hart /\ h.ip = {} /\ h.status = hart.status /\ Deaf(h)
      /\ hart.wfi => h = hart
  BY InterruptDeaf DEF Unheard
<1>3. CASE Asleep(h) \/ NotRunning(h)
  BY <1>2, <1>3 DEF Asleep, NotRunning, Unheard
<1>4. CASE BreakpointHit(h) \/ FetchFault(h)
  BY <1>2, <1>4 DEF BreakpointHit, FetchFault, Active, Stop, Hart, Unheard
<1>5. CASE FetchAndExecute(h)
  <2>1. PICK i : Execute(h, i)
    BY <1>5 DEF FetchAndExecute
  <2>2. ~h.wfi
    BY <1>5 DEF FetchAndExecute, Active
  <2>3. hart'.ip = {}
    BY <1>2, <2>1, ExecuteLeaves DEF Untouched
  <2>4. ASSUME hart'.wfi PROVE Deaf(hart') /\ hart'.status = h.status
    BY <1>2, <2>1, <2>2, <2>4, ExecuteSleeps DEF Deaf
  <2> QED
    BY <1>2, <2>2, <2>3, <2>4 DEF Unheard
<1> QED
  BY <1>1, <1>3, <1>4, <1>5

-----------------------------------------------------------------------------
(* The inductive invariant *)

\* main is a record of these fields.
MainRecord ==
  main = [program |-> main.program, step |-> main.step, code |-> main.code,
          held |-> main.held, failed |-> main.failed]

LEMMA EmulatorSteps == Len(StartOf("embedding")) = 6
  BY DEF StartOf, EmulatorStart

\* While its guest sleeps, the embedding emulator is in its loop.
InLoop == main.step > 6 /\ hart.status = "RUNNING"

Inv ==
  /\ WellTyped
  /\ Unheard(hart)
  /\ MainRecord /\ main.step \in Nat
  /\ main.program = "embedding" /\ hart.wfi => InLoop

LEMMA InitInv == Init => Inv
<1> SUFFICES ASSUME Init PROVE Inv
  OBVIOUS
<1>1. PICK p \in Programs :
        /\ main = [program |-> p, step |-> 1, code |-> GoesOn, held |-> {}, failed |-> {}]
        /\ hart \in {[NewHart EXCEPT !.status = s] : s \in IF p = "fantasy" THEN Created ELSE {"PAUSED"}}
  BY DEF Init
<1>2. PICK s \in Status : hart = [NewHart EXCEPT !.status = s]
  BY <1>1, FrontEndAssumption DEF Status
<1>3. hart \in Hart /\ hart.ip = {} /\ hart.wfi = FALSE
  <2>1. hart \in Hart
    BY <1>2, NewHartType DEF Hart
  <2> QED
    BY <1>2, <2>1 DEF NewHart
<1>4. mem \in [Ram -> Instr]
  BY GuestAssumption DEF Init
<1>5. MainRecord /\ main.step \in Nat
  BY <1>1 DEF MainRecord
<1> QED
  BY <1>3, <1>4, <1>5 DEF Inv, WellTyped, Unheard

\* The steps that leave the hart alone.
OfMain ==
  \/ StepSucceeds \/ StepFails \/ EmulatorEnds \/ NewlibEnds
  \/ CloseWindow \/ PollQuit \/ Draw \/ FantasyEnds \/ OthersEnd

OfCycle == EmulatorCycles \/ CycleInFrame \/ CycleEndsFrame

LEMMA NextCases ==
  ASSUME Next PROVE OfMain \/ OfCycle \/ EmulatorResumes \/ PollKey
  BY DEF Next, Fantasy, OfMain, OfCycle

LEMMA MainSteps ==
  ASSUME Inv, OfMain
  PROVE  /\ hart' = hart /\ mem' = mem
         /\ MainRecord' /\ main'.step \in Nat
         /\ main'.program = main.program
         /\ main.program = "embedding" /\ hart.wfi => main' = main
<1>1. hart' = hart /\ mem' = mem
  BY DEF OfMain, StepSucceeds, StepFails, EmulatorEnds, NewlibEnds, CloseWindow, PollQuit,
         Draw, FantasyEnds, OthersEnd
<1>2. MainRecord /\ main.step \in Nat
  BY DEF Inv
<1>3. CASE StepSucceeds \/ StepFails
  <2>1. main.step <= Len(StartOf(main.program))
    BY <1>3 DEF StepSucceeds, StepFails, Starting
  <2>2. ASSUME main.program = "embedding", hart.wfi PROVE FALSE
    <3>1. main.step <= 6
      BY <2>1, <2>2, EmulatorSteps
    <3>2. main.step > 6
      BY <2>2 DEF Inv, InLoop
    <3> QED
      BY <1>2, <3>1, <3>2
  <2>3. \E held, failed, code :
          main' = [program |-> main.program, step |-> main.step + 1, code |-> code,
                   held |-> held, failed |-> failed]
    <3>1. CASE StepSucceeds
      <4>1. PICK held : main' = [main EXCEPT !.step = @ + 1, !.held = held]
        BY <3>1 DEF StepSucceeds
      <4> QED
        BY <1>2, <4>1 DEF MainRecord
    <3>2. CASE StepFails
      <4>1. PICK held, failed, code :
              main' = [main EXCEPT !.step = @ + 1, !.failed = failed, !.held = held, !.code = code]
        BY <3>2 DEF StepFails
      <4> QED
        BY <1>2, <4>1 DEF MainRecord
    <3> QED
      BY <1>3, <3>1, <3>2
  <2> QED
    BY <1>1, <1>2, <2>2, <2>3 DEF MainRecord
<1>4. CASE EmulatorEnds \/ FantasyEnds \/ NewlibEnds \/ OthersEnd
  <2>1. PICK held, code : main' = [main EXCEPT !.held = held, !.code = code]
    BY <1>4 DEF EmulatorEnds, FantasyEnds, NewlibEnds, OthersEnd, End
  <2>2. ~(main.program = "embedding" /\ hart.wfi)
    BY <1>4 DEF EmulatorEnds, FantasyEnds, NewlibEnds, OthersEnd, Running, Inv, InLoop
  <2> QED
    BY <1>1, <1>2, <2>1, <2>2 DEF MainRecord
<1>5. CASE CloseWindow \/ PollQuit \/ Draw
  BY <1>1, <1>2, <1>5 DEF CloseWindow, PollQuit, Draw, MainRecord
<1> QED
  BY <1>3, <1>4, <1>5 DEF OfMain

LEMMA NextInv == ASSUME Inv, Next PROVE Inv'
<1>1. WellTyped /\ Unheard(hart) /\ MainRecord /\ main.step \in Nat
  BY DEF Inv
<1>2. CASE OfMain
  <2>1. /\ hart' = hart /\ mem' = mem /\ MainRecord' /\ main'.step \in Nat
        /\ main'.program = main.program
        /\ main.program = "embedding" /\ hart.wfi => main' = main
    BY <1>2, MainSteps
  <2> QED
    BY <1>1, <2>1 DEF Inv, InLoop, WellTyped
<1>3. CASE OfCycle
  <2>1. rv32_cycle /\ main' = main
    BY <1>3 DEF OfCycle, EmulatorCycles, CycleInFrame, CycleEndsFrame
  <2>2. WellTyped' /\ Unheard(hart')
    BY <1>1, <2>1, HartCycleType, CycleUnheard
  <2>3. ASSUME main.program = "embedding", hart'.wfi PROVE InLoop'
    <3>1. EmulatorCycles
      BY <1>3, <2>3 DEF OfCycle, CycleInFrame, CycleEndsFrame, Running
    <3>2. main.step > 6 /\ hart.status = "RUNNING"
      BY <2>3, <3>1, EmulatorSteps DEF EmulatorCycles, Running
    <3> QED
      BY <1>1, <2>1, <2>3, <3>2, CycleUnheard DEF InLoop
  <2> QED
    BY <1>1, <2>1, <2>2, <2>3 DEF Inv, MainRecord
<1>4. CASE EmulatorResumes
  <2>1. hart' = [hart EXCEPT !.status = "RUNNING"] /\ mem' = mem /\ main' = main
    BY <1>4 DEF EmulatorResumes
  <2>2. WellTyped' /\ Unheard(hart') /\ hart'.wfi = hart.wfi /\ hart'.status = "RUNNING"
    BY <1>1, <2>1 DEF WellTyped, Hart, Status, Unheard, Deaf
  <2> QED
    BY <1>1, <2>1, <2>2 DEF Inv, InLoop, MainRecord
<1>5. CASE PollKey
  <2>1. hart' = [hart EXCEPT !.mip = @ \cup {"MEI"}] /\ mem' = mem /\ main' = main
    BY <1>5 DEF PollKey
  <2>2. WellTyped' /\ hart'.mip = hart.mip \cup {"MEI"}
    BY <1>1, <2>1 DEF WellTyped, Hart, IntrBit
  <2>3. /\ hart'.wfi = hart.wfi /\ hart'.ip = hart.ip /\ hart'.mie = hart.mie
        /\ hart'.mstatus = hart.mstatus /\ hart'.status = hart.status
    BY <1>1, <2>1 DEF WellTyped, Hart
  <2>4. Deaf(hart) => Deaf(hart')
    BY <2>2, <2>3 DEF Deaf
  <2> QED
    BY <1>1, <2>1, <2>2, <2>3, <2>4 DEF Inv, InLoop, MainRecord, Unheard
<1> QED
  BY <1>2, <1>3, <1>4, <1>5, NextCases

LEMMA NextSleeps ==
  ASSUME Inv, Next, hart.wfi
  PROVE  hart'.wfi /\ (main.program = "embedding" => main' = main)
<1>1. WellTyped /\ Unheard(hart)
  BY DEF Inv
<1>2. CASE OfMain
  BY <1>2, MainSteps
<1>3. CASE OfCycle
  BY <1>1, <1>3, CycleUnheard DEF OfCycle, EmulatorCycles, CycleInFrame, CycleEndsFrame
<1>4. CASE EmulatorResumes
  BY <1>1, <1>4 DEF EmulatorResumes, WellTyped, Hart
<1>5. CASE PollKey
  BY <1>1, <1>5 DEF PollKey, WellTyped, Hart, Running
<1> QED
  BY <1>2, <1>3, <1>4, <1>5, NextCases

\* Under every front end modelled, a guest that executes wfi never wakes, and
\* the embedding emulator never leaves its loop.  The key that main.c:111 means
\* to trigger an interrupt with does not wake it either (KeyTriggersInterrupt).
THEOREM SleepNeverEnds == Spec => SleepsForEver
<1>1. Inv /\ [Next]_vars => Inv'
  <2>1. ASSUME Inv, UNCHANGED vars PROVE Inv'
    BY <2>1 DEF Inv, vars, WellTyped, Unheard, Deaf, MainRecord, InLoop
  <2> QED
    BY <2>1, NextInv
<1>2. Inv /\ [Next]_vars =>
        [hart.wfi => hart'.wfi /\ (main.program = "embedding" => main' = main)]_vars
  BY NextSleeps
<1> QED
  BY InitInv, <1>1, <1>2, PTL DEF Spec, SleepsForEver

-----------------------------------------------------------------------------
(* What a program holds before each step of its start-up, and after the last *)

Thing == {"file", "memory", "sdl", "window", "renderer", "texture", "pixels"}

\* When every step has succeeded.
EmulatorHeld ==
  << {}, {}, {"file"}, {"file", "memory"}, {"file", "memory"}, {"file", "memory"}, {"memory"} >>
FantasyHeld ==
  << {}, {}, {"memory"}, {"file", "memory"}, {"file", "memory"}, {"memory"}, {"sdl", "memory"},
     {"window", "sdl", "memory"}, {"renderer", "window", "sdl", "memory"},
     {"texture", "renderer", "window", "sdl", "memory"},
     {"pixels", "texture", "renderer", "window", "sdl", "memory"} >>
PioHeld == << {}, {"pixels"}, {"pixels", "memory"} >>
InoHeld == << {}, {"memory"} >>
LoadElfHeld == << {}, {}, {"file"}, {"file", "memory"}, {"memory"} >>

HeldOf(program) ==
  CASE program \in {"embedding", "newlib"} -> EmulatorHeld
    [] program = "fantasy" -> FantasyHeld
    [] program = "pio" -> PioHeld
    [] program \in {"ino", "stub"} -> InoHeld
    [] program = "loadelf" -> LoadElfHeld

\* The list names the things of T, each once.
Names(list, T) ==
  /\ list \in Seq(Thing)
  /\ T = {list[i] : i \in DOMAIN list}
  /\ \A i, j \in DOMAIN list : list[i] = list[j] => i = j

\* If they are held, they are released.
LEMMA ReleasesHeld ==
  ASSUME NEW list, NEW T, Names(list, T), NEW held, T \subseteq held
  PROVE  NotThere(held, list) = {} /\ Left(held, list) = held \ T
<1>1. DOMAIN list = 1 .. Len(list) /\ Len(list) \in Nat
  BY DEF Names
<1>2. ASSUME NEW k \in DOMAIN list
      PROVE  list[k] \in Left(held, SubSeq(list, 1, k - 1))
  <2> DEFINE before == SubSeq(list, 1, k - 1)
  <2>1. \A i \in DOMAIN before : i \in DOMAIN list /\ i # k /\ before[i] = list[i]
    BY <1>1 DEF Names
  <2>2. \A i \in DOMAIN before : list[k] # before[i]
    BY <2>1 DEF Names
  <2> HIDE DEF before
  <2>3. list[k] \in Left(held, before)
    BY <2>2 DEF Left, Names
  <2> QED
    BY <2>3 DEF before
<1>3. NotThere(held, list) = {}
  BY <1>2 DEF NotThere
<1>4. Left(held, list) = held \ T
  BY DEF Left, Names
<1> QED
  BY <1>3, <1>4

LEMMA Lists ==
  /\ Names(<<>>, {}) /\ Names(<<"file">>, {"file"}) /\ Names(<<"memory">>, {"memory"})
  /\ Names(<<"file", "memory">>, {"file", "memory"})
  /\ Names(<<"memory", "file">>, {"file", "memory"})
  /\ Names(<<"sdl", "memory">>, {"sdl", "memory"})
  /\ Names(<<"window", "sdl", "memory">>, {"window", "sdl", "memory"})
  /\ Names(<<"renderer", "window", "sdl", "memory">>, {"renderer", "window", "sdl", "memory"})
  /\ Names(<<"texture", "renderer", "window", "sdl", "memory">>,
           {"texture", "renderer", "window", "sdl", "memory"})
  /\ Names(<<"pixels", "texture", "renderer", "window", "sdl", "memory">>,
           {"pixels", "texture", "renderer", "window", "sdl", "memory"})
<1>1. Names(<<>>, {}) /\ Names(<<"file">>, {"file"}) /\ Names(<<"memory">>, {"memory"})
  BY DEF Names, Thing
<1>2. /\ Names(<<"file", "memory">>, {"file", "memory"})
      /\ Names(<<"memory", "file">>, {"file", "memory"})
      /\ Names(<<"sdl", "memory">>, {"sdl", "memory"})
  BY DEF Names, Thing
<1>3. Names(<<"window", "sdl", "memory">>, {"window", "sdl", "memory"})
  BY DEF Names, Thing
<1>4. Names(<<"renderer", "window", "sdl", "memory">>, {"renderer", "window", "sdl", "memory"})
  BY DEF Names, Thing
<1>5. Names(<<"texture", "renderer", "window", "sdl", "memory">>,
            {"texture", "renderer", "window", "sdl", "memory"})
  BY DEF Names, Thing
<1>6. Names(<<"pixels", "texture", "renderer", "window", "sdl", "memory">>,
            {"pixels", "texture", "renderer", "window", "sdl", "memory"})
  BY DEF Names, Thing
<1> QED
  BY <1>1, <1>2, <1>3, <1>4, <1>5, <1>6

\* What may be left when a program ends, and with which code.
EndsAs(program, failed, held, code) ==
  /\ held \subseteq
       CASE program \in {"embedding", "newlib"} -> IF "malloc" \in failed THEN {"file"} ELSE {}
         [] program = "fantasy" -> IF failed \cap {"open", "sdl"} # {} THEN {"memory"} ELSE {}
         [] OTHER -> {"memory"}
  /\ program = "embedding" => code # 0
  /\ program = "fantasy" /\ code = 0 => failed \subseteq {"open", "size", "read"}
  /\ program = "newlib" /\ code = 0 => failed \subseteq {"size", "read"}

\* Step s of the program uses what is held, leaves what the table says, and if
\* it may fail ends the program in order.
Sound(s, held, next, program) ==
  /\ s.uses \cup s.drops \subseteq held
  /\ next = (held \cup s.gets) \ s.drops
  /\ s.code # Never =>
       /\ s.code \in {0, 1, Hangs}
       /\ NotThere(held, s.releases) = {}
       /\ s.code # Hangs => EndsAs(program, {s.name}, Left(held, s.releases), s.code)

SoundStart(p) == \A k \in 1 .. Len(StartOf(p)) : Sound(StartOf(p)[k], HeldOf(p)[k], HeldOf(p)[k + 1], p)

\* The releases the programs make, each of all that is held.
AllGo(held, list) == NotThere(held, list) = {} /\ Left(held, list) = {}

LEMMA Releases ==
  /\ \A held : NotThere(held, <<>>) = {} /\ Left(held, <<>>) = held
  /\ AllGo({"file", "memory"}, <<"file", "memory">>) /\ AllGo({"file", "memory"}, <<"memory", "file">>)
  /\ AllGo({"memory"}, <<"memory">>)
  /\ AllGo({"sdl", "memory"}, <<"sdl", "memory">>)
  /\ AllGo({"window", "sdl", "memory"}, <<"window", "sdl", "memory">>)
  /\ AllGo({"renderer", "window", "sdl", "memory"}, <<"renderer", "window", "sdl", "memory">>)
  /\ AllGo({"texture", "renderer", "window", "sdl", "memory"},
           <<"texture", "renderer", "window", "sdl", "memory">>)
  /\ AllGo({"pixels", "texture", "renderer", "window", "sdl", "memory"},
           <<"pixels", "texture", "renderer", "window", "sdl", "memory">>)
<1>1. ASSUME NEW list, NEW T, Names(list, T) PROVE AllGo(T, list)
  <2>1. T \subseteq T /\ T \ T = {}
    OBVIOUS
  <2> QED
    BY <1>1, <2>1, ReleasesHeld DEF AllGo
<1>2. \A held : NotThere(held, <<>>) = {} /\ Left(held, <<>>) = held
  BY DEF NotThere, Left
<1> QED
  BY <1>1, <1>2, Lists

LEMMA EmulatorSound == SoundStart("embedding")
<1>1. Sound(EmulatorStart[1], EmulatorHeld[1], EmulatorHeld[2], "embedding")
  <2>1. NotThere({}, <<>>) = {} /\ Left({}, <<>>) = {}
    BY Releases DEF AllGo
  <2>2. EndsAs("embedding", {"args"}, {}, 1)
    BY DEF EndsAs
  <2> QED
    BY <2>1, <2>2 DEF Sound, S, EmulatorStart, EmulatorHeld, Never
<1>2. Sound(EmulatorStart[2], EmulatorHeld[2], EmulatorHeld[3], "embedding")
  <2>1. NotThere({}, <<>>) = {} /\ Left({}, <<>>) = {}
    BY Releases DEF AllGo
  <2>2. EndsAs("embedding", {"open"}, {}, 1)
    BY DEF EndsAs
  <2> QED
    BY <2>1, <2>2 DEF Sound, S, EmulatorStart, EmulatorHeld, Never
<1>3. Sound(EmulatorStart[3], EmulatorHeld[3], EmulatorHeld[4], "embedding")
  <2>1. NotThere({"file"}, <<>>) = {} /\ Left({"file"}, <<>>) = {"file"}
    BY Releases DEF AllGo
  <2>2. EndsAs("embedding", {"malloc"}, {"file"}, 1)
    BY DEF EndsAs
  <2> QED
    BY <2>1, <2>2 DEF Sound, S, EmulatorStart, EmulatorHeld, Never
<1>4. Sound(EmulatorStart[4], EmulatorHeld[4], EmulatorHeld[5], "embedding")
  <2>1. AllGo({"file", "memory"}, <<"file", "memory">>)
    BY Releases
  <2>2. EndsAs("embedding", {"size"}, {}, 1)
    BY DEF EndsAs
  <2> QED
    BY <2>1, <2>2 DEF AllGo, Sound, S, EmulatorStart, EmulatorHeld, Never
<1>5. Sound(EmulatorStart[5], EmulatorHeld[5], EmulatorHeld[6], "embedding")
  <2>1. AllGo({"file", "memory"}, <<"file", "memory">>)
    BY Releases
  <2>2. EndsAs("embedding", {"read"}, {}, 1)
    BY DEF EndsAs
  <2> QED
    BY <2>1, <2>2 DEF AllGo, Sound, S, EmulatorStart, EmulatorHeld, Never
<1>6. Sound(EmulatorStart[6], EmulatorHeld[6], EmulatorHeld[7], "embedding")
  BY DEF Sound, S, EmulatorStart, EmulatorHeld, Never
<1>7. StartOf("embedding") = EmulatorStart /\ Len(EmulatorStart) = 6 /\ HeldOf("embedding") = EmulatorHeld
  BY DEF StartOf, HeldOf, EmulatorStart
<1> SUFFICES ASSUME NEW k \in 1 .. 6
             PROVE  Sound(EmulatorStart[k], EmulatorHeld[k], EmulatorHeld[k + 1], "embedding")
  BY <1>7 DEF SoundStart
<1> QED
  BY <1>1, <1>2, <1>3, <1>4, <1>5, <1>6

LEMMA FantasySound == SoundStart("fantasy")
<1>1. Sound(FantasyStart[1], FantasyHeld[1], FantasyHeld[2], "fantasy")
  <2>1. NotThere({}, <<>>) = {} /\ Left({}, <<>>) = {}
    BY Releases DEF AllGo
  <2>2. EndsAs("fantasy", {"args"}, {}, 1)
    BY DEF EndsAs
  <2> QED
    BY <2>1, <2>2 DEF Sound, S, FantasyStart, FantasyHeld, Never
<1>2. Sound(FantasyStart[2], FantasyHeld[2], FantasyHeld[3], "fantasy")
  <2>1. NotThere({}, <<>>) = {} /\ Left({}, <<>>) = {}
    BY Releases DEF AllGo
  <2>2. EndsAs("fantasy", {"malloc"}, {}, 1)
    BY DEF EndsAs
  <2> QED
    BY <2>1, <2>2 DEF Sound, S, FantasyStart, FantasyHeld, Never
<1>3. Sound(FantasyStart[3], FantasyHeld[3], FantasyHeld[4], "fantasy")
  <2>1. NotThere({"memory"}, <<>>) = {} /\ Left({"memory"}, <<>>) = {"memory"}
    BY Releases DEF AllGo
  <2>2. EndsAs("fantasy", {"open"}, {"memory"}, 0)
    BY DEF EndsAs
  <2> QED
    BY <2>1, <2>2 DEF Sound, S, FantasyStart, FantasyHeld, Never
<1>4. Sound(FantasyStart[4], FantasyHeld[4], FantasyHeld[5], "fantasy")
  <2>1. AllGo({"file", "memory"}, <<"memory", "file">>)
    BY Releases
  <2>2. EndsAs("fantasy", {"size"}, {}, 0)
    BY DEF EndsAs
  <2> QED
    BY <2>1, <2>2 DEF AllGo, Sound, S, FantasyStart, FantasyHeld, Never
<1>5. Sound(FantasyStart[5], FantasyHeld[5], FantasyHeld[6], "fantasy")
  <2>1. AllGo({"file", "memory"}, <<"file", "memory">>)
    BY Releases
  <2>2. EndsAs("fantasy", {"read"}, {}, 0)
    BY DEF EndsAs
  <2> QED
    BY <2>1, <2>2 DEF AllGo, Sound, S, FantasyStart, FantasyHeld, Never
<1>6. Sound(FantasyStart[6], FantasyHeld[6], FantasyHeld[7], "fantasy")
  <2>1. NotThere({"memory"}, <<>>) = {} /\ Left({"memory"}, <<>>) = {"memory"}
    BY Releases DEF AllGo
  <2>2. EndsAs("fantasy", {"sdl"}, {"memory"}, 1)
    BY DEF EndsAs
  <2> QED
    BY <2>1, <2>2 DEF Sound, S, FantasyStart, FantasyHeld, Never
<1>7. Sound(FantasyStart[7], FantasyHeld[7], FantasyHeld[8], "fantasy")
  <2>1. AllGo({"sdl", "memory"}, <<"sdl", "memory">>)
    BY Releases
  <2>2. EndsAs("fantasy", {"window"}, {}, 1)
    BY DEF EndsAs
  <2> QED
    BY <2>1, <2>2 DEF AllGo, Sound, S, FantasyStart, FantasyHeld, Never
<1>8. Sound(FantasyStart[8], FantasyHeld[8], FantasyHeld[9], "fantasy")
  <2>1. AllGo({"window", "sdl", "memory"}, <<"window", "sdl", "memory">>)
    BY Releases
  <2>2. EndsAs("fantasy", {"renderer"}, {}, 1)
    BY DEF EndsAs
  <2> QED
    BY <2>1, <2>2 DEF AllGo, Sound, S, FantasyStart, FantasyHeld, Never
<1>9. Sound(FantasyStart[9], FantasyHeld[9], FantasyHeld[10], "fantasy")
  <2>1. AllGo({"renderer", "window", "sdl", "memory"}, <<"renderer", "window", "sdl", "memory">>)
    BY Releases
  <2>2. EndsAs("fantasy", {"texture"}, {}, 1)
    BY DEF EndsAs
  <2> QED
    BY <2>1, <2>2 DEF AllGo, Sound, S, FantasyStart, FantasyHeld, Never
<1>10. Sound(FantasyStart[10], FantasyHeld[10], FantasyHeld[11], "fantasy")
  <2>1. AllGo({"texture", "renderer", "window", "sdl", "memory"},
              <<"texture", "renderer", "window", "sdl", "memory">>)
    BY Releases
  <2>2. EndsAs("fantasy", {"pixels"}, {}, 1)
    BY DEF EndsAs
  <2> QED
    BY <2>1, <2>2 DEF AllGo, Sound, S, FantasyStart, FantasyHeld, Never
<1>11. StartOf("fantasy") = FantasyStart /\ Len(FantasyStart) = 10 /\ HeldOf("fantasy") = FantasyHeld
  BY DEF StartOf, HeldOf, FantasyStart
<1> SUFFICES ASSUME NEW k \in 1 .. 10
             PROVE  Sound(FantasyStart[k], FantasyHeld[k], FantasyHeld[k + 1], "fantasy")
  BY <1>11 DEF SoundStart
<1> QED
  BY <1>1, <1>2, <1>3, <1>4, <1>5, <1>6, <1>7, <1>8, <1>9, <1>10

LEMMA PioSound == SoundStart("pio")
<1>1. Sound(PioStart[1], PioHeld[1], PioHeld[2], "pio")
  <2>1. NotThere({}, <<>>) = {} /\ Left({}, <<>>) = {}
    BY Releases DEF AllGo
  <2> QED
    BY <2>1 DEF Sound, S, PioStart, PioHeld
<1>2. Sound(PioStart[2], PioHeld[2], PioHeld[3], "pio")
  <2>1. NotThere({"pixels"}, <<>>) = {} /\ Left({"pixels"}, <<>>) = {"pixels"}
    BY Releases DEF AllGo
  <2> QED
    BY <2>1 DEF Sound, S, PioStart, PioHeld
<1>3. StartOf("pio") = PioStart /\ Len(PioStart) = 2 /\ HeldOf("pio") = PioHeld
  BY DEF StartOf, HeldOf, PioStart
<1> SUFFICES ASSUME NEW k \in 1 .. 2
             PROVE  Sound(PioStart[k], PioHeld[k], PioHeld[k + 1], "pio")
  BY <1>3 DEF SoundStart
<1> QED
  BY <1>1, <1>2

LEMMA InoSound == SoundStart("ino")
<1>1. Sound(InoStart[1], InoHeld[1], InoHeld[2], "ino")
  <2>1. NotThere({}, <<>>) = {} /\ Left({}, <<>>) = {}
    BY Releases DEF AllGo
  <2> QED
    BY <2>1 DEF Sound, S, InoStart, InoHeld
<1>2. StartOf("ino") = InoStart /\ Len(InoStart) = 1 /\ HeldOf("ino") = InoHeld
  BY DEF StartOf, HeldOf, InoStart
<1> SUFFICES ASSUME NEW k \in 1 .. 1
             PROVE  Sound(InoStart[k], InoHeld[k], InoHeld[k + 1], "ino")
  BY <1>2 DEF SoundStart
<1> QED
  BY <1>1

LEMMA StubSound == SoundStart("stub")
<1>1. Sound(StubStart[1], InoHeld[1], InoHeld[2], "stub")
  <2>1. NotThere({}, <<>>) = {} /\ Left({}, <<>>) = {}
    BY Releases DEF AllGo
  <2>2. EndsAs("stub", {"malloc"}, {}, 1)
    BY DEF EndsAs
  <2> QED
    BY <2>1, <2>2 DEF Sound, S, StubStart, InoHeld, Never
<1>2. StartOf("stub") = StubStart /\ Len(StubStart) = 1 /\ HeldOf("stub") = InoHeld
  BY DEF StartOf, HeldOf, StubStart
<1> SUFFICES ASSUME NEW k \in 1 .. 1
             PROVE  Sound(StubStart[k], InoHeld[k], InoHeld[k + 1], "stub")
  BY <1>2 DEF SoundStart
<1> QED
  BY <1>1

-----------------------------------------------------------------------------
(* The programs that go on after a failure *)

\* What is not there although the table says so, after these failures.
Missing(program, failed) ==
  CASE program = "newlib" -> IF "read" \in failed THEN {"file"} ELSE {}
    [] program = "loadelf" -> {t \in {"file", "memory"} :
         IF t = "file" THEN "open" \in failed ELSE "malloc" \in failed}
    [] OTHER -> {}

\* The failures after which the program can be about to take step k.
Forgiven(program, k) ==
  CASE program = "newlib" -> {f \in {"size", "read"} : IF f = "size" THEN k > 4 ELSE k > 5}
    [] program = "loadelf" -> {f \in {"open", "malloc"} : IF f = "open" THEN k > 2 ELSE k > 3}
    [] OTHER -> {}

\* What it may have misused, after these failures.
Excused(program, failed) ==
  {t \in {"file", "memory", "ram"} :
     /\ t = "file" => \/ program = "newlib" /\ "read" \in failed
                      \/ program = "loadelf" /\ "open" \in failed
     /\ t = "memory" => program \in {"newlib", "loadelf"} /\ "malloc" \in failed
     /\ t = "ram" => program = "newlib" /\ "size" \in failed}

\* Step s, the k-th, taken after these failures.
Goes(s, held, next, p, k, failed) ==
  LET has == held \ Missing(p, failed)
      f == failed \cup {s.name}
      left == Left(has, s.releases)
  IN /\ (has \cup s.gets) \ s.drops = next \ Missing(p, failed)
     /\ (s.uses \cup s.drops) \ has \subseteq Excused(p, failed)
     /\ s.code # Never =>
          /\ (s.uses \ has) \cup NotThere(has, s.releases) \subseteq Excused(p, f)
          /\ s.code = GoesOn => left = next \ Missing(p, f) /\ f \subseteq Forgiven(p, k + 1)
          /\ s.code >= 0 => EndsAs(p, f, left, s.code)
          /\ s.code \in Int

GoesStart(p) ==
  \A k \in 1 .. Len(StartOf(p)) : \A failed \in SUBSET Forgiven(p, k) :
    Goes(StartOf(p)[k], HeldOf(p)[k], HeldOf(p)[k + 1], p, k, failed)

LEMMA NotAnEnd == GoesOn \in Int /\ GoesOn # Never /\ ~(GoesOn >= 0)
  BY DEF GoesOn, Never

LEMMA OrderlyStep ==
  ASSUME NEW s, NEW held, NEW next, NEW p, NEW k, Sound(s, held, next, p)
  PROVE  Goes(s, held, next, p, k, {})
<1>1. Missing(p, {}) = {}
  BY DEF Missing
<1>2. held \ {} = held /\ next \ {} = next /\ {} \cup {s.name} = {s.name}
  OBVIOUS
<1>3. GoesOn \notin {0, 1, Hangs} /\ \A c \in {0, 1, Hangs} : c \in Int /\ (c >= 0 => c # Hangs)
  BY DEF GoesOn, Hangs
<1> QED
  BY <1>1, <1>2, <1>3 DEF Goes, Sound

\* A step whose failure does not stop the program.
LEMMA ForgivenStep ==
  ASSUME NEW s, NEW held, NEW next, NEW p, NEW k, NEW failed, s.code = GoesOn,
         NEW has, has = held \ Missing(p, failed), NEW f, f = failed \cup {s.name},
         (has \cup s.gets) \ s.drops = next \ Missing(p, failed),
         s.uses \cup s.drops \subseteq has \cup Excused(p, failed),
         s.uses \subseteq has \cup Excused(p, f), NotThere(has, s.releases) = {},
         Left(has, s.releases) = next \ Missing(p, f), f \subseteq Forgiven(p, k + 1)
  PROVE  Goes(s, held, next, p, k, failed)
<1>1. (s.uses \cup s.drops) \ has \subseteq Excused(p, failed)
  OBVIOUS
<1>2. (s.uses \ has) \cup NotThere(has, s.releases) \subseteq Excused(p, f)
  OBVIOUS
<1> QED
  BY <1>1, <1>2, NotAnEnd DEF Goes

LEMMA OrderlyPrograms ==
  ASSUME NEW p \in {"embedding", "fantasy", "pio", "ino", "stub"} PROVE GoesStart(p)
<1>1. SoundStart(p)
  BY EmulatorSound, FantasySound, PioSound, InoSound, StubSound
<1>2. ASSUME NEW k, NEW failed \in SUBSET Forgiven(p, k) PROVE failed = {}
  BY <1>2 DEF Forgiven
<1> SUFFICES ASSUME NEW k \in 1 .. Len(StartOf(p)), NEW failed \in SUBSET Forgiven(p, k)
             PROVE  Goes(StartOf(p)[k], HeldOf(p)[k], HeldOf(p)[k + 1], p, k, failed)
  BY DEF GoesStart
<1>3. Sound(StartOf(p)[k], HeldOf(p)[k], HeldOf(p)[k + 1], p)
  BY <1>1 DEF SoundStart
<1>4. failed = {}
  BY <1>2
<1> QED
  BY <1>3, <1>4, OrderlyStep

LEMMA NewlibGoes == GoesStart("newlib")
<1>1. Len(NewlibStart) = 6 /\ StartOf("newlib") = NewlibStart /\ HeldOf("newlib") = EmulatorHeld
  BY DEF StartOf, HeldOf, NewlibStart
<1>2. \A held : NotThere(held, <<>>) = {} /\ Left(held, <<>>) = held
  BY Releases
<1> SUFFICES ASSUME NEW k \in 1 .. 6, NEW failed \in SUBSET Forgiven("newlib", k)
             PROVE  Goes(NewlibStart[k], EmulatorHeld[k], EmulatorHeld[k + 1], "newlib", k, failed)
  BY <1>1 DEF GoesStart
<1>3. ASSUME k \in 1 .. 4 PROVE failed = {}
  BY <1>3 DEF Forgiven
<1>4. CASE k = 1
  <2>1. Sound(NewlibStart[1], EmulatorHeld[1], EmulatorHeld[2], "newlib")
    <3>1. EndsAs("newlib", {"args"}, {}, 1)
      BY DEF EndsAs
    <3> QED
      BY <1>2, <3>1 DEF Sound, S, NewlibStart, EmulatorHeld, Never
  <2> QED
    BY <1>3, <1>4, <2>1, OrderlyStep
<1>5. CASE k = 2
  <2>1. Sound(NewlibStart[2], EmulatorHeld[2], EmulatorHeld[3], "newlib")
    <3>1. EndsAs("newlib", {"open"}, {}, 1)
      BY DEF EndsAs
    <3> QED
      BY <1>2, <3>1 DEF Sound, S, NewlibStart, EmulatorHeld, Never
  <2> QED
    BY <1>3, <1>5, <2>1, OrderlyStep
<1>6. CASE k = 3
  <2>1. Sound(NewlibStart[3], EmulatorHeld[3], EmulatorHeld[4], "newlib")
    <3>1. EndsAs("newlib", {"malloc"}, {"file"}, 1)
      BY DEF EndsAs
    <3> QED
      BY <1>2, <3>1 DEF Sound, S, NewlibStart, EmulatorHeld, Never
  <2> QED
    BY <1>3, <1>6, <2>1, OrderlyStep
<1>7. CASE k = 4
  <2> DEFINE s == NewlibStart[4]
             f == failed \cup {s.name}
             has == EmulatorHeld[4] \ Missing("newlib", failed)
  <2>1. /\ s.name = "size" /\ s.uses = {"file"} /\ s.gets = {}
        /\ s.drops = {} /\ s.releases = <<>> /\ s.code = GoesOn
    BY DEF NewlibStart, S
  <2>2. f = {"size"}
    BY <1>3, <1>7, <2>1
  <2>3. Missing("newlib", failed) = {} /\ Missing("newlib", f) = {} /\ f \subseteq Forgiven("newlib", 4 + 1)
    BY <1>3, <1>7, <2>2 DEF Missing, Forgiven
  <2>4. has = {"file", "memory"} /\ EmulatorHeld[5] = {"file", "memory"}
    BY <2>3 DEF EmulatorHeld
  <2>5. f = failed \cup {s.name} /\ has = EmulatorHeld[4] \ Missing("newlib", failed)
    OBVIOUS
  <2> HIDE DEF s, f, has
  <2>6. NotThere(has, s.releases) = {} /\ Left(has, s.releases) = EmulatorHeld[5] \ Missing("newlib", f)
    BY <1>2, <2>1, <2>3, <2>4
  <2>7. /\ (has \cup s.gets) \ s.drops = EmulatorHeld[5] \ Missing("newlib", failed)
        /\ s.uses \cup s.drops \subseteq has \cup Excused("newlib", failed)
        /\ s.uses \subseteq has \cup Excused("newlib", f)
    BY <2>1, <2>3, <2>4
  <2>8. Goes(s, EmulatorHeld[4], EmulatorHeld[5], "newlib", 4, failed)
    BY <2>1, <2>3, <2>5, <2>6, <2>7, ForgivenStep
  <2> QED
    BY <1>7, <2>8 DEF s
<1>8. CASE k = 5
  <2> DEFINE s == NewlibStart[5]
             f == failed \cup {s.name}
             has == EmulatorHeld[5] \ Missing("newlib", failed)
  <2>1. /\ s.name = "read" /\ s.uses = {"file", "memory"} /\ s.gets = {}
        /\ s.drops = {} /\ s.releases = <<"file">> /\ s.code = GoesOn
    BY DEF NewlibStart, S
  <2>2. failed \subseteq {"size"} /\ f = failed \cup {"read"}
    BY <1>8, <2>1 DEF Forgiven
  <2>3. /\ Missing("newlib", failed) = {} /\ Missing("newlib", f) = {"file"}
        /\ f \subseteq Forgiven("newlib", 5 + 1)
    BY <1>8, <2>2 DEF Missing, Forgiven
  <2>4. has = {"file", "memory"} /\ EmulatorHeld[6] = {"file", "memory"}
    BY <2>3 DEF EmulatorHeld
  <2>5. f = failed \cup {s.name} /\ has = EmulatorHeld[5] \ Missing("newlib", failed)
    OBVIOUS
  <2> HIDE DEF s, f, has
  <2>6. NotThere(has, s.releases) = {} /\ Left(has, s.releases) = EmulatorHeld[6] \ Missing("newlib", f)
    BY <2>1, <2>3, <2>4, Lists, ReleasesHeld
  <2>7. /\ (has \cup s.gets) \ s.drops = EmulatorHeld[6] \ Missing("newlib", failed)
        /\ s.uses \cup s.drops \subseteq has \cup Excused("newlib", failed)
        /\ s.uses \subseteq has \cup Excused("newlib", f)
    BY <2>1, <2>3, <2>4
  <2>8. Goes(s, EmulatorHeld[5], EmulatorHeld[6], "newlib", 5, failed)
    BY <2>1, <2>3, <2>5, <2>6, <2>7, ForgivenStep
  <2> QED
    BY <1>8, <2>8 DEF s
<1>9. CASE k = 6
  <2>1. /\ {"file"} \ ({"file", "memory"} \ Missing("newlib", failed)) \subseteq Excused("newlib", failed)
        /\ Missing("newlib", failed) \subseteq {"file"}
    BY DEF Missing, Excused
  <2>2. Goes(NewlibStart[6], EmulatorHeld[6], EmulatorHeld[7], "newlib", 6, failed)
    BY <2>1 DEF Goes, S, NewlibStart, EmulatorHeld, Never
  <2> QED
    BY <1>9, <2>2
<1> QED
  BY <1>4, <1>5, <1>6, <1>7, <1>8, <1>9

LEMMA LoadElfGoes == GoesStart("loadelf")
<1>1. Len(LoadElfStart) = 4 /\ StartOf("loadelf") = LoadElfStart /\ HeldOf("loadelf") = LoadElfHeld
  BY DEF StartOf, HeldOf, LoadElfStart
<1>2. \A held : NotThere(held, <<>>) = {} /\ Left(held, <<>>) = held
  BY Releases
<1> SUFFICES ASSUME NEW k \in 1 .. 4, NEW failed \in SUBSET Forgiven("loadelf", k)
             PROVE  Goes(LoadElfStart[k], LoadElfHeld[k], LoadElfHeld[k + 1], "loadelf", k, failed)
  BY <1>1 DEF GoesStart
<1>3. ASSUME k \in 1 .. 2 PROVE failed = {}
  BY <1>3 DEF Forgiven
<1>4. CASE k = 1
  <2>1. Sound(LoadElfStart[1], LoadElfHeld[1], LoadElfHeld[2], "loadelf")
    <3>1. EndsAs("loadelf", {"args"}, {}, 1)
      BY DEF EndsAs
    <3> QED
      BY <1>2, <3>1 DEF Sound, S, LoadElfStart, LoadElfHeld, Never
  <2> QED
    BY <1>3, <1>4, <2>1, OrderlyStep
<1>5. CASE k = 2
  <2> DEFINE s == LoadElfStart[2]
             f == failed \cup {s.name}
             has == LoadElfHeld[2] \ Missing("loadelf", failed)
  <2>1. /\ s.name = "open" /\ s.uses = {} /\ s.gets = {"file"}
        /\ s.drops = {} /\ s.releases = <<>> /\ s.code = GoesOn
    BY DEF LoadElfStart, S
  <2>2. f = {"open"}
    BY <1>3, <1>5, <2>1
  <2>3. /\ Missing("loadelf", failed) = {} /\ Missing("loadelf", f) = {"file"}
        /\ f \subseteq Forgiven("loadelf", 2 + 1)
    BY <1>3, <1>5, <2>2 DEF Missing, Forgiven
  <2>4. has = {} /\ LoadElfHeld[3] = {"file"}
    BY <2>3 DEF LoadElfHeld
  <2>5. f = failed \cup {s.name} /\ has = LoadElfHeld[2] \ Missing("loadelf", failed)
    OBVIOUS
  <2> HIDE DEF s, f, has
  <2>6. NotThere(has, s.releases) = {} /\ Left(has, s.releases) = LoadElfHeld[3] \ Missing("loadelf", f)
    BY <1>2, <2>1, <2>3, <2>4
  <2>7. /\ (has \cup s.gets) \ s.drops = LoadElfHeld[3] \ Missing("loadelf", failed)
        /\ s.uses \cup s.drops \subseteq has \cup Excused("loadelf", failed)
        /\ s.uses \subseteq has \cup Excused("loadelf", f)
    BY <2>1, <2>3, <2>4
  <2>8. Goes(s, LoadElfHeld[2], LoadElfHeld[3], "loadelf", 2, failed)
    BY <2>1, <2>3, <2>5, <2>6, <2>7, ForgivenStep
  <2> QED
    BY <1>5, <2>8 DEF s
<1>6. CASE k = 3
  <2> DEFINE s == LoadElfStart[3]
             f == failed \cup {s.name}
             has == LoadElfHeld[3] \ Missing("loadelf", failed)
  <2>1. /\ s.name = "malloc" /\ s.uses = {"file"} /\ s.gets = {"memory"}
        /\ s.drops = {} /\ s.releases = <<>> /\ s.code = GoesOn
    BY DEF LoadElfStart, S
  <2>2. failed \subseteq {"open"} /\ f = failed \cup {"malloc"}
    BY <1>6, <2>1 DEF Forgiven
  <2>3. /\ Missing("loadelf", failed) \subseteq {"file"} /\ Missing("loadelf", f) = Missing("loadelf", failed) \cup {"memory"}
        /\ f \subseteq Forgiven("loadelf", 3 + 1)
        /\ Missing("loadelf", failed) \subseteq Excused("loadelf", failed) \cap Excused("loadelf", f)
    BY <1>6, <2>2 DEF Missing, Forgiven, Excused
  <2>4. has = {"file"} \ Missing("loadelf", failed) /\ LoadElfHeld[4] = {"file", "memory"}
    BY <2>3 DEF LoadElfHeld
  <2>5. f = failed \cup {s.name} /\ has = LoadElfHeld[3] \ Missing("loadelf", failed)
    OBVIOUS
  <2> HIDE DEF s, f, has
  <2>6. NotThere(has, s.releases) = {} /\ Left(has, s.releases) = LoadElfHeld[4] \ Missing("loadelf", f)
    BY <1>2, <2>1, <2>3, <2>4
  <2>7. /\ (has \cup s.gets) \ s.drops = LoadElfHeld[4] \ Missing("loadelf", failed)
        /\ s.uses \cup s.drops \subseteq has \cup Excused("loadelf", failed)
        /\ s.uses \subseteq has \cup Excused("loadelf", f)
    BY <2>1, <2>3, <2>4
  <2>8. Goes(s, LoadElfHeld[3], LoadElfHeld[4], "loadelf", 3, failed)
    BY <2>1, <2>3, <2>5, <2>6, <2>7, ForgivenStep
  <2> QED
    BY <1>6, <2>8 DEF s
<1>7. CASE k = 4
  <2>1. /\ Missing("loadelf", failed) \subseteq {"file", "memory"}
        /\ Missing("loadelf", failed) \subseteq Excused("loadelf", failed)
    BY DEF Missing, Excused
  <2>2. Goes(LoadElfStart[4], LoadElfHeld[4], LoadElfHeld[5], "loadelf", 4, failed)
    BY <2>1 DEF Goes, S, LoadElfStart, LoadElfHeld, Never
  <2> QED
    BY <1>7, <2>2
<1> QED
  BY <1>4, <1>5, <1>6, <1>7

\* The programs of FrontEnds.tla.
AnyProgram == {"embedding", "newlib", "fantasy", "pio", "ino", "stub", "loadelf"}

LEMMA StartUps == \A p \in AnyProgram : GoesStart(p)
  BY OrderlyPrograms, NewlibGoes, LoadElfGoes DEF AnyProgram

-----------------------------------------------------------------------------
(* A machine that nobody has given a breakpoint *)

\* Paused, it is as rv32_new left it, but for the keys the user has pressed.
FreshIfPaused == hart.status = "PAUSED" => hart = [NewHart EXCEPT !.mip = hart.mip]

LEMMA ExecuteKeepsGoing ==
  ASSUME NEW h \in Hart, h.status = "RUNNING", NEW i, Execute(h, i)
  PROVE  hart'.status # "PAUSED"
<1> USE DEF Hart, Step, Stop
<1>1. CASE ExecReg(h) \/ ExecLoad(h) \/ ExecStore(h)
  BY <1>1 DEF ExecReg, ExecLoad, ExecStore, StoreRam, StoreIe, StoreConsole, StoreFault
<1>2. CASE ExecBranch(h) \/ ExecJump(h) \/ ExecEcall(h) \/ ExecEbreak(h)
  BY <1>2 DEF ExecBranch, ExecJump, ExecEcall, ExecEbreak
<1>3. CASE ExecMret(h) \/ ExecWfi(h) \/ ExecIllegal(h)
  BY <1>3 DEF ExecMret, ExecWfi, ExecIllegal
<1>4. CASE ExecCsr(h)
  BY <1>4 DEF ExecCsr, rv32_write_csr
<1> QED
  BY <1>1, <1>2, <1>3, <1>4 DEF Execute

\* A cycle of a paused machine does nothing, and no other cycle pauses it.
LEMMA CycleFresh ==
  ASSUME WellTyped, Unheard(hart), hart.bpMask = {}, FreshIfPaused, rv32_cycle
  PROVE  /\ hart'.bpMask = {}
         /\ hart.status = "PAUSED" => hart' = hart
         /\ hart.status # "PAUSED" => hart'.status # "PAUSED"
<1>1. PICK h \in rv32_handle_interrupt(hart) :
        Asleep(h) \/ NotRunning(h) \/ BreakpointHit(h) \/ FetchFault(h) \/ FetchAndExecute(h)
  BY DEF rv32_cycle
<1>2. h \in Hart /\ h.status = hart.status /\ (Deaf(hart) => h = hart)
  BY InterruptDeaf DEF Unheard, WellTyped
<1>3. hart'.bpMask = {}
  BY CycleKeepsTable DEF SameTable
<1>4. h.bpMask = {}
  BY InterruptKeepsTable DEF SameTable, WellTyped
<1>5. ASSUME hart.status = "PAUSED" PROVE hart' = hart
  <2>1. hart.mstatus = {}
    BY <1>5 DEF FreshIfPaused, NewHart
  <2>2. h = hart
    BY <1>2, <2>1 DEF Deaf
  <2> QED
    BY <1>1, <1>5, <2>2 DEF Asleep, NotRunning, BreakpointHit, FetchFault, FetchAndExecute, Active
<1>6. ASSUME hart.status # "PAUSED" PROVE hart'.status # "PAUSED"
  <2>1. CASE Asleep(h) \/ NotRunning(h)
    BY <1>2, <1>6, <2>1 DEF Asleep, NotRunning
  <2>2. CASE BreakpointHit(h)
    BY <1>4, <2>2 DEF BreakpointHit, Armed
  <2>3. CASE FetchFault(h)
    BY <1>2, <2>3 DEF FetchFault, Stop, Hart
  <2>4. CASE FetchAndExecute(h)
    BY <1>2, <2>4, ExecuteKeepsGoing DEF FetchAndExecute, Active
  <2> QED
    BY <1>1, <2>1, <2>2, <2>3, <2>4
<1> QED
  BY <1>3, <1>5, <1>6

-----------------------------------------------------------------------------
(* The books of a program: what it holds and has misused, while it runs *)

\* What it holds is what the table says, but for what its forgiven failures
\* have cost.
Accounted ==
  /\ main.step \in 1 .. Len(StartOf(main.program)) + 1
  /\ main.failed \subseteq Forgiven(main.program, main.step)
  /\ main.held = HeldOf(main.program)[main.step] \ Missing(main.program, main.failed)

\* Once the message about a fetch beyond RAM is printed, the machine has stopped.
Told ==
  "beyond" \in misused =>
    \/ main.program = "newlib"
    \/ main.program = "embedding" /\ hart.pc \notin Ram /\ hart.status \notin {"PAUSED", "RUNNING"}
    \/ main.program = "fantasy" /\ hart.pc \notin Ram /\ desktop.phase = "over"

Books ==
  /\ Inv
  /\ hart.bpMask = {} /\ FreshIfPaused
  /\ main.program \in AnyProgram /\ main.code \in Int
  /\ desktop \in [phase : {"events", "cycles", "over"}, closing : BOOLEAN, quit : BOOLEAN]
  /\ main.code = GoesOn => Accounted /\ Told
  /\ misused \subseteq Excused(main.program, main.failed) \cup {"beyond"}
  /\ UsesWhatItHolds
  /\ EndsClean

LEMMA Lengths ==
  /\ \A p \in AnyProgram : Len(StartOf(p)) \in Nat
  /\ HeldOf("embedding")[Len(StartOf("embedding")) + 1] = {"memory"}
  /\ HeldOf("newlib")[Len(StartOf("newlib")) + 1] = {"memory"}
  /\ HeldOf("fantasy")[Len(StartOf("fantasy")) + 1] =
       {"pixels", "texture", "renderer", "window", "sdl", "memory"}
  /\ HeldOf("stub")[Len(StartOf("stub")) + 1] = {"memory"}
  /\ HeldOf("loadelf")[Len(StartOf("loadelf")) + 1] = {"memory"}
<1>1. /\ Len(StartOf("embedding")) = 6 /\ Len(StartOf("newlib")) = 6 /\ Len(StartOf("fantasy")) = 10
      /\ Len(StartOf("pio")) = 2 /\ Len(StartOf("ino")) = 1 /\ Len(StartOf("stub")) = 1
      /\ Len(StartOf("loadelf")) = 4
  BY DEF StartOf, EmulatorStart, NewlibStart, FantasyStart, PioStart, InoStart, StubStart, LoadElfStart
<1>2. /\ HeldOf("embedding")[7] = {"memory"} /\ HeldOf("newlib")[7] = {"memory"}
      /\ HeldOf("fantasy")[11] = {"pixels", "texture", "renderer", "window", "sdl", "memory"}
      /\ HeldOf("stub")[2] = {"memory"} /\ HeldOf("loadelf")[5] = {"memory"}
  BY DEF HeldOf, EmulatorHeld, FantasyHeld, InoHeld, LoadElfHeld
<1>3. \A p \in AnyProgram : Len(StartOf(p)) \in Nat
  BY <1>1 DEF AnyProgram
<1>4. 6 + 1 = 7 /\ 10 + 1 = 11 /\ 1 + 1 = 2 /\ 4 + 1 = 5
  OBVIOUS
<1> QED
  BY <1>1, <1>2, <1>3, <1>4

LEMMA ExcusedGrows ==
  ASSUME NEW p, NEW f, NEW g, f \subseteq g PROVE Excused(p, f) \subseteq Excused(p, g)
  BY DEF Excused

LEMMA InitBooks == Init => Books
<1> SUFFICES ASSUME Init PROVE Books
  OBVIOUS
<1>1. PICK p \in Programs :
        /\ main = [program |-> p, step |-> 1, code |-> GoesOn, held |-> {}, failed |-> {}]
        /\ hart \in {[NewHart EXCEPT !.status = s] : s \in IF p = "fantasy" THEN Created ELSE {"PAUSED"}}
  BY DEF Init
<1>2. PICK s : hart = [NewHart EXCEPT !.status = s]
  BY <1>1
<1>3. hart.bpMask = {} /\ FreshIfPaused
  BY <1>2 DEF NewHart, FreshIfPaused
<1>4. main.program \in AnyProgram /\ main.code = GoesOn /\ GoesOn \in Int
  BY <1>1, FrontEndAssumption, NotAnEnd DEF AnyProgram
<1>5. desktop \in [phase : {"events", "cycles", "over"}, closing : BOOLEAN, quit : BOOLEAN]
  BY DEF Init
<1>6. misused = {} /\ UsesWhatItHolds
  BY DEF Init, UsesWhatItHolds
<1>7. Accounted
  <2>1. HeldOf(main.program)[1] = {}
    BY <1>4 DEF HeldOf, AnyProgram, EmulatorHeld, FantasyHeld, PioHeld, InoHeld, LoadElfHeld
  <2>2. main.step = 1 /\ main.failed = {} /\ main.held = {}
    BY <1>1
  <2> QED
    BY <1>4, <2>1, <2>2, Lengths DEF Accounted
<1>8. EndsClean
  BY <1>4, NotAnEnd DEF EndsClean, Ended
<1> QED
  BY <1>3, <1>4, <1>5, <1>6, <1>7, <1>8, InitInv DEF Books, Told

LEMMA ForgivenGrows ==
  ASSUME NEW p, NEW k \in Nat PROVE Forgiven(p, k) \subseteq Forgiven(p, k + 1)
  BY DEF Forgiven

\* What is true of a step of the start-up before it is taken.
LEMMA AtStep ==
  ASSUME Books, Starting
  PROVE  LET k == main.step
             p == main.program
         IN /\ k \in Nat /\ k \in 1 .. Len(StartOf(p)) /\ k + 1 \in 1 .. Len(StartOf(p)) + 1
            /\ main.failed \subseteq Forgiven(p, k)
            /\ main.held = HeldOf(p)[k] \ Missing(p, main.failed)
            /\ Goes(StartOf(p)[k], HeldOf(p)[k], HeldOf(p)[k + 1], p, k, main.failed)
<1>1. main.program \in AnyProgram /\ Accounted /\ main.step \in Nat
  BY DEF Books, Starting, Inv
<1>2. Len(StartOf(main.program)) \in Nat
  BY <1>1, Lengths
<1>3. main.step \in 1 .. Len(StartOf(main.program))
  BY <1>1, <1>2 DEF Accounted, Starting
<1>4. GoesStart(main.program) /\ main.failed \in SUBSET Forgiven(main.program, main.step)
  BY <1>1, StartUps DEF Accounted
<1>5. main.step + 1 \in 1 .. Len(StartOf(main.program)) + 1
  BY <1>2, <1>3
<1>6. Goes(StartOf(main.program)[main.step], HeldOf(main.program)[main.step],
           HeldOf(main.program)[main.step + 1], main.program, main.step, main.failed)
  BY <1>3, <1>4 DEF GoesStart
<1> QED
  BY <1>1, <1>3, <1>5, <1>6 DEF Accounted

\* A program too big is read into RAM by the newlib emulator only.
LEMMA OverrunExcused ==
  ASSUME Books, Starting, NEW s
  PROVE  Overrun(s) \subseteq Excused(main.program, main.failed)
<1>1. "size" \in main.failed => main.program = "newlib"
  BY AtStep DEF Forgiven
<1> QED
  BY <1>1 DEF Overrun, Excused

LEMMA StepSucceedsBooks == ASSUME Books, StepSucceeds PROVE Books'
<1> DEFINE k == main.step
           p == main.program
           s == StartOf(p)[k]
<1>1. /\ Starting /\ hart' = hart /\ mem' = mem /\ desktop' = desktop
      /\ main' = [main EXCEPT !.step = @ + 1, !.held = (@ \cup s.gets) \ s.drops]
      /\ misused' = misused \cup ((s.uses \cup s.drops) \ main.held) \cup Overrun(s)
  BY DEF StepSucceeds
<1>2. /\ k \in Nat /\ k + 1 \in 1 .. Len(StartOf(p)) + 1 /\ main.failed \subseteq Forgiven(p, k)
      /\ main.held = HeldOf(p)[k] \ Missing(p, main.failed)
      /\ Goes(s, HeldOf(p)[k], HeldOf(p)[k + 1], p, k, main.failed)
  BY <1>1, AtStep
<1>3. Inv' /\ main.code = GoesOn /\ MainRecord
  BY <1>1, NextInv DEF Books, Next, Starting, Inv
<1>4. /\ main'.program = p /\ main'.step = k + 1 /\ main'.code = GoesOn /\ main'.failed = main.failed
      /\ main'.held = (main.held \cup s.gets) \ s.drops
  BY <1>1, <1>3 DEF MainRecord
<1> HIDE DEF k, p, s
<1>5. Accounted'
  <2>1. main.failed \subseteq Forgiven(p, k + 1)
    BY <1>2, ForgivenGrows
  <2>2. main'.held = HeldOf(p)[k + 1] \ Missing(p, main.failed)
    BY <1>2, <1>4 DEF Goes
  <2> QED
    BY <1>2, <1>4, <2>1, <2>2 DEF Accounted
<1>6. misused' \subseteq Excused(p, main.failed) \cup misused
  <2>1. (s.uses \cup s.drops) \ main.held \subseteq Excused(p, main.failed)
    BY <1>2 DEF Goes
  <2>2. Overrun(s) \subseteq Excused(p, main.failed)
    BY <1>1, OverrunExcused DEF p
  <2> QED
    BY <1>1, <2>1, <2>2
<1>7. misused' \subseteq Excused(p, main.failed) \cup {"beyond"}
  BY <1>6 DEF Books, p
<1>8. "beyond" \in misused' => "beyond" \in misused
  BY <1>6 DEF Excused
<1>9. Told'
  <2>1. Told /\ p = main.program
    BY <1>3 DEF Books, p
  <2> QED
    BY <1>1, <1>4, <1>8, <2>1 DEF Told
<1>10. UsesWhatItHolds'
  BY <1>4, <1>7, <1>9 DEF UsesWhatItHolds, Excused, Told
<1>11. EndsClean'
  BY <1>4, NotAnEnd DEF EndsClean, Ended
<1> QED
  BY <1>1, <1>3, <1>4, <1>5, <1>7, <1>9, <1>10, <1>11, NotAnEnd DEF Books, FreshIfPaused, p

LEMMA StepFailsBooks == ASSUME Books, StepFails PROVE Books'
<1> DEFINE k == main.step
           p == main.program
           s == StartOf(p)[k]
           f == main.failed \cup {s.name}
<1>1. /\ Starting /\ s.code # Never /\ hart' = hart /\ mem' = mem /\ desktop' = desktop
      /\ main' = [main EXCEPT !.step = @ + 1, !.failed = @ \cup {s.name},
                              !.held = Left(@, s.releases), !.code = s.code]
      /\ misused' = misused \cup (s.uses \ main.held) \cup NotThere(main.held, s.releases)
                      \cup Overrun(s) \cup Unchecked(s)
  BY DEF StepFails
<1>2. /\ k \in Nat /\ k + 1 \in 1 .. Len(StartOf(p)) + 1 /\ main.failed \subseteq Forgiven(p, k)
      /\ main.held = HeldOf(p)[k] \ Missing(p, main.failed)
      /\ Goes(s, HeldOf(p)[k], HeldOf(p)[k + 1], p, k, main.failed)
  BY <1>1, AtStep
<1>3. Inv' /\ main.code = GoesOn /\ MainRecord
  BY <1>1, NextInv DEF Books, Next, Starting, Inv
<1>4. /\ main'.program = p /\ main'.step = k + 1 /\ main'.code = s.code /\ main'.failed = f
      /\ main'.held = Left(main.held, s.releases)
  BY <1>1, <1>3 DEF MainRecord
<1>5. Unchecked(s) \subseteq Excused(p, f)
  BY DEF Unchecked, Excused
<1>6. Overrun(s) \subseteq Excused(p, f)
  BY <1>1, OverrunExcused, ExcusedGrows
<1>7. f = main.failed \cup {s.name} /\ p = main.program
  OBVIOUS
<1> HIDE DEF k, p, s, f
<1>8. /\ (s.uses \ main.held) \cup NotThere(main.held, s.releases) \subseteq Excused(p, f)
      /\ s.code = GoesOn => /\ Left(main.held, s.releases) = HeldOf(p)[k + 1] \ Missing(p, f)
                            /\ f \subseteq Forgiven(p, k + 1)
      /\ s.code >= 0 => EndsAs(p, f, Left(main.held, s.releases), s.code)
      /\ s.code \in Int
  BY <1>1, <1>2, <1>7 DEF Goes
<1>9. main'.code = GoesOn => Accounted'
  BY <1>2, <1>4, <1>8 DEF Accounted
<1>10. misused' \subseteq Excused(p, f) \cup misused
  BY <1>1, <1>5, <1>6, <1>8
<1>11. misused' \subseteq Excused(p, f) \cup {"beyond"}
  <2>1. misused \subseteq Excused(p, main.failed) \cup {"beyond"}
    BY <1>7 DEF Books
  <2>2. Excused(p, main.failed) \subseteq Excused(p, f)
    BY <1>7, ExcusedGrows
  <2> QED
    BY <1>10, <2>1, <2>2
<1>12. "beyond" \in misused' => "beyond" \in misused
  BY <1>10 DEF Excused
<1>13. Told'
  <2>1. Told
    BY <1>3 DEF Books
  <2> QED
    BY <1>1, <1>4, <1>7, <1>12, <2>1 DEF Told
<1>14. UsesWhatItHolds'
  BY <1>4, <1>11, <1>13 DEF UsesWhatItHolds, Excused, Told
<1>15. EndsClean'
  <2>1. FreshIfPaused'
    BY <1>1 DEF Books, FreshIfPaused
  <2>2. main'.code >= 0 => EndsAs(p, main'.failed, main'.held, main'.code)
    BY <1>4, <1>8
  <2> QED
    BY <1>4, <2>1, <2>2 DEF EndsClean, Ended, EndsAs, FreshIfPaused
<1> QED
  BY <1>1, <1>3, <1>4, <1>7, <1>8, <1>9, <1>11, <1>13, <1>14, <1>15 DEF Books, FreshIfPaused

\* What is true when the loop of the program is reached.
LEMMA AtLoop ==
  ASSUME Books, NEW p, Running(p)
  PROVE  /\ main.program = p /\ main.code = GoesOn /\ Told
         /\ main.failed \subseteq Forgiven(p, main.step)
         /\ main.held = HeldOf(p)[Len(StartOf(p)) + 1] \ Missing(p, main.failed)
<1>1. main.program = p /\ p \in AnyProgram /\ main.code = GoesOn /\ Accounted /\ Told
  BY DEF Running, Books
<1>2. Len(StartOf(p)) \in Nat /\ main.step > Len(StartOf(p))
  BY <1>1, Lengths DEF Running
<1>3. main.step = Len(StartOf(p)) + 1
  BY <1>1, <1>2 DEF Accounted
<1> QED
  BY <1>1, <1>3 DEF Accounted

\* The programs that release the memory, and only it, at their end.
LEMMA MemoryGoes == NotThere({"memory"}, <<"memory">>) = {} /\ Left({"memory"}, <<"memory">>) = {}
  BY Releases DEF AllGo

LEMMA EmulatorEndsBooks == ASSUME Books, EmulatorEnds PROVE Books'
<1>1. /\ main.program = "embedding" /\ main.failed = {} /\ main.held = {"memory"} /\ MainRecord
      /\ hart' = hart /\ mem' = mem /\ desktop' = desktop
  <2>1. Running("embedding")
    BY DEF EmulatorEnds
  <2> QED
    BY <2>1, AtLoop, Lengths DEF Forgiven, Missing, EmulatorEnds, Books, Inv
<1>2. PICK a0 \in ExitValues : End(<<"memory">>, IF hart.status = "HALTED" THEN a0 ELSE 1)
  BY DEF EmulatorEnds
<1>3. a0 \in Int /\ a0 >= 0
  BY FrontEndAssumption
<1>4. /\ main'.program = "embedding" /\ main'.failed = {} /\ main'.held = {}
      /\ main'.code \in Int /\ main'.code >= 0 /\ (main'.code = 0 => hart.status = "HALTED")
      /\ misused' = misused
  BY <1>1, <1>2, <1>3, MemoryGoes DEF End, MainRecord
<1>5. Inv'
  BY NextInv DEF Books, Next
<1>6. EndsClean'
  BY <1>1, <1>4 DEF EndsClean
<1>7. UsesWhatItHolds'
  BY <1>1, <1>4 DEF Books, UsesWhatItHolds
<1>8. main'.code # GoesOn
  BY <1>4, NotAnEnd
<1> QED
  BY <1>1, <1>4, <1>5, <1>6, <1>7, <1>8 DEF Books, FreshIfPaused

LEMMA NewlibEndsBooks == ASSUME Books, NewlibEnds PROVE Books'
<1>1. /\ main.program = "newlib" /\ main.held = {"memory"} /\ MainRecord
      /\ main.failed \subseteq {"size", "read"}
      /\ hart' = hart /\ mem' = mem /\ desktop' = desktop
  <2>1. Running("newlib")
    BY DEF NewlibEnds
  <2>2. main.failed \subseteq Forgiven("newlib", main.step) /\ Missing("newlib", main.failed) \subseteq {"file"}
    BY <2>1, AtLoop DEF Missing
  <2>3. main.held = {"memory"}
    BY <2>1, <2>2, AtLoop, Lengths
  <2> QED
    BY <2>1, <2>2, <2>3, AtLoop DEF Forgiven, NewlibEnds, Books, Inv
<1>2. /\ main'.program = "newlib" /\ main'.failed = main.failed /\ main'.held = {} /\ main'.code = 0
      /\ misused' \subseteq misused \cup {"beyond"}
  BY <1>1, MemoryGoes DEF NewlibEnds, MainRecord
<1>3. Inv'
  BY NextInv DEF Books, Next
<1>4. EndsClean'
  BY <1>1, <1>2 DEF EndsClean
<1>5. misused' \subseteq Excused(main.program, main.failed) \cup {"beyond"}
  BY <1>2 DEF Books
<1>6. UsesWhatItHolds'
  BY <1>1, <1>2, <1>5 DEF UsesWhatItHolds, Excused
<1>7. main'.code # GoesOn /\ main'.code \in Int
  BY <1>2 DEF GoesOn
<1> QED
  BY <1>1, <1>2, <1>3, <1>4, <1>5, <1>6, <1>7 DEF Books, FreshIfPaused

LEMMA FantasyEndsBooks == ASSUME Books, FantasyEnds PROVE Books'
<1> DEFINE list == <<"pixels", "texture", "renderer", "window", "sdl", "memory">>
           all == {"pixels", "texture", "renderer", "window", "sdl", "memory"}
<1>1. /\ main.program = "fantasy" /\ main.failed = {} /\ main.held = all /\ MainRecord
      /\ hart' = hart /\ mem' = mem /\ desktop' = desktop
  <2>1. Running("fantasy")
    BY DEF FantasyEnds
  <2> QED
    BY <2>1, AtLoop, Lengths DEF Forgiven, Missing, FantasyEnds, Books, Inv
<1>2. NotThere(all, list) = {} /\ Left(all, list) = {}
  BY Releases DEF AllGo
<1>3. End(list, 0)
  BY DEF FantasyEnds
<1> HIDE DEF list, all
<1>4. /\ main'.program = "fantasy" /\ main'.failed = {} /\ main'.held = {} /\ main'.code = 0
      /\ misused' = misused
  BY <1>1, <1>2, <1>3 DEF End, MainRecord
<1>5. Inv'
  BY NextInv DEF Books, Next, Fantasy
<1>6. EndsClean'
  BY <1>1, <1>4 DEF EndsClean, Books, FreshIfPaused
<1>7. UsesWhatItHolds'
  BY <1>1, <1>4 DEF Books, UsesWhatItHolds
<1>8. main'.code # GoesOn /\ main'.code \in Int
  BY <1>4 DEF GoesOn
<1> QED
  BY <1>1, <1>4, <1>5, <1>6, <1>7, <1>8 DEF Books, FreshIfPaused

LEMMA OthersEndBooks == ASSUME Books, OthersEnd PROVE Books'
<1>1. /\ main.program \in {"loadelf", "stub"} /\ main.held \subseteq {"memory"} /\ MainRecord
      /\ hart' = hart /\ mem' = mem /\ desktop' = desktop
  <2>1. ASSUME NEW p \in {"loadelf", "stub"}, Running(p)
        PROVE  main.program = p /\ main.held \subseteq {"memory"}
    BY <2>1, AtLoop, Lengths
  <2> QED
    BY <2>1 DEF OthersEnd, Books, Inv
<1>2. NotThere(main.held, <<>>) = {} /\ Left(main.held, <<>>) = main.held
  BY Releases
<1>3. /\ main'.program = main.program /\ main'.failed = main.failed /\ main'.held = main.held
      /\ main'.code = 0 /\ misused' = misused
  BY <1>1, <1>2 DEF OthersEnd, End, MainRecord
<1>4. Inv'
  BY NextInv DEF Books, Next
<1>5. EndsClean'
  BY <1>1, <1>3 DEF EndsClean
<1>6. UsesWhatItHolds'
  BY <1>1, <1>3 DEF Books, UsesWhatItHolds
<1>7. main'.code # GoesOn /\ main'.code \in Int
  BY <1>3 DEF GoesOn
<1> QED
  BY <1>1, <1>3, <1>4, <1>5, <1>6, <1>7 DEF Books, FreshIfPaused

\* The steps of the loops leave the books alone: what is left to show is what
\* they say of the machine and of the message.
LEMMA LoopSteps ==
  ASSUME Books, Inv', main' = main, main.code = GoesOn,
         hart'.bpMask = {}, FreshIfPaused', Told',
         desktop' \in [phase : {"events", "cycles", "over"}, closing : BOOLEAN, quit : BOOLEAN],
         misused' \subseteq misused \cup {"beyond"}
  PROVE  Books'
<1>1. misused' \subseteq Excused(main.program, main.failed) \cup {"beyond"}
  BY DEF Books
<1>2. UsesWhatItHolds'
  BY <1>1 DEF Told, UsesWhatItHolds, Excused
<1>3. EndsClean'
  BY NotAnEnd DEF EndsClean, Ended
<1> QED
  BY <1>1, <1>2, <1>3 DEF Books, Accounted

LEMMA ResumesBooks == ASSUME Books, EmulatorResumes PROVE Books'
<1>1. /\ Running("embedding") /\ hart.status = "PAUSED" /\ hart' = [hart EXCEPT !.status = "RUNNING"]
      /\ main' = main /\ desktop' = desktop /\ misused' = misused
  BY DEF EmulatorResumes
<1>2. main.program = "embedding" /\ main.code = GoesOn /\ Told
  BY <1>1, AtLoop
<1>3. Inv'
  BY NextInv DEF Books, Next
<1>4. hart'.bpMask = {} /\ hart'.status = "RUNNING"
  BY <1>1 DEF Books, Inv, WellTyped, Hart
<1>5. "beyond" \notin misused
  BY <1>1, <1>2 DEF Told
<1> QED
  BY <1>1, <1>2, <1>3, <1>4, <1>5, LoopSteps DEF Books, Told, FreshIfPaused

LEMMA KeyBooks == ASSUME Books, PollKey PROVE Books'
<1>1. /\ Running("fantasy") /\ desktop.phase = "events" /\ hart' = [hart EXCEPT !.mip = @ \cup {"MEI"}]
      /\ main' = main /\ desktop' = desktop /\ misused' = misused
  BY DEF PollKey
<1>2. main.program = "fantasy" /\ main.code = GoesOn /\ Told
  BY <1>1, AtLoop
<1>3. Inv'
  BY NextInv DEF Books, Next, Fantasy
<1>4. hart'.bpMask = {} /\ hart'.status = hart.status
  BY <1>1 DEF Books, Inv, WellTyped, Hart
<1>5. FreshIfPaused'
  BY <1>1, <1>4 DEF Books, FreshIfPaused, NewHart
<1>6. "beyond" \notin misused
  BY <1>1, <1>2 DEF Told
<1> QED
  BY <1>1, <1>2, <1>3, <1>4, <1>5, <1>6, LoopSteps DEF Books, Told

LEMMA DesktopBooks == ASSUME Books, CloseWindow \/ PollQuit \/ Draw PROVE Books'
<1>1. /\ Running("fantasy") /\ hart' = hart /\ main' = main /\ misused' = misused
  BY DEF CloseWindow, PollQuit, Draw
<1>2. main.program = "fantasy" /\ main.code = GoesOn /\ Told
  BY <1>1, AtLoop
<1>3. Inv'
  BY NextInv DEF Books, Next, Fantasy
<1>4. /\ desktop' \in [phase : {"events", "cycles", "over"}, closing : BOOLEAN, quit : BOOLEAN]
      /\ desktop.phase = "over" => desktop'.phase = "over"
  BY DEF Books, CloseWindow, PollQuit, Draw
<1>5. Told'
  BY <1>1, <1>2, <1>4 DEF Told
<1> QED
  BY <1>1, <1>2, <1>3, <1>4, <1>5, LoopSteps DEF Books, FreshIfPaused

LEMMA CycleBooks == ASSUME Books, OfCycle PROVE Books'
<1>1. rv32_cycle /\ main' = main /\ misused' \subseteq misused \cup {"beyond"}
  BY DEF OfCycle, EmulatorCycles, CycleInFrame, CycleEndsFrame, Diagnosed
<1>2. Inv'
  BY NextInv DEF Books, Next, Fantasy, OfCycle
<1>3. /\ hart'.bpMask = {}
      /\ hart.status = "PAUSED" => hart' = hart
      /\ hart.status # "PAUSED" => hart'.status # "PAUSED"
  BY <1>1, CycleFresh DEF Books, Inv
<1>4. FreshIfPaused'
  BY <1>3 DEF Books, FreshIfPaused
<1>5. Running("embedding") \/ Running("fantasy")
  BY DEF OfCycle, EmulatorCycles, CycleInFrame, CycleEndsFrame
<1>6. main.code = GoesOn /\ Told /\ main.program \in {"embedding", "fantasy"}
  BY <1>5, AtLoop
<1>7. CASE EmulatorCycles
  <2>1. /\ main.program = "embedding" /\ hart.status = "RUNNING" /\ desktop' = desktop
        /\ misused' = misused \cup Diagnosed(hart')
    BY <1>7 DEF EmulatorCycles, Running
  <2>2. "beyond" \notin misused
    BY <1>6, <2>1 DEF Told
  <2>3. Told'
    BY <1>1, <1>3, <2>1, <2>2 DEF Told, Diagnosed
  <2> QED
    BY <1>1, <1>2, <1>3, <1>4, <1>6, <2>1, <2>3, LoopSteps DEF Books
<1>8. CASE CycleInFrame \/ CycleEndsFrame
  <2>1. main.program = "fantasy" /\ desktop.phase = "cycles"
    BY <1>8 DEF CycleInFrame, CycleEndsFrame, Running
  <2>2. "beyond" \notin misused
    BY <1>6, <2>1 DEF Told
  <2>3. CASE CycleInFrame
    <3>1. misused' = misused /\ desktop' = desktop
      BY <2>3 DEF CycleInFrame
    <3>2. Told'
      BY <2>2, <3>1 DEF Told
    <3> QED
      BY <1>1, <1>2, <1>3, <1>4, <1>6, <3>1, <3>2, LoopSteps DEF Books
  <2>4. CASE CycleEndsFrame
    <3>1. /\ misused' = misused \cup Diagnosed(hart')
          /\ desktop' \in [phase : {"events", "cycles", "over"}, closing : BOOLEAN, quit : BOOLEAN]
          /\ Stopped(hart'.status) => desktop'.phase = "over"
      BY <2>4 DEF CycleEndsFrame, Books, Stopped
    <3>2. Told'
      BY <1>1, <2>1, <2>2, <3>1 DEF Told, Diagnosed, Stopped
    <3> QED
      BY <1>1, <1>2, <1>3, <1>4, <1>6, <3>1, <3>2, LoopSteps
  <2> QED
    BY <1>8, <2>3, <2>4
<1> QED
  BY <1>7, <1>8 DEF OfCycle

LEMMA NextBooks == ASSUME Books, [Next]_vars PROVE Books'
<1>1. ASSUME UNCHANGED vars PROVE Books'
  <2>1. /\ Inv' /\ hart' = hart /\ main' = main /\ desktop' = desktop /\ misused' = misused
    BY <1>1 DEF vars, Books, Inv, WellTyped, Unheard, Deaf, MainRecord, InLoop
  <2> QED
    BY <2>1 DEF Books, FreshIfPaused, Accounted, Told, UsesWhatItHolds, EndsClean, Ended
<1>2. ASSUME Next PROVE Books'
  BY <1>2, StepSucceedsBooks, StepFailsBooks, EmulatorEndsBooks, NewlibEndsBooks, FantasyEndsBooks,
     OthersEndBooks, ResumesBooks, KeyBooks, DesktopBooks, CycleBooks, NextCases DEF OfMain
<1> QED
  BY <1>1, <1>2

\* Whatever the guest, and whichever steps fail, no front end uses or releases
\* what it does not hold, but for the exceptions UsesWhatItHolds names.
THEOREM NothingElseMisused == Spec => []UsesWhatItHolds
<1>1. Books => UsesWhatItHolds
  BY DEF Books
<1> QED
  BY <1>1, InitBooks, NextBooks, PTL DEF Spec

\* Whatever the guest, and whichever steps fail, a front end that ends has
\* released what it held and says so, but for the exceptions EndsClean names.
THEOREM EndsAlwaysClean == Spec => []EndsClean
<1>1. Books => EndsClean
  BY DEF Books
<1> QED
  BY <1>1, InitBooks, NextBooks, PTL DEF Spec
=============================================================================
