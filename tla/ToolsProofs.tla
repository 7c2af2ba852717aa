----------------------------- MODULE ToolsProofs -----------------------------
(***************************************************************************)
(* For all object files, instruction files, options and any number of runs *)
(* and edits:                                                              *)
(*   - a dump is a dead end: what --dump-input-instructions wrote lacks    *)
(*     the stack pointer, so reading it ends llvm-bleach before anything   *)
(*     that was read with it reaches the output;                           *)
(*   - a tool that succeeds has written what it was asked for: what each   *)
(*     step has written by then is part of the invariant;                  *)
(*   - files that do not belong together are lifted only after mctomir     *)
(*     failed or was not asked for the symbols.                            *)
(***************************************************************************)
EXTENDS Tools, TLAPS

\* What a tool has read keeps its four parts.
ReadShape ==
    read = [elf |-> read.elf, input |-> read.input,
            config |-> read.config, symtab |-> read.symtab]

\* Dumps have no stack pointer, neither as they are written nor as they are
\* used; and what was read or written from it is no dump.
DumpsUseless ==
    /\ dump.state = "whole" => ~dump.yaml.stack_pointer
    /\ config.dumped => ~config.yaml.stack_pointer

NoDumpRead == ~read.config.dumped /\ ~out.from.config.dumped

IInv == ReadShape /\ DumpsUseless /\ NoDumpRead

\* Initially nothing was dumped.
LEMMA InitIInv == Init => IInv
<1>1. SUFFICES ASSUME Init PROVE IInv
  OBVIOUS
<1>2. config.dumped = FALSE /\ dump.state = "absent"
  BY <1>1 DEF Init
<1>3. read.config = config /\ out.from = read
  BY <1>1 DEF Init
<1>4. ReadShape
  BY <1>1 DEF Init, ReadShape
<1> QED
  BY <1>2, <1>3, <1>4 DEF IInv, DumpsUseless, NoDumpRead

\* What is written lacks the stack pointer, what is read has it.
LEMMA SavedLacks == ASSUME NEW y PROVE ~save_to_yaml(y).stack_pointer
  BY DEF save_to_yaml

LEMMA LoadedHas == ASSUME NEW y, Loads(y) PROVE y.stack_pointer
  BY DEF Loads

\* Every step keeps the invariant: edits by what the user can put there,
\* reading by Loads, writing the dump by save_to_yaml, and output by what was read.
LEMMA NextIInv == IInv /\ [Next]_vars => IInv'
<1> SUFFICES ASSUME IInv, [Next]_vars PROVE IInv'
  OBVIOUS
<1> USE DEF IInv
<1>1. ASSUME NEW b \in Builds, Rebuild(b) PROVE IInv'
  BY <1>1 DEF Rebuild, Edits, ReadShape, DumpsUseless, NoDumpRead
<1>2. ASSUME NEW c \in Configs, WriteConfig(c) PROVE IInv'
  BY <1>2 DEF WriteConfig, Edits, ReadShape, DumpsUseless, NoDumpRead
<1>3. CASE UseDump
  BY <1>3 DEF UseDump, Edits, ReadShape, DumpsUseless, NoDumpRead
<1>4. CASE StartMctomir \/ StartBleach
  BY <1>4 DEF StartMctomir, StartBleach, Start, ReadShape, DumpsUseless, NoDumpRead
<1>5. CASE LiftElf
  <2>1. read' = read \/ read' = [read EXCEPT !.elf = elf]
    BY <1>5 DEF LiftElf
  <2>2. read'.config = read.config /\ ReadShape'
    BY <2>1 DEF ReadShape
  <2> QED
    BY <1>5, <2>2 DEF LiftElf, DumpsUseless, NoDumpRead
<1>6. CASE SaveSymtab \/ WriteMir \/ CannotOpen \/ WriteHeader
  BY <1>6 DEF SaveSymtab, WriteMir, CannotOpen, WriteHeader, ReadShape, DumpsUseless, NoDumpRead
<1>7. CASE read_or_translate_mir
  <2>1. read' = read \/ \E e, i : read' = [read EXCEPT !.elf = e, !.input = i]
    BY <1>7 DEF read_or_translate_mir, Fails
  <2>2. read'.config = read.config /\ ReadShape'
    BY <2>1 DEF ReadShape
  <2> QED
    BY <1>7, <2>2 DEF read_or_translate_mir, DumpsUseless, NoDumpRead
<1>8. CASE LoadInstructions
  <2>1. read' = read \/ (Loads(config.yaml) /\ read' = [read EXCEPT !.config = config])
    BY <1>8 DEF LoadInstructions, Fails
  <2>2. CASE read' = read
    BY <1>8, <2>2 DEF LoadInstructions, ReadShape, DumpsUseless, NoDumpRead
  <2>3. CASE Loads(config.yaml) /\ read' = [read EXCEPT !.config = config]
    <3>1. ~config.dumped
      BY <2>3, LoadedHas DEF DumpsUseless
    <3>2. read'.config = config /\ ReadShape'
      BY <2>3 DEF ReadShape
    <3> QED
      BY <1>8, <3>1, <3>2 DEF LoadInstructions, DumpsUseless, NoDumpRead
  <2> QED
    BY <2>1, <2>2, <2>3
<1>9. CASE DumpInstructions
  <2>1. dump' = dump \/ dump' = [state |-> "whole", yaml |-> save_to_yaml(read.config.yaml)]
    BY <1>9 DEF DumpInstructions
  <2>2. dump'.state = "whole" => ~dump'.yaml.stack_pointer
    BY <2>1, SavedLacks DEF DumpsUseless
  <2> QED
    BY <1>9, <2>2 DEF DumpInstructions, ReadShape, DumpsUseless, NoDumpRead
<1>10. CASE ReadSymtab
  <2>1. read' = read \/ \E s : read' = [read EXCEPT !.symtab = s]
    BY <1>10 DEF ReadSymtab, Fails
  <2>2. read'.config = read.config /\ ReadShape'
    BY <2>1 DEF ReadShape
  <2> QED
    BY <1>10, <2>2 DEF ReadSymtab, DumpsUseless, NoDumpRead
<1>11. CASE RunPass
  BY <1>11 DEF RunPass, Fails, ReadShape, DumpsUseless, NoDumpRead
<1>12. CASE WriteOut
  <2>1. out'.from = read /\ UNCHANGED <<dump, config, read>>
    BY <1>12 DEF WriteOut
  <2> QED
    BY <2>1 DEF ReadShape, DumpsUseless, NoDumpRead
<1>13. CASE UNCHANGED vars
  BY <1>13 DEF vars, ReadShape, DumpsUseless, NoDumpRead
<1> QED
  BY <1>1, <1>2, <1>3, <1>4, <1>5, <1>6, <1>7, <1>8, <1>9, <1>10, <1>11, <1>12, <1>13 DEF Next

\* Nothing is ever lifted with a file that --dump-input-instructions wrote
\* (instr-impl.cpp:24, 135).
THEOREM DumpIsDeadEnd == Spec => []NeverLiftsByDump
<1>1. IInv => NeverLiftsByDump
  BY DEF IInv, NoDumpRead, NeverLiftsByDump
<1> QED
  BY <1>1, InitIInv, NextIInv, PTL DEF Spec

-----------------------------------------------------------------------------
(* A tool that succeeds *)

Logged ==
    [tool : {"mctomir", "llvm-bleach"}, opts : SUBSET {"mir", "instructions", "dump", "symtab", "header"},
     status : {"running", "success", "failure"}]

\* The last run is running if a tool is, no other one.
LogOK ==
    /\ log \in Seq(Logged)
    /\ \A r \in 1..Run : log[r].status = "running" <=> tool # "none" /\ r = Run
    /\ tool # "none" => Run \in 1..Run /\ log[Run].tool = tool

FileStates == {"absent", "cut", "whole"}

FilesOK ==
    /\ mir.state \in FileStates /\ mir.run \in 0..Run
    /\ symtab = [state |-> symtab.state, run |-> symtab.run, number |-> symtab.number]
    /\ symtab.state \in FileStates /\ symtab.run \in 0..Run
    /\ dump.state \in FileStates
    /\ header.state \in FileStates /\ header.run \in 0..Run
    /\ out.state \in FileStates /\ out.run \in 0..Run
    /\ read.symtab.state \in FileStates \cup {"none"}
    /\ faults \in 0..MaxFaults

\* What a tool has written when it comes to a step.
MctomirSteps == {"lift", "save_symtab", "write_mir"}
ConfiguredSteps == {"config", "dump", "symtab", "pass", "header", "write_out"}
WrittenSoFar ==
    /\ at \in {"none", "input"} \cup MctomirSteps \cup ConfiguredSteps
    /\ at = "none" <=> tool = "none"
    /\ at \in MctomirSteps => tool = "mctomir"
    /\ at \in {"input"} \cup ConfiguredSteps => tool = "llvm-bleach"
    /\ at = "write_mir" /\ "symtab" \in Opts =>
            symtab.run = Run /\ symtab.number = read.elf.number
    /\ at = "input" => Run \notin {out.run, header.run}
    /\ at \in ConfiguredSteps => "instructions" \in Opts
    /\ at = "write_out" /\ "header" \in Opts => header.run = Run

WInv == ReadShape /\ LogOK /\ FilesOK /\ WrittenSoFar /\ SuccessWritesAll

\* Initially no tool was started and no file is there but the user's.
LEMMA InitWInv == Init => WInv
<1> SUFFICES ASSUME Init PROVE WInv
  OBVIOUS
<1>1. Run = 0 /\ log = << >>
  BY DEF Init, Run
<1>2. ReadShape
  BY DEF Init, ReadShape
<1>3. LogOK
  BY <1>1 DEF Init, LogOK
<1>4. FilesOK
  BY <1>1, ToolsAssumption DEF Init, FilesOK, FileStates
<1>5. WrittenSoFar
  BY DEF Init, WrittenSoFar, MctomirSteps, ConfiguredSteps
<1>6. SuccessWritesAll
  BY <1>1 DEF SuccessWritesAll, Ended
<1> QED
  BY <1>2, <1>3, <1>4, <1>5, <1>6 DEF WInv

\* While a tool goes on the log stays, and its run has not ended.
LEMMA GoesKeeps ==
    ASSUME NEW next, LogOK, tool # "none", Goes(next)
    PROVE LogOK' /\ SuccessWritesAll' /\ Run' = Run /\ Opts' = Opts /\ tool' = tool /\ at' = next
<1>1. log' = log /\ tool' = tool /\ at' = next
  BY DEF Goes
<1>2. LogOK'
  BY <1>1 DEF LogOK, Run
<1>3. Run' \notin Ended'
  BY <1>2, <1>1 DEF LogOK, Ended, Run
<1> QED
  BY <1>1, <1>2, <1>3 DEF SuccessWritesAll, Run, Opts

\* When a tool ends its run has the status, and nothing else of the log changes.
LEMMA EndsKeeps ==
    ASSUME NEW status \in {"success", "failure"}, LogOK, tool # "none", Ends(status)
    PROVE /\ LogOK' /\ Run' = Run /\ tool' = "none" /\ at' = "none"
          /\ log'[Run].status = status /\ log'[Run].opts = Opts /\ log'[Run].tool = tool
<1>1. log \in Seq(Logged) /\ Run \in 1..Len(log)
  BY DEF LogOK, Run
<1>2. log[Run] \in Logged
  BY <1>1
<1>3. log' = [log EXCEPT ![Run] = [log[Run] EXCEPT !.status = status]]
  BY DEF Ends
<1>4. [log[Run] EXCEPT !.status = status] =
        [tool |-> log[Run].tool, opts |-> log[Run].opts, status |-> status]
  BY <1>2 DEF Logged
<1>5. [log[Run] EXCEPT !.status = status] \in Logged
  BY <1>2, <1>4 DEF Logged
<1>6. log' \in Seq(Logged) /\ Len(log') = Len(log)
  BY <1>1, <1>3, <1>5
<1>7. Run' = Run /\ tool' = "none" /\ at' = "none"
  BY <1>6 DEF Run, Ends
<1>8. log'[Run] = [tool |-> log[Run].tool, opts |-> log[Run].opts, status |-> status]
  BY <1>1, <1>3, <1>4
<1>9. \A r \in 1..Run : r # Run => log'[r] = log[r]
  BY <1>1, <1>3 DEF Run
<1>10. \A r \in 1..Run : log'[r].status # "running"
  BY <1>8, <1>9 DEF LogOK
<1>11. LogOK'
  BY <1>6, <1>7, <1>10 DEF LogOK
<1> QED
  BY <1>7, <1>8, <1>11 DEF Opts, LogOK

\* A tool that fails promises nothing.
LEMMA FailureKeeps ==
    ASSUME LogOK, tool # "none", Ends("failure")
    PROVE LogOK' /\ SuccessWritesAll' /\ Run' = Run /\ tool' = "none" /\ at' = "none"
<1>1. /\ LogOK' /\ Run' = Run /\ tool' = "none" /\ at' = "none"
      /\ log'[Run].status = "failure"
  BY EndsKeeps
<1>2. SuccessWritesAll'
  BY <1>1 DEF SuccessWritesAll, Succeeded
<1> QED
  BY <1>1, <1>2

\* Writing leaves a file, whole or cut short.
LEMMA OutcomesAre ==
    ASSUME NEW o \in Outcomes, faults \in 0..MaxFaults
    PROVE o.state \in {"cut", "whole"} /\ faults + o.fault \in 0..MaxFaults
  BY ToolsAssumption DEF Outcomes

\* The user's edits touch neither what tools wrote last nor their log.
LEMMA EditsKeepWInv == ASSUME WInv, Edits PROVE FilesOK' /\ LogOK' /\ WrittenSoFar' /\ SuccessWritesAll'
  BY DEF WInv, Edits, Idle, FilesOK, LogOK, WrittenSoFar, SuccessWritesAll, Run, Opts, Ended,
         Succeeded, Asked

\* A tool starts with the next run, which has written nothing yet.
LEMMA StartKeepsWInv ==
    ASSUME WInv, NEW t, NEW first, NEW opts \in SUBSET {"mir", "instructions", "dump", "symtab", "header"},
           <<t, first>> \in {<<"mctomir", "lift">>, <<"llvm-bleach", "input">>},
           Start(t, first, opts)
    PROVE WInv'
<1>1. Run \in Nat /\ log \in Seq(Logged) /\ tool = "none"
  BY DEF WInv, LogOK, Start, Idle, Run
<1>2. [tool |-> t, opts |-> opts, status |-> "running"] \in Logged
  BY DEF Logged
<1>3. log' = Append(log, [tool |-> t, opts |-> opts, status |-> "running"])
  BY DEF Start
<1>4. log' \in Seq(Logged) /\ Run' = Run + 1
  BY <1>1, <1>2, <1>3 DEF Run
<1>5. log'[Run'] = [tool |-> t, opts |-> opts, status |-> "running"]
  BY <1>1, <1>3, <1>4 DEF Run
<1>6. \A r \in 1..Run : log'[r] = log[r]
  BY <1>1, <1>3 DEF Run
<1>7. tool' = t /\ at' = first /\ t # "none" /\ first \in {"lift", "input"}
  BY DEF Start
<1>8. LogOK'
  <2>1. \A r \in 1..Run' : log'[r].status = "running" <=> r = Run'
    <3>1. \A r \in 1..Run : log[r].status # "running"
      BY <1>1 DEF WInv, LogOK
    <3> QED
      BY <3>1, <1>1, <1>4, <1>5, <1>6
  <2> QED
    BY <2>1, <1>1, <1>4, <1>5, <1>7 DEF LogOK
<1>9. FilesOK'
  BY <1>1, <1>4 DEF WInv, FilesOK, Start, Run
<1>10. WrittenSoFar'
  <2>1. out'.run = out.run /\ header'.run = header.run /\ out.run \in 0..Run /\ header.run \in 0..Run
    BY DEF Start, WInv, FilesOK
  <2> QED
    BY <2>1, <1>1, <1>4, <1>7 DEF WrittenSoFar, MctomirSteps, ConfiguredSteps
<1>11. SuccessWritesAll'
  BY <1>5 DEF SuccessWritesAll, Succeeded
<1>12. ReadShape'
  BY DEF WInv, ReadShape, Start
<1> QED
  BY <1>8, <1>9, <1>10, <1>11, <1>12 DEF WInv

\* Every step of mctomir.
LEMMA MctomirKeepsWInv ==
    ASSUME WInv, LiftElf \/ SaveSymtab \/ WriteMir PROVE WInv'
<1>1. tool # "none"
  BY DEF WInv, WrittenSoFar, LiftElf, SaveSymtab, WriteMir, MctomirSteps
<1>2. Run \in Nat /\ tool = "mctomir" /\ LogOK /\ log[Run].tool = tool
  BY <1>1 DEF WInv, LogOK, WrittenSoFar, LiftElf, SaveSymtab, WriteMir, MctomirSteps
<1>3. CASE LiftElf
  <2>1. CASE lift_elf_file(elf.build)
    <3>1. read' = [read EXCEPT !.elf = elf]
      BY <1>3, <2>1 DEF LiftElf
    <3>2. ReadShape' /\ read'.symtab = read.symtab
      BY <3>1 DEF WInv, ReadShape
    <3>3. Goes(IF "symtab" \in Opts THEN "save_symtab" ELSE "write_mir")
      BY <1>3, <2>1 DEF LiftElf
    <3>4. LogOK' /\ SuccessWritesAll' /\ Run' = Run /\ Opts' = Opts /\ tool' = tool
          /\ at' = (IF "symtab" \in Opts THEN "save_symtab" ELSE "write_mir")
      BY <3>3, <1>1, <1>2, GoesKeeps
    <3>5. FilesOK'
      BY <1>3, <3>2, <3>4 DEF WInv, FilesOK, LiftElf
    <3>6. WrittenSoFar'
      BY <1>2, <3>4 DEF WrittenSoFar, MctomirSteps, ConfiguredSteps
    <3> QED
      BY <3>2, <3>4, <3>5, <3>6 DEF WInv
  <2>2. CASE ~lift_elf_file(elf.build)
    <3>1. Ends("failure") /\ read' = read
      BY <1>3, <2>2 DEF LiftElf
    <3>2. LogOK' /\ SuccessWritesAll' /\ Run' = Run /\ tool' = "none" /\ at' = "none"
      BY <3>1, <1>1, <1>2, FailureKeeps
    <3>3. FilesOK' /\ ReadShape'
      BY <1>3, <3>1, <3>2 DEF WInv, FilesOK, LiftElf, ReadShape
    <3>4. WrittenSoFar'
      BY <3>2 DEF WrittenSoFar, MctomirSteps, ConfiguredSteps
    <3> QED
      BY <3>2, <3>3, <3>4 DEF WInv
  <2> QED
    BY <2>1, <2>2
<1>4. CASE SaveSymtab
  <2>1. PICK o \in Outcomes :
          /\ symtab' = [state |-> o.state, run |-> Run, number |-> read.elf.number]
          /\ faults' = faults + o.fault
    BY <1>4 DEF SaveSymtab
  <2>2. o.state \in {"cut", "whole"} /\ faults' \in 0..MaxFaults
    BY <2>1, OutcomesAre DEF WInv, FilesOK
  <2>3. LogOK' /\ SuccessWritesAll' /\ Run' = Run /\ Opts' = Opts /\ tool' = tool /\ at' = "write_mir"
    BY <1>4, <1>1, <1>2, GoesKeeps DEF SaveSymtab
  <2>4. FilesOK' /\ ReadShape'
    BY <1>2, <1>4, <2>1, <2>2, <2>3 DEF WInv, FilesOK, SaveSymtab, FileStates, ReadShape
  <2>5. WrittenSoFar'
    BY <1>2, <1>4, <2>1, <2>3 DEF WrittenSoFar, MctomirSteps, ConfiguredSteps, SaveSymtab
  <2> QED
    BY <2>3, <2>4, <2>5 DEF WInv
<1>5. CASE WriteMir
  <2>1. PICK o \in Outcomes :
          /\ mir' = [state |-> o.state, run |-> Run, elf |-> read.elf]
          /\ faults' = faults + o.fault
          /\ Ends(EndAfter(o.state))
    BY <1>5 DEF WriteMir
  <2>2. o.state \in {"cut", "whole"} /\ faults' \in 0..MaxFaults
    BY <2>1, OutcomesAre DEF WInv, FilesOK
  <2>3. EndAfter(o.state) \in {"success", "failure"}
    BY DEF EndAfter
  <2>4. /\ LogOK' /\ Run' = Run /\ tool' = "none" /\ at' = "none"
        /\ log'[Run].status = EndAfter(o.state) /\ log'[Run].opts = Opts /\ log'[Run].tool = tool
    BY <1>1, <1>2, <2>1, <2>3, EndsKeeps
  <2>5. FilesOK' /\ ReadShape'
    BY <1>2, <1>5, <2>1, <2>2, <2>4 DEF WInv, FilesOK, WriteMir, FileStates, ReadShape
  <2>6. WrittenSoFar'
    BY <2>4 DEF WrittenSoFar, MctomirSteps, ConfiguredSteps
  <2>7. SuccessWritesAll'
    <3>1. log'[Run].status = "success" => o.state = "whole"
      BY <2>4 DEF EndAfter
    <3>2. "symtab" \in Opts => symtab.run = Run /\ symtab.number = read.elf.number
      BY <1>5 DEF WInv, WrittenSoFar, WriteMir
    <3>3. symtab' = symtab
      BY <1>5 DEF WriteMir
    <3> QED
      BY <1>2, <2>1, <2>4, <3>1, <3>2, <3>3 DEF SuccessWritesAll, Succeeded, Asked
  <2> QED
    BY <2>4, <2>5, <2>6, <2>7 DEF WInv
<1> QED
  BY <1>3, <1>4, <1>5

\* A step of llvm-bleach between reading its input and its output that writes
\* no file, or the dump.
LEMMA BleachGoesOn ==
    ASSUME WInv, tool = "llvm-bleach",
           NEW next \in ConfiguredSteps, next = "write_out" => "header" \notin Opts,
           "instructions" \in Opts, Goes(next),
           ReadShape', read'.symtab.state \in FileStates \cup {"none"}, dump'.state \in FileStates,
           UNCHANGED <<mir, symtab, header, out, faults>>
    PROVE WInv'
<1>1. /\ LogOK' /\ SuccessWritesAll' /\ Run' = Run /\ Opts' = Opts /\ tool' = tool
      /\ at' = next
  BY GoesKeeps DEF WInv
<1>2. FilesOK'
  BY <1>1 DEF WInv, FilesOK
<1>3. WrittenSoFar'
  BY <1>1 DEF WrittenSoFar, MctomirSteps, ConfiguredSteps
<1> QED
  BY <1>1, <1>2, <1>3 DEF WInv

\* A tool that ends without success.
LEMMA FailingKeepsWInv ==
    ASSUME WInv, tool # "none", Ends("failure"), UNCHANGED <<mir, symtab, dump, header, out, read>>,
           faults' \in 0..MaxFaults
    PROVE WInv'
<1>1. LogOK' /\ SuccessWritesAll' /\ Run' = Run /\ tool' = "none" /\ at' = "none"
  BY FailureKeeps DEF WInv
<1>2. FilesOK' /\ ReadShape'
  BY <1>1 DEF WInv, FilesOK, ReadShape
<1>3. WrittenSoFar'
  BY <1>1 DEF WrittenSoFar, MctomirSteps, ConfiguredSteps
<1> QED
  BY <1>1, <1>2, <1>3 DEF WInv

\* The steps of llvm-bleach before it writes its output.
LEMMA BleachKeepsWInv ==
    ASSUME WInv, read_or_translate_mir \/ LoadInstructions \/ DumpInstructions \/ ReadSymtab \/ RunPass
    PROVE WInv'
<1> DEFINE Here == {"input", "config", "dump", "symtab", "pass"}
<1>1. at \in Here
  BY DEF read_or_translate_mir, LoadInstructions, DumpInstructions, ReadSymtab, RunPass
<1>2. tool = "llvm-bleach" /\ (at # "input" => "instructions" \in Opts)
  BY <1>1 DEF WInv, WrittenSoFar, ConfiguredSteps
<1>3. faults \in 0..MaxFaults /\ dump.state \in FileStates
      /\ read.symtab.state \in FileStates \cup {"none"} /\ ReadShape
  BY DEF WInv, FilesOK
<1>4. UNCHANGED <<mir, symtab, header, out, faults>>
  BY DEF read_or_translate_mir, LoadInstructions, DumpInstructions, ReadSymtab, RunPass
<1>5. ASSUME Fails, UNCHANGED dump PROVE WInv'
  BY <1>2, <1>3, <1>4, <1>5, FailingKeepsWInv DEF Fails
<1>6. CASE read_or_translate_mir
  <2>1. dump' = dump
    BY <1>6 DEF read_or_translate_mir
  <2>2. \/ Fails
        \/ /\ \E e, i : read' = [read EXCEPT !.elf = e, !.input = i]
           /\ IF "instructions" \in Opts THEN Goes("config") ELSE Ends("success")
    BY <1>6 DEF read_or_translate_mir
  <2>3. CASE ~Fails
    <3>1. ReadShape' /\ read'.symtab = read.symtab
      BY <2>2, <2>3, <1>3 DEF ReadShape
    <3>2. CASE "instructions" \in Opts
      BY <1>2, <1>3, <1>4, <2>1, <2>2, <2>3, <3>1, <3>2, BleachGoesOn DEF ConfiguredSteps
    <3>3. CASE "instructions" \notin Opts
      <4>1. Ends("success")
        BY <2>2, <2>3, <3>3
      <4>2. /\ LogOK' /\ Run' = Run /\ tool' = "none" /\ at' = "none"
            /\ log'[Run].opts = Opts /\ log'[Run].tool = "llvm-bleach"
        BY <1>2, <4>1, EndsKeeps DEF WInv
      <4>3. FilesOK'
        BY <1>3, <1>4, <2>1, <3>1, <4>2 DEF WInv, FilesOK
      <4>4. WrittenSoFar'
        BY <4>2 DEF WrittenSoFar, MctomirSteps, ConfiguredSteps
      <4>5. Run \notin {out.run, header.run}
        BY <1>6 DEF WInv, WrittenSoFar, read_or_translate_mir
      <4>6. SuccessWritesAll'
        BY <1>4, <3>3, <4>2, <4>5 DEF SuccessWritesAll, Asked
      <4> QED
        BY <3>1, <4>2, <4>3, <4>4, <4>6 DEF WInv
    <3> QED
      BY <3>2, <3>3
  <2> QED
    BY <1>5, <2>1, <2>3
<1>7. CASE LoadInstructions
  <2>1. dump' = dump /\ at = "config"
    BY <1>7 DEF LoadInstructions
  <2>2. \/ Fails
        \/ /\ read' = [read EXCEPT !.config = config]
           /\ Goes(IF "dump" \in Opts THEN "dump" ELSE "symtab")
    BY <1>7 DEF LoadInstructions
  <2>3. CASE ~Fails
    <3>1. ReadShape' /\ read'.symtab = read.symtab
      BY <2>2, <2>3, <1>3 DEF ReadShape
    <3>2. Goes("dump") \/ Goes("symtab")
      BY <2>2, <2>3
    <3> QED
      BY <1>2, <1>3, <1>4, <2>1, <3>1, <3>2, BleachGoesOn DEF ConfiguredSteps
  <2> QED
    BY <1>5, <2>1, <2>3
<1>8. CASE DumpInstructions
  <2>1. read' = read /\ ReadShape' /\ at = "dump"
    BY <1>3, <1>8 DEF DumpInstructions, ReadShape
  <2>2. CASE Saves(read.config.yaml)
    <3>1. Goes("symtab") /\ dump'.state \in FileStates
      BY <1>8, <2>2 DEF DumpInstructions, FileStates
    <3> QED
      BY <1>2, <1>3, <1>4, <2>1, <3>1, BleachGoesOn DEF ConfiguredSteps
  <2>3. CASE ~Saves(read.config.yaml)
    BY <1>5, <1>8, <2>1, <2>3 DEF DumpInstructions, Fails
  <2> QED
    BY <2>2, <2>3
<1>9. CASE ReadSymtab
  <2>1. dump' = dump /\ at = "symtab"
    BY <1>9 DEF ReadSymtab
  <2>2. CASE ~Fails
    <3>1. PICK s \in {"none", "absent", "cut", "whole", symtab.state} :
             /\ read' = [read EXCEPT !.symtab = [symtab EXCEPT !.state = s]]
             /\ Goes("pass")
      <4> DEFINE AsRead == CASE "symtab" \notin Opts -> {"none"}
                             [] symtab.state = "cut" -> {"absent", "whole"}
                             [] OTHER -> {symtab.state}
      <4>1. AsRead \subseteq {"none", "absent", "cut", "whole", symtab.state}
        <5>1. CASE "symtab" \in Opts /\ symtab.state = "cut"
          BY <5>1
        <5>2. CASE "symtab" \notin Opts /\ symtab.state = "cut"
          BY <5>2
        <5>3. CASE "symtab" \notin Opts /\ symtab.state # "cut"
          BY <5>3
        <5>4. CASE "symtab" \in Opts /\ symtab.state # "cut"
          BY <5>4
        <5> QED
          BY <5>1, <5>2, <5>3, <5>4
      <4>2. \E s \in AsRead :
                /\ read' = [read EXCEPT !.symtab = [symtab EXCEPT !.state = s]]
                /\ Goes("pass")
        BY <1>9, <2>2, Zenon DEF ReadSymtab, Fails
      <4> HIDE DEF AsRead
      <4> QED
        BY <4>1, <4>2
    <3>2. s \in FileStates \cup {"none"}
      BY <3>1 DEF WInv, FilesOK, FileStates
    <3>3. [symtab EXCEPT !.state = s].state = s
      BY DEF WInv, FilesOK
    <3>4. ReadShape' /\ read'.symtab = [symtab EXCEPT !.state = s]
      BY <1>3, <3>1 DEF ReadShape
    <3> QED
      BY <1>2, <1>3, <1>4, <2>1, <3>1, <3>2, <3>3, <3>4, BleachGoesOn DEF ConfiguredSteps
  <2> QED
    BY <1>5, <2>1, <2>2
<1>10. CASE RunPass
  <2>1. dump' = dump /\ at = "pass"
    BY <1>10 DEF RunPass
  <2>2. CASE ~Fails
    <3>1. read' = read /\ Goes(IF "header" \in Opts THEN "header" ELSE "write_out")
      BY <1>10, <2>2 DEF RunPass
    <3>2. ReadShape'
      BY <1>3, <3>1 DEF ReadShape
    <3>3. CASE "header" \in Opts
      BY <1>2, <1>3, <1>4, <2>1, <3>1, <3>2, <3>3, BleachGoesOn DEF ConfiguredSteps
    <3>4. CASE "header" \notin Opts
      BY <1>2, <1>3, <1>4, <2>1, <3>1, <3>2, <3>4, BleachGoesOn DEF ConfiguredSteps
    <3> QED
      BY <3>3, <3>4
  <2> QED
    BY <1>5, <2>1, <2>2
<1> QED
  BY <1>6, <1>7, <1>8, <1>9, <1>10

\* What llvm-bleach writes in the end.
LEMMA OutputKeepsWInv == ASSUME WInv, WriteHeader \/ WriteOut \/ CannotOpen PROVE WInv'
<1>1. tool # "none"
  BY DEF WInv, WrittenSoFar, WriteHeader, WriteOut, CannotOpen, ConfiguredSteps, MctomirSteps
<1>2. Run \in Nat /\ LogOK /\ log[Run].tool = tool
  BY <1>1 DEF WInv, LogOK, Run
<1>3. CASE CannotOpen
  <2>1. faults' \in 0..MaxFaults
    BY <1>3, ToolsAssumption DEF WInv, FilesOK, CannotOpen
  <2> QED
    BY <1>1, <1>3, <2>1, FailingKeepsWInv DEF CannotOpen
<1>4. CASE WriteHeader
  <2>1. PICK o \in Outcomes :
          header' = [state |-> o.state, run |-> Run] /\ faults' = faults + o.fault
    BY <1>4 DEF WriteHeader
  <2>2. o.state \in {"cut", "whole"} /\ faults' \in 0..MaxFaults
    BY <2>1, OutcomesAre DEF WInv, FilesOK
  <2>3. LogOK' /\ SuccessWritesAll' /\ Run' = Run /\ Opts' = Opts /\ tool' = tool /\ at' = "write_out"
    BY <1>4, <1>1, <1>2, GoesKeeps DEF WriteHeader
  <2>4. FilesOK' /\ ReadShape'
    BY <1>2, <1>4, <2>1, <2>2, <2>3 DEF WInv, FilesOK, WriteHeader, FileStates, ReadShape
  <2>5. WrittenSoFar'
    BY <1>4, <2>1, <2>3 DEF WInv, WrittenSoFar, MctomirSteps, ConfiguredSteps, WriteHeader
  <2> QED
    BY <2>3, <2>4, <2>5 DEF WInv
<1>5. CASE WriteOut
  <2>1. PICK o \in Outcomes :
          /\ out' = [state |-> o.state, run |-> Run, from |-> read]
          /\ faults' = faults + o.fault
          /\ Ends(EndAfter(o.state))
    BY <1>5 DEF WriteOut
  <2>2. o.state \in {"cut", "whole"} /\ faults' \in 0..MaxFaults
    BY <2>1, OutcomesAre DEF WInv, FilesOK
  <2>3. EndAfter(o.state) \in {"success", "failure"}
    BY DEF EndAfter
  <2>4. /\ LogOK' /\ Run' = Run /\ tool' = "none" /\ at' = "none"
        /\ log'[Run].status = EndAfter(o.state) /\ log'[Run].opts = Opts /\ log'[Run].tool = tool
    BY <1>1, <1>2, <2>1, <2>3, EndsKeeps
  <2>5. FilesOK' /\ ReadShape'
    BY <1>2, <1>5, <2>1, <2>2, <2>4 DEF WInv, FilesOK, WriteOut, FileStates, ReadShape
  <2>6. WrittenSoFar'
    BY <2>4 DEF WrittenSoFar, MctomirSteps, ConfiguredSteps
  <2>7. SuccessWritesAll'
    <3>1. log'[Run].status = "success" => o.state = "whole"
      BY <2>4 DEF EndAfter
    <3>2. tool = "llvm-bleach" /\ "instructions" \in Opts /\ ("header" \in Opts => header.run = Run)
      BY <1>5 DEF WInv, WrittenSoFar, WriteOut, ConfiguredSteps
    <3>3. header' = header
      BY <1>5 DEF WriteOut
    <3> QED
      BY <1>2, <2>1, <2>4, <3>1, <3>2, <3>3 DEF SuccessWritesAll, Succeeded, Asked
  <2> QED
    BY <2>4, <2>5, <2>6, <2>7 DEF WInv
<1> QED
  BY <1>3, <1>4, <1>5

\* One step per action.
LEMMA NextWInv == WInv /\ [Next]_vars => WInv'
<1> SUFFICES ASSUME WInv, [Next]_vars PROVE WInv'
  OBVIOUS
<1>1. CASE \/ \E b \in Builds : Rebuild(b)
           \/ \E c \in Configs : WriteConfig(c)
           \/ UseDump
  <2>1. Edits /\ read' = read
    BY <1>1 DEF Rebuild, WriteConfig, UseDump, Edits
  <2>2. ReadShape'
    BY <2>1 DEF WInv, ReadShape
  <2> QED
    BY <2>1, <2>2, EditsKeepWInv DEF WInv
<1>2. CASE StartMctomir
  <2>1. PICK opts \in MctomirRuns : Start("mctomir", "lift", opts)
    BY <1>2 DEF StartMctomir
  <2>2. opts \in SUBSET {"mir", "instructions", "dump", "symtab", "header"}
    BY ToolsAssumption
  <2> QED
    BY <2>1, <2>2, StartKeepsWInv
<1>3. CASE StartBleach
  <2>1. PICK opts \in BleachRuns : Start("llvm-bleach", "input", opts)
    BY <1>3 DEF StartBleach
  <2>2. opts \in SUBSET {"mir", "instructions", "dump", "symtab", "header"}
    BY ToolsAssumption
  <2> QED
    BY <2>1, <2>2, StartKeepsWInv
<1>4. CASE LiftElf \/ SaveSymtab \/ WriteMir
  BY <1>4, MctomirKeepsWInv
<1>5. CASE read_or_translate_mir \/ LoadInstructions \/ DumpInstructions \/ ReadSymtab \/ RunPass
  BY <1>5, BleachKeepsWInv
<1>6. CASE WriteHeader \/ WriteOut \/ CannotOpen
  BY <1>6, OutputKeepsWInv
<1>7. CASE UNCHANGED vars
  BY <1>7 DEF vars, WInv, ReadShape, LogOK, FilesOK, WrittenSoFar, SuccessWritesAll, Run, Opts,
              Ended, Succeeded, Asked
<1> QED
  BY <1>1, <1>2, <1>3, <1>4, <1>5, <1>6, <1>7 DEF Next

\* State keeps its type: a run has a status if and only if its tool has ended.
THEOREM TypeCorrect == Spec => []TypeOK
<1>1. WInv => TypeOK
  <2> SUFFICES ASSUME WInv PROVE TypeOK
    OBVIOUS
  <2>1. tool \in {"none", "mctomir", "llvm-bleach"} /\ (tool = "none" <=> at = "none")
    BY DEF WInv, WrittenSoFar, MctomirSteps, ConfiguredSteps
  <2>2. Run \in Nat
    BY DEF WInv, LogOK, Run
  <2>3. Ended = IF tool = "none" THEN 1..Run ELSE 1..(Run - 1)
    BY <2>2 DEF WInv, LogOK, Ended
  <2> QED
    BY <2>1, <2>3 DEF WInv, FilesOK, FileStates, TypeOK
<1> QED
  BY <1>1, InitWInv, NextWInv, PTL DEF Spec

\* A run that ends well has written all it was asked for (mctomir.cpp:74,
\* lifter.cpp:1401, llvm-bleach.cpp:247).
THEOREM SuccessfulRunsWrite == Spec => []SuccessWritesAll
<1>1. WInv => SuccessWritesAll
  BY DEF WInv
<1> QED
  BY <1>1, InitWInv, NextWInv, PTL DEF Spec

-----------------------------------------------------------------------------
(* Files that do not belong together *)

\* A run of mctomir that failed, is still running, or was not asked for symbols.
Excuse(r) == log[r].tool = "mctomir" /\ (~Succeeded(r) \/ ~Asked(r, "symtab"))
Excused(n) == \E r \in 1..n : Excuse(r)

\* MIR and symbols on disk fit together or there is an excuse; llvm-bleach has
\* read what is there, as nobody writes them while it runs; and its output is
\* from a run before that of mctomir.
FilesFit ==
    mir.state # "absent" /\ (mir.state = "cut" \/ mir.elf.number # symtab.number) => Excused(Run)

ReadFromFiles ==
    /\ at \in ConfiguredSteps /\ FromMir =>
            mir.state # "absent" /\ read.elf = mir.elf /\ read.input = mir.state
    /\ at \in {"pass", "header", "write_out"} /\ "symtab" \in Opts =>
            read.symtab.number = symtab.number

OutputBefore ==
    out.state # "absent" => out.run \in 1..Run /\ (tool = "mctomir" => out.run < Run)

MixInv == FilesFit /\ ReadFromFiles /\ OutputBefore /\ OnlyFailuresMix

\* Initially there is no MIR and no output.
LEMMA InitMixInv == Init => MixInv
  BY DEF Init, MixInv, FilesFit, ReadFromFiles, OutputBefore, OnlyFailuresMix, ConfiguredSteps

\* The output stays as excusable as it was: only a run of mctomir that is at
\* its last step can lose its excuse, and the output is older.
LEMMA OutputKeeps ==
    ASSUME WInv, MixInv, UNCHANGED out,
           \A r \in 1..Run : log'[r].opts = log[r].opts /\ (Excuse(r) => Excuse(r)' \/ r = Run),
           \A r \in 1..Run : Excuse(r) => Excuse(r)' \/ tool = "mctomir"
    PROVE OnlyFailuresMix'
<1>1. CASE out.state = "whole"
  <2>1. out.run \in 1..Run /\ Run \in Nat
    BY <1>1 DEF MixInv, OutputBefore, WInv, LogOK, Run
  <2>2. \A r \in 1..out.run : Excuse(r) => Excuse(r)'
    BY <1>1, <2>1 DEF MixInv, OutputBefore
  <2>3. \A o : Asked(out.run, o)' <=> Asked(out.run, o)
    BY <2>1 DEF Asked
  <2> QED
    BY <2>1, <2>2, <2>3 DEF MixInv, OnlyFailuresMix, Excuse
<1>2. CASE out.state # "whole"
  BY <1>2 DEF OnlyFailuresMix
<1> QED
  BY <1>1, <1>2

\* A step that leaves the log, or lets a run end without success or one of
\* llvm-bleach, leaves the excuses.
LEMMA ExcusesStay ==
    ASSUME WInv,
           \/ log' = log
           \/ tool # "none" /\ Ends("failure")
           \/ tool = "llvm-bleach" /\ Ends("success")
    PROVE /\ Run' = Run
          /\ \A r \in 1..Run : log'[r].opts = log[r].opts /\ (Excuse(r) => Excuse(r)')
<1>1. CASE log' = log
  BY <1>1 DEF Run, Excuse, Succeeded, Asked
<1>2. ASSUME NEW status \in {"success", "failure"}, tool # "none", Ends(status),
             status = "success" => tool = "llvm-bleach"
      PROVE /\ Run' = Run
            /\ \A r \in 1..Run : log'[r].opts = log[r].opts /\ (Excuse(r) => Excuse(r)')
  <2>1. LogOK /\ log \in Seq(Logged) /\ Run \in 1..Len(log)
    BY <1>2 DEF WInv, LogOK, Run
  <2>2. /\ Run' = Run /\ log'[Run].status = status /\ log'[Run].opts = log[Run].opts
        /\ log'[Run].tool = tool /\ log[Run].tool = tool
    BY <1>2, <2>1, EndsKeeps DEF Opts, LogOK
  <2>3. \A r \in 1..Run : r # Run => log'[r] = log[r]
    BY <1>2, <2>1 DEF Ends, Run
  <2> QED
    BY <1>2, <2>2, <2>3 DEF Excuse, Succeeded, Asked
<1> QED
  BY <1>1, <1>2

\* What a step keeps that leaves the files, and the excuses as above.
LEMMA FilesStay ==
    ASSUME WInv, MixInv, UNCHANGED <<mir, symtab, out>>, Run' = Run,
           \A r \in 1..Run : log'[r].opts = log[r].opts /\ (Excuse(r) => Excuse(r)'),
           tool' \in {tool, "none"}
    PROVE FilesFit' /\ OutputBefore' /\ OnlyFailuresMix'
<1>1. FilesFit'
  BY DEF MixInv, FilesFit, Excused
<1>2. OutputBefore'
  BY DEF MixInv, OutputBefore
<1> QED
  BY <1>1, <1>2, OutputKeeps

\* The user and the start of a tool.
LEMMA IdleKeepsMix ==
    ASSUME WInv, WInv', MixInv,
           \/ Edits
           \/ \E t, first, opts : <<t, first>> \in {<<"mctomir", "lift">>, <<"llvm-bleach", "input">>}
                                  /\ Start(t, first, opts)
    PROVE MixInv'
<1>1. CASE Edits
  <2>1. UNCHANGED <<mir, symtab, out, tool, at, read, log>>
    BY <1>1 DEF Edits
  <2>2. FilesFit' /\ OutputBefore' /\ OnlyFailuresMix'
    BY <2>1, ExcusesStay, FilesStay
  <2>3. ReadFromFiles'
    BY <2>1 DEF MixInv, ReadFromFiles, Opts, Run, FromMir
  <2> QED
    BY <2>2, <2>3 DEF MixInv
<1>2. ASSUME NEW t, NEW first, NEW opts, Start(t, first, opts),
             <<t, first>> \in {<<"mctomir", "lift">>, <<"llvm-bleach", "input">>}
      PROVE MixInv'
  <2>1. /\ log' = Append(log, [tool |-> t, opts |-> opts, status |-> "running"])
        /\ at' = first /\ UNCHANGED <<mir, symtab, out>> /\ tool = "none"
    BY <1>2 DEF Start, Idle
  <2>2. log \in Seq(Logged) /\ Run \in Nat
    BY DEF WInv, LogOK, Run
  <2>3. Run' = Run + 1 /\ \A r \in 1..Run : log'[r] = log[r]
    BY <2>1, <2>2 DEF Run
  <2>4. \A r \in 1..Run : log'[r].opts = log[r].opts /\ (Excuse(r) => Excuse(r)')
    BY <2>3 DEF Excuse, Succeeded, Asked
  <2>5. FilesFit'
    BY <2>1, <2>2, <2>3, <2>4 DEF MixInv, FilesFit, Excused
  <2>6. OutputBefore'
    BY <2>1, <2>2, <2>3 DEF MixInv, OutputBefore
  <2>7. ReadFromFiles'
    BY <1>2, <2>1 DEF ReadFromFiles, ConfiguredSteps
  <2> QED
    BY <2>1, <2>4, <2>5, <2>6, <2>7, OutputKeeps DEF MixInv
<1> QED
  BY <1>1, <1>2

\* mctomir: from its first write to its end its own run is the excuse, and
\* when it succeeds with symbols they are those of the MIR.
LEMMA MctomirKeepsMix ==
    ASSUME WInv, WInv', MixInv, LiftElf \/ SaveSymtab \/ WriteMir PROVE MixInv'
<1>1. /\ tool = "mctomir" /\ Run \in 1..Run /\ Run \in Nat /\ log[Run].tool = tool
      /\ log[Run].status = "running" /\ log \in Seq(Logged) /\ LogOK
  BY DEF WInv, LogOK, Run, WrittenSoFar, LiftElf, SaveSymtab, WriteMir, MctomirSteps
<1>2. UNCHANGED out
  BY DEF LiftElf, SaveSymtab, WriteMir
<1>3. at' \notin ConfiguredSteps
  BY DEF LiftElf, SaveSymtab, WriteMir, Goes, Ends, ConfiguredSteps
<1>4. ReadFromFiles'
  BY <1>3 DEF ReadFromFiles, ConfiguredSteps
<1>5. CASE LiftElf
  <2>1. log' = log \/ Ends("failure")
    BY <1>5 DEF LiftElf, Goes
  <2>2. UNCHANGED <<mir, symtab, out>> /\ tool' \in {tool, "none"}
    BY <1>5 DEF LiftElf, Goes, Ends
  <2>3. FilesFit' /\ OutputBefore' /\ OnlyFailuresMix'
    BY <1>1, <2>1, <2>2, ExcusesStay, FilesStay
  <2> QED
    BY <1>4, <2>3 DEF MixInv
<1>6. CASE SaveSymtab
  <2>1. log' = log /\ tool' = tool
    BY <1>6 DEF SaveSymtab, Goes
  <2>2. Run' = Run /\ \A r \in 1..Run : log'[r].opts = log[r].opts /\ (Excuse(r) => Excuse(r)')
    BY <2>1, ExcusesStay
  <2>3. Excuse(Run)'
    BY <1>1, <2>1, <2>2 DEF Excuse, Succeeded
  <2>4. FilesFit'
    BY <1>1, <2>2, <2>3 DEF FilesFit, Excused
  <2>5. OutputBefore'
    BY <1>2, <2>1, <2>2 DEF MixInv, OutputBefore
  <2> QED
    BY <1>2, <1>4, <2>2, <2>4, <2>5, OutputKeeps DEF MixInv
<1>7. CASE WriteMir
  <2>1. PICK o \in Outcomes :
          mir' = [state |-> o.state, run |-> Run, elf |-> read.elf] /\ Ends(EndAfter(o.state))
    BY <1>7 DEF WriteMir
  <2>2. o.state \in {"cut", "whole"} /\ EndAfter(o.state) \in {"success", "failure"}
    BY OutcomesAre DEF WInv, FilesOK, EndAfter
  <2>3. /\ Run' = Run /\ tool' = "none" /\ log'[Run].status = EndAfter(o.state)
        /\ log'[Run].opts = Opts /\ log'[Run].tool = tool
    BY <1>1, <2>1, <2>2, EndsKeeps
  <2>4. \A r \in 1..Run : r # Run => log'[r] = log[r]
    BY <1>1, <2>1 DEF Ends, Run
  <2>5. \A r \in 1..Run : log'[r].opts = log[r].opts /\ (Excuse(r) => Excuse(r)' \/ r = Run)
    BY <2>3, <2>4 DEF Opts, Excuse, Succeeded, Asked
  <2>6. OnlyFailuresMix'
    BY <1>1, <1>2, <2>5, OutputKeeps
  <2>7. OutputBefore'
    BY <1>2, <2>3 DEF MixInv, OutputBefore
  <2>8. FilesFit'
    <3>1. "symtab" \in Opts => read.elf.number = symtab.number
      BY <1>7 DEF WInv, WrittenSoFar, WriteMir
    <3>2. symtab' = symtab
      BY <1>7 DEF WriteMir
    <3>3. CASE o.state = "whole" /\ "symtab" \in Opts
      BY <2>1, <3>1, <3>2, <3>3 DEF FilesFit
    <3>4. CASE o.state = "cut" \/ "symtab" \notin Opts
      <4>1. Excuse(Run)'
        BY <1>1, <2>3, <3>4 DEF Excuse, Succeeded, Asked, EndAfter
      <4> QED
        BY <1>1, <2>3, <4>1 DEF FilesFit, Excused
    <3> QED
      BY <2>2, <3>3, <3>4
  <2> QED
    BY <1>4, <2>6, <2>7, <2>8 DEF MixInv
<1> QED
  BY <1>5, <1>6, <1>7

\* llvm-bleach before its output, and either tool that cannot open a file.
LEMMA BleachKeepsMix ==
    ASSUME WInv, WInv', MixInv,
           \/ read_or_translate_mir \/ LoadInstructions \/ DumpInstructions \/ ReadSymtab \/ RunPass
           \/ WriteHeader \/ CannotOpen
    PROVE MixInv'
<1>1. tool # "none" /\ (tool = "llvm-bleach" \/ CannotOpen)
  BY DEF WInv, WrittenSoFar, read_or_translate_mir, LoadInstructions, DumpInstructions, ReadSymtab,
         RunPass, WriteHeader, CannotOpen, ConfiguredSteps, MctomirSteps
<1>2. UNCHANGED <<mir, symtab, out>>
  BY DEF read_or_translate_mir, LoadInstructions, DumpInstructions, ReadSymtab, RunPass,
         WriteHeader, CannotOpen
<1>3. \/ log' = log /\ tool' = tool
      \/ Ends("failure")
      \/ tool = "llvm-bleach" /\ Ends("success") /\ at = "input"
  BY <1>1 DEF read_or_translate_mir, LoadInstructions, DumpInstructions, ReadSymtab, RunPass,
         WriteHeader, CannotOpen, Goes, Fails
<1>4. tool' \in {tool, "none"}
  BY <1>3 DEF Ends
<1>5. FilesFit' /\ OutputBefore' /\ OnlyFailuresMix'
  BY <1>1, <1>2, <1>3, <1>4, ExcusesStay, FilesStay
<1>6. ReadFromFiles'
  <2>1. CASE at' = "none"
    BY <2>1 DEF ReadFromFiles, ConfiguredSteps
  <2>2. CASE at' # "none"
    <3>1. log' = log /\ Opts' = Opts
      BY <1>3, <2>2 DEF Ends, Opts, Run
    <3>2. ReadShape /\ symtab = [state |-> symtab.state, run |-> symtab.run, number |-> symtab.number]
      BY DEF WInv, FilesOK
    <3>3. CASE read_or_translate_mir
      <4>1. /\ at' = "config"
            /\ FromMir => mir.state # "absent"
                            /\ read' = [read EXCEPT !.elf = mir.elf, !.input = mir.state]
        BY <2>2, <3>3 DEF read_or_translate_mir, Fails, Ends, Goes
      <4>2. FromMir => read'.elf = mir.elf /\ read'.input = mir.state
        BY <3>2, <4>1 DEF ReadShape
      <4> QED
        BY <1>2, <3>1, <4>1, <4>2 DEF ReadFromFiles, FromMir
    <3>4. CASE LoadInstructions
      <4>1. at = "config" /\ at' \in {"dump", "symtab"} /\ read' = [read EXCEPT !.config = config]
        BY <2>2, <3>4 DEF LoadInstructions, Fails, Ends, Goes
      <4>2. read'.elf = read.elf /\ read'.input = read.input
        BY <3>2, <4>1 DEF ReadShape
      <4> QED
        BY <1>2, <3>1, <4>1, <4>2 DEF MixInv, ReadFromFiles, FromMir, ConfiguredSteps
    <3>5. CASE DumpInstructions
      <4>1. at = "dump" /\ at' = "symtab" /\ read' = read
        BY <2>2, <3>5 DEF DumpInstructions, Ends, Goes
      <4> QED
        BY <1>2, <3>1, <4>1 DEF MixInv, ReadFromFiles, FromMir, ConfiguredSteps
    <3>6. CASE ReadSymtab
      <4>1. PICK s : read' = [read EXCEPT !.symtab = [symtab EXCEPT !.state = s]]
        BY <2>2, <3>6 DEF ReadSymtab, Fails, Ends
      <4>2. at = "symtab" /\ at' = "pass"
        BY <2>2, <3>6 DEF ReadSymtab, Fails, Ends, Goes
      <4>3. /\ read'.elf = read.elf /\ read'.input = read.input
            /\ read'.symtab = [symtab EXCEPT !.state = s]
        BY <3>2, <4>1 DEF ReadShape
      <4>4. [symtab EXCEPT !.state = s].number = symtab.number
        BY <3>2
      <4> QED
        BY <1>2, <3>1, <4>2, <4>3, <4>4 DEF MixInv, ReadFromFiles, FromMir, ConfiguredSteps
    <3>7. CASE RunPass
      <4>1. at = "pass" /\ at' \in {"header", "write_out"} /\ read' = read
        BY <2>2, <3>7 DEF RunPass, Fails, Ends, Goes
      <4> QED
        BY <1>2, <3>1, <4>1 DEF MixInv, ReadFromFiles, FromMir, ConfiguredSteps
    <3>8. CASE WriteHeader
      <4>1. at = "header" /\ at' = "write_out" /\ read' = read
        BY <3>8 DEF WriteHeader, Goes
      <4> QED
        BY <1>2, <3>1, <4>1 DEF MixInv, ReadFromFiles, FromMir, ConfiguredSteps
    <3>9. CASE CannotOpen
      BY <2>2, <3>9 DEF CannotOpen, Ends
    <3> QED
      BY <3>3, <3>4, <3>5, <3>6, <3>7, <3>8, <3>9
  <2> QED
    BY <2>1, <2>2
<1> QED
  BY <1>5, <1>6 DEF MixInv

\* The output: what was read is still what is there.
LEMMA WriteOutKeepsMix == ASSUME WInv, WInv', MixInv, WriteOut PROVE MixInv'
<1>1. /\ tool = "llvm-bleach" /\ Run \in 1..Run /\ Run \in Nat /\ LogOK
      /\ at = "write_out" /\ UNCHANGED <<mir, symtab>>
  BY DEF WInv, LogOK, Run, WrittenSoFar, WriteOut, ConfiguredSteps
<1>2. PICK o \in Outcomes :
        out' = [state |-> o.state, run |-> Run, from |-> read] /\ Ends(EndAfter(o.state))
  BY DEF WriteOut
<1>3. EndAfter(o.state) \in {"success", "failure"} /\ tool' = "none" /\ at' = "none"
  BY <1>2 DEF EndAfter, Ends
<1>4. Run' = Run /\ \A r \in 1..Run : log'[r].opts = log[r].opts /\ (Excuse(r) => Excuse(r)')
  BY <1>1, <1>2, <1>3, ExcusesStay
<1>5. FilesFit'
  BY <1>1, <1>4 DEF MixInv, FilesFit, Excused
<1>6. ReadFromFiles' /\ OutputBefore'
  BY <1>1, <1>2, <1>3, <1>4 DEF ReadFromFiles, OutputBefore, ConfiguredSteps
<1>7. OnlyFailuresMix'
  <2> SUFFICES ASSUME Asked(Run, "mir"), Asked(Run, "symtab"),
                      read.input = "cut" \/ read.elf.number # read.symtab.number
               PROVE  Excused(Run)'
    BY <1>1, <1>2, <1>4 DEF OnlyFailuresMix, Excused, Excuse, Asked
  <2>1. mir.state # "absent" /\ read.elf = mir.elf /\ read.input = mir.state
        /\ read.symtab.number = symtab.number
    BY <1>1 DEF MixInv, ReadFromFiles, ConfiguredSteps, FromMir, Asked, Opts
  <2>2. Excused(Run)
    BY <2>1 DEF MixInv, FilesFit
  <2> QED
    BY <2>2, <1>4 DEF Excused
<1> QED
  BY <1>5, <1>6, <1>7 DEF MixInv

\* One step per action.
LEMMA NextMixInv == WInv /\ WInv' /\ MixInv /\ [Next]_vars => MixInv'
<1> SUFFICES ASSUME WInv, WInv', MixInv, [Next]_vars PROVE MixInv'
  OBVIOUS
<1>1. CASE \/ \E b \in Builds : Rebuild(b)
           \/ \E c \in Configs : WriteConfig(c)
           \/ UseDump
  BY <1>1, IdleKeepsMix DEF Rebuild, WriteConfig, UseDump
<1>2. CASE StartMctomir \/ StartBleach
  BY <1>2, IdleKeepsMix DEF StartMctomir, StartBleach
<1>3. CASE LiftElf \/ SaveSymtab \/ WriteMir
  BY <1>3, MctomirKeepsMix
<1>4. CASE \/ read_or_translate_mir \/ LoadInstructions \/ DumpInstructions \/ ReadSymtab
           \/ RunPass \/ WriteHeader \/ CannotOpen
  BY <1>4, BleachKeepsMix
<1>5. CASE WriteOut
  BY <1>5, WriteOutKeepsMix
<1>6. CASE UNCHANGED vars
  <2>1. UNCHANGED <<mir, symtab, out, tool, at, read, log>>
    BY <1>6 DEF vars
  <2>2. FilesFit' /\ OutputBefore' /\ OnlyFailuresMix'
    BY <2>1, ExcusesStay, FilesStay
  <2>3. ReadFromFiles'
    BY <2>1 DEF MixInv, ReadFromFiles, Opts, Run, FromMir
  <2> QED
    BY <2>2, <2>3 DEF MixInv
<1> QED
  BY <1>1, <1>2, <1>3, <1>4, <1>5, <1>6 DEF Next

\* MIR of half the program, or MIR and symbols of different builds, are lifted
\* only after mctomir failed or was not asked for the symbols (mctomir.cpp:74,
\* llvm-bleach.cpp:247, lifter.cpp:308).
THEOREM OnlyFailedRunsMix == Spec => []OnlyFailuresMix
<1>1. MixInv => OnlyFailuresMix
  BY DEF MixInv
<1> QED
  BY <1>1, InitWInv, NextWInv, InitMixInv, NextMixInv, PTL DEF Spec
=============================================================================
