-------------------------------- MODULE Tools --------------------------------
(***************************************************************************)
(* mctomir and llvm-bleach as they are used: a program is built, made into *)
(* MIR with its symbols, and lifted, again and again over the same files.  *)
(* A tool reads and writes them one after another and may fail between any *)
(* two; what it has written by then stays.  Writing goes wrong a few       *)
(* times: LLVM's streams end the program then, while the streams of the    *)
(* standard library are not asked, and the file is cut short unnoticed.    *)
(***************************************************************************)
EXTENDS InstrConfig

CONSTANTS
    Builds,     \* object files the compiler may make
    Configs,    \* instruction files the user may write
    MctomirRuns,    \* options mctomir is given, sets of names
    BleachRuns,     \* options llvm-bleach is given
    MaxRuns,    \* how often tools are started
    MaxEdits,   \* how often the user changes a file
    MaxFaults   \* how often writing goes wrong

\* What may be wrong with an object file, whether it has functions, and the
\* instructions they are made of.
ASSUME ToolsAssumption ==
    /\ \A b \in Builds :
        /\ b.flaws \subseteq {"missing", "not_elf", "target", "no_text", "contents"}
        /\ b.bodies \in BOOLEAN
    /\ \A c \in Configs : IsConfig(c) /\ HasFirst(c)
    /\ MctomirRuns \subseteq SUBSET {"symtab"}
    /\ BleachRuns \subseteq SUBSET {"mir", "instructions", "dump", "symtab", "header"}
    /\ MaxRuns \in Nat /\ MaxEdits \in Nat /\ MaxFaults \in Nat

\* Every file is told by its state, the run that wrote it (0 for the user) and
\* what it was made from.
VARIABLES
    elf,        \* [build, number]
    mir,        \* [state, run, elf]
    symtab,     \* [state, run, number]
    config,     \* [yaml, dumped]
    dump,       \* [state, yaml]
    header,     \* [state, run]
    out,        \* [state, run, from: what was read for it]
    tool,       \* the tool that runs, or "none"
    at,         \* its next step
    read,       \* what it has read: [elf, input, config, symtab]
    log,        \* the runs: their tool, options and how they ended
    edits, faults   \* how often the user changed a file, how often writing went wrong

vars == <<elf, mir, symtab, config, dump, header, out, tool, at, read, log, edits, faults>>

Run == Len(log)
Opts == log[Run].opts

Init ==
    /\ elf \in [build : Builds, number : {0}]
    /\ config \in [yaml : Configs, dumped : {FALSE}]
    /\ mir = [state |-> "absent", run |-> 0, elf |-> elf]
    /\ symtab = [state |-> "absent", run |-> 0, number |-> 0]
    /\ dump = [state |-> "absent", yaml |-> config.yaml]
    /\ header = [state |-> "absent", run |-> 0]
    /\ read = [elf |-> elf, input |-> "whole", config |-> config, symtab |-> symtab]
    /\ out = [state |-> "absent", run |-> 0, from |-> read]
    /\ tool = "none" /\ at = "none"
    /\ log = << >> /\ edits = 0 /\ faults = 0

-----------------------------------------------------------------------------
(* The user *)

Idle == tool = "none" /\ Run < MaxRuns

Edits ==
    /\ Idle /\ edits < MaxEdits
    /\ edits' = edits + 1
    /\ UNCHANGED <<mir, symtab, dump, header, out, tool, at, read, log, faults>>

Rebuild(b) == Edits /\ elf' = [build |-> b, number |-> Run + edits + 1] /\ UNCHANGED config
WriteConfig(c) == Edits /\ config' = [yaml |-> c, dumped |-> FALSE] /\ UNCHANGED elf

\* The dump takes the place of the instruction file.
UseDump ==
    /\ Edits /\ dump.state = "whole"
    /\ config' = [yaml |-> dump.yaml, dumped |-> TRUE] /\ UNCHANGED elf

Start(t, first, opts) ==
    /\ Idle
    /\ tool' = t /\ at' = first
    /\ log' = Append(log, [tool |-> t, opts |-> opts, status |-> "running"])
    /\ UNCHANGED <<edits, elf, mir, symtab, config, dump, header, out, read, faults>>

StartMctomir == \E opts \in MctomirRuns : Start("mctomir", "lift", opts)
StartBleach == \E opts \in BleachRuns : Start("llvm-bleach", "input", opts)

\* The step is done.
Goes(next) == at' = next /\ UNCHANGED <<tool, log>>

\* Mutant: an exception leaves main without a status.
EndsRunning(status) == tool' = "none" /\ at' = "none" /\ UNCHANGED log

\* The tool ends.
Ends(status) ==
    /\ tool' = "none" /\ at' = "none"
    /\ log' = [log EXCEPT ![Run].status = status]

-----------------------------------------------------------------------------
(* lift_elf_file, for both tools *)

load_file(b) == b.flaws \cap {"missing", "not_elf"} = {}
get_disasm_features(b) == "target" \notin b.flaws
get_section_by_name(b) == "no_text" \notin b.flaws
read_sections(b) == "contents" \notin b.flaws

process_file(b) == load_file(b) /\ get_disasm_features(b)
convert_section(b) == get_section_by_name(b) /\ read_sections(b)
lift_elf_file(b) == process_file(b) /\ convert_section(b) /\ read_sections(b)

-----------------------------------------------------------------------------
(* mctomir *)

LiftElf ==
    /\ at = "lift"
    /\ IF lift_elf_file(elf.build)
       THEN /\ read' = [read EXCEPT !.elf = elf]
            /\ Goes(IF "symtab" \in Opts THEN "save_symtab" ELSE "write_mir")
       ELSE UNCHANGED read /\ Ends("failure")
    /\ UNCHANGED <<edits, elf, mir, symtab, config, dump, header, out, faults>>

\* Mutant: the errors of the stream are cleared.
EndsAnyway(state) == "success"

\* LLVM's streams end the program when writing went wrong.
EndAfter(state) == IF state = "whole" THEN "success" ELSE "failure"

\* A file is written, whole or cut short.
Outcomes == {[state |-> "whole", fault |-> 0]}
            \cup (IF faults < MaxFaults THEN {[state |-> "cut", fault |-> 1]} ELSE {})

SaveSymtab ==
    /\ at = "save_symtab"
    /\ \E o \in Outcomes :
        /\ symtab' = [state |-> o.state, run |-> Run, number |-> read.elf.number]
        /\ faults' = faults + o.fault
    /\ Goes("write_mir")
    /\ UNCHANGED <<edits, elf, mir, config, dump, header, out, read>>

WriteMir ==
    /\ at = "write_mir"
    /\ \E o \in Outcomes :
        /\ mir' = [state |-> o.state, run |-> Run, elf |-> read.elf]
        /\ faults' = faults + o.fault
        /\ Ends(EndAfter(o.state))
    /\ UNCHANGED <<edits, elf, symtab, config, dump, header, out, read>>

\* The file to write cannot be opened, by either tool.
CannotOpen ==
    /\ at \in {"save_symtab", "write_mir", "dump", "header", "write_out"}
    /\ faults < MaxFaults
    /\ faults' = faults + 1
    /\ Ends("failure")
    /\ UNCHANGED <<edits, elf, mir, symtab, config, dump, header, out, read>>

-----------------------------------------------------------------------------
(* llvm-bleach *)

Fails == Ends("failure") /\ UNCHANGED read

\* Mutant: everything is taken for an object file.
TakesForElf == FALSE

FromMir == "mir" \in Opts

\* The source of the input and whether it can be read.  MIR that is cut
\* between two functions is read as a module that declares the rest.
\* Without an instruction file nothing is left to do, and that is no error.
read_or_translate_mir ==
    /\ at = "input"
    /\ LET readable == IF FromMir THEN mir.state # "absent" ELSE lift_elf_file(elf.build)
           certain == IF FromMir THEN mir.state = "whole" ELSE readable
       IN  \/ /\ readable
              /\ read' = [read EXCEPT !.elf = IF FromMir THEN mir.elf ELSE elf,
                                      !.input = IF FromMir THEN mir.state ELSE "whole"]
              /\ IF "instructions" \in Opts THEN Goes("config") ELSE Ends("success")
           \/ ~certain /\ Fails
    /\ UNCHANGED <<edits, elf, mir, symtab, config, dump, header, out, faults>>

LoadInstructions ==
    /\ at = "config"
    /\ IF Loads(config.yaml)
       THEN /\ read' = [read EXCEPT !.config = config]
            /\ Goes(IF "dump" \in Opts THEN "dump" ELSE "symtab")
       ELSE Fails
    /\ UNCHANGED <<edits, elf, mir, symtab, config, dump, header, out, faults>>

\* Written to a file beside it that replaces it in the end.
DumpInstructions ==
    /\ at = "dump"
    /\ IF Saves(read.config.yaml)
       THEN dump' = [state |-> "whole", yaml |-> save_to_yaml(read.config.yaml)] /\ Goes("symtab")
       ELSE UNCHANGED dump /\ Ends("failure")
    /\ UNCHANGED <<edits, elf, mir, symtab, config, header, out, read, faults>>

\* A file that is not there reads as an empty list.  One that is cut short is
\* turned down unless the cut is between two entries or in the last number.
ReadSymtab ==
    /\ at = "symtab"
    /\ LET AsRead == CASE "symtab" \notin Opts -> {"none"}
                       [] symtab.state = "cut" -> {"absent", "whole"}
                       [] OTHER -> {symtab.state}
       IN  \/ \E s \in AsRead :
                /\ read' = [read EXCEPT !.symtab = [symtab EXCEPT !.state = s]]
                /\ Goes("pass")
           \/ "symtab" \in Opts /\ symtab.state = "cut" /\ Fails
    /\ UNCHANGED <<edits, elf, mir, symtab, config, dump, header, out, faults>>

\* Every function with a body needs its symbol; those of another build may
\* have them all or not.
SymbolsFound == read.symtab.state = "absent" => ~read.elf.build.bodies
SymbolsFit == read.symtab.state = "whole" => read.symtab.number = read.elf.number

RunPass ==
    /\ at = "pass"
    /\ LET supported == read.elf.build.instrs \subseteq Implemented(read.config.yaml)
       IN  \/ /\ supported /\ SymbolsFound
              /\ Goes(IF "header" \in Opts THEN "header" ELSE "write_out") /\ UNCHANGED read
           \/ ~(supported /\ SymbolsFound /\ SymbolsFit) /\ Fails
    /\ UNCHANGED <<edits, elf, mir, symtab, config, dump, header, out, faults>>

WriteHeader ==
    /\ at = "header"
    /\ \E o \in Outcomes :
        /\ header' = [state |-> o.state, run |-> Run]
        /\ faults' = faults + o.fault
    /\ Goes("write_out")
    /\ UNCHANGED <<edits, elf, mir, symtab, config, dump, out, read>>

WriteOut ==
    /\ at = "write_out"
    /\ \E o \in Outcomes :
        /\ out' = [state |-> o.state, run |-> Run, from |-> read]
        /\ faults' = faults + o.fault
        /\ Ends(EndAfter(o.state))
    /\ UNCHANGED <<edits, elf, mir, symtab, config, dump, header, read>>

Next ==
    \/ \E b \in Builds : Rebuild(b)
    \/ \E c \in Configs : WriteConfig(c)
    \/ UseDump
    \/ StartMctomir \/ StartBleach
    \/ LiftElf \/ SaveSymtab \/ WriteMir
    \/ CannotOpen
    \/ read_or_translate_mir \/ LoadInstructions \/ DumpInstructions \/ ReadSymtab
    \/ RunPass \/ WriteHeader \/ WriteOut

Spec == Init /\ [][Next]_vars

-----------------------------------------------------------------------------
(* Properties *)

Ended == {r \in 1..Run : log[r].status # "running"}
Succeeded(r) == log[r].status = "success"
Asked(r, o) == o \in log[r].opts

\* State is of its type; a tool runs as long as its run is in the log as running.
TypeOK ==
    /\ \A f \in {mir, symtab, dump, header, out} : f.state \in {"absent", "cut", "whole"}
    /\ \A f \in {mir, symtab, header, out} : f.run \in 0..Run
    /\ read.symtab.state \in {"none", "absent", "cut", "whole"}
    /\ tool \in {"none", "mctomir", "llvm-bleach"} /\ (tool = "none" <=> at = "none")
    /\ Ended = IF tool = "none" THEN 1..Run ELSE 1..(Run - 1)
    /\ faults \in 0..MaxFaults

\* A run that ends well has written all it was asked for, and what it wrote is
\* whole, except that the writing of symbols and header may have gone wrong
\* unnoticed (mctomir.cpp:74, lifter.cpp:1401).  The exception is llvm-bleach
\* without instructions, which succeeds and writes nothing (llvm-bleach.cpp:247).
SuccessWritesAll ==
    Run \in Ended /\ Succeeded(Run) =>
        IF log[Run].tool = "mctomir"
        THEN /\ mir.run = Run /\ mir.state = "whole"
             /\ Asked(Run, "symtab") => symtab.run = Run /\ symtab.number = mir.elf.number
        ELSE IF ~Asked(Run, "instructions") THEN Run \notin {out.run, header.run}
        ELSE /\ out.run = Run /\ out.state = "whole"
             /\ Asked(Run, "header") => header.run = Run

\* MIR of half the program, or MIR and symbols of different builds, are lifted
\* only if mctomir said that it failed or was not asked for the symbols.
\* llvm-bleach does not notice: it looks symbols up by their names.
OnlyFailuresMix ==
    out.state = "whole" /\ Asked(out.run, "mir") /\ Asked(out.run, "symtab")
        /\ (out.from.input = "cut" \/ out.from.elf.number # out.from.symtab.number) =>
            \E r \in 1..out.run :
                log[r].tool = "mctomir" /\ (~Succeeded(r) \/ ~Asked(r, "symtab"))

\* Nothing is ever lifted with a file that --dump-input-instructions wrote: it
\* lacks the marks of returns, indirect branches and pc-relative instructions,
\* and is turned down for what else it lacks (instr-impl.cpp:24, 135).
NeverLiftsByDump == out.state # "absent" => ~out.from.config.dumped
=============================================================================
