# llvm-bleach in TLA+

llvm-bleach lifts machine code to LLVM IR: an ELF file is disassembled to LLVM
MIR (mctomir), and the MIR functions are lifted to IR functions that share one
`struct register_state` and call, for each instruction, the IR function a YAML
file gives for it. This directory holds TLA+ models of the parts where that can
go wrong, TLC configurations that check them on small instances, and TLAPS
proofs of what matters most for every instance.

## The system

| Component | State | Operations | Talks to |
|---|---|---|---|
| ELF loader (`lib/mctomir/elf-loader.cpp`) | object file, MC objects | load, look up sections | translator (sections, triple) |
| Translator (`lib/mctomir/mctomir-transform.cpp`) | functions (instructions, blocks), `address_to_mbb`, machine functions | `process_disassembly`, `identify_basic_blocks`, `create_machine_basic_blocks`, `translate_instructions`, `link_machine_basic_blocks` | LLVM's disassembler and `MCInstrAnalysis`; hands MIR, addresses and data sections to the lifter |
| Symbol YAML (`symbols.cpp`) | list of names and addresses | read, write, look up | lifter (`fill_symtab_at`) |
| Instruction configuration (`instr-impl.cpp`) | instructions, register classes, constant registers, stack pointer | read, write, find | lifter |
| Lifter: register classes | `register_stats` | collect, complete, merge sub-registers | struct type, header, copies |
| Lifter: one function | cloned machine function, `mbb2bb`, `reg2vals`, IR builder | clone, retarget, `generate_*`, `fill_ir_for_bb`, copies before returns | eraser pass |
| Lifter: inline stack | `stack_pointer_tracker` | classify, scale, load, store | struct type |
| Lifter: module (`bleach_module`) | map of functions and clones | clone all, redirect calls, link the runtime, rename, erase | all of the above |
| Lifted program and runtime (`symtab.cpp`, `section_intrinsics.cpp`) | the struct, allocas of each activation, symbol table, section table | prologue, copies, `bleach_symtab_add/lookup`, address lookup | host program |
| Drivers, config-gen | command line, files | run the above | user |

The program is sequential: no threads, no messages. Only files outlive a run, and
a run that fails leaves those it has written. What is hard in it is of another kind. It writes a
program, in several passes, and each pass relies on something another one
computed separately: indices into the struct, two insertion points for IR, the
position of an instruction in two tables, a successor list built in two phases.
The errors show in the *run* of the emitted program, after a call or a branch, and
only for inputs the tests do not have. So the models are of two kinds: models
of a pass over all small inputs, and models of the emitted program next to the
machine program it was lifted from.

What makes each component correct:

- **Register classes**: every used register has a class, no register has two
  places, the layout does not depend on the program.
- **Translator**: it ends; blocks partition the instructions; MIR goes where the
  machine code goes; the lists the lifter relies on agree with each other.
- **One function**: the IR is well formed and goes where the MIR goes, operands
  are loaded before use, registers are stored and loaded around transfers.
- **Inline stack**: stack accesses, and no others, go to the array, and reach the
  element of their address.
- **Lifted program**: it computes what the machine program computes.
- **Module**: calls reach lifted functions, names and addresses belong to the
  function they are looked up for, the module links, nothing used is erased.
- **Data sections**: an access goes to the byte of its address, the program's or
  the host's.
- **Tools**: a tool that succeeds has written what it was asked for; files of
  different builds are lifted together only after mctomir failed or was not asked
  for the symbols.

## Modules

| Module | Models |
|---|---|
| `SourceProgram` | the machine program: registers, functions, instructions, what operands read and writes store (`operand_to_value`, `write_value_to_register`) |
| `Machine` | abstract specification: the machine program run on one register file and one call stack |
| `StateStruct` (extends `SourceProgram`) | the struct and the index computations of `materialize_registers`, `save_registers`, `load_registers` |
| `LiftedExec` (extends `StateStruct`, instantiates `Machine`) | the emitted program: activations with allocas, the struct, the runtime symbol table; one action per generator |
| `LiftedExecProofs` | theorems about the three above |
| `Translator` | the translator, from symbols and bytes to linked machine functions; one action per loop body |
| `TranslatorProofs` | theorems about `Translator` |
| `LiftCFG` | cloning, IR generation and the eraser for one function; one action per generator |
| `LiftCFGProofs` | theorems about `LiftCFG`: its form, and where it goes |
| `StackLift` | the tracker and the inline stack: lifting of each instruction, then both programs side by side |
| `StackLiftProofs` | theorems about `StackLift` |
| `RegStats` | `collect_register_stats` |
| `RegStatsProofs` | theorems about `RegStats` |
| `BleachModule` | `bleach_module`: the module's functions, their names and who uses whom; one action per loop body or step |
| `BleachModuleProofs` | theorems about `BleachModule`: names, and who uses whom |
| `FlatMemory` | abstract specification: one memory of the program's data and the host's |
| `Sections` (instantiates `FlatMemory`) | `read_sections`, the section globals, their table, the address lookup, loads and stores |
| `SectionsProofs` | theorems about `Sections` |
| `InstrConfig` | which instruction files are read, and what `save_to_yaml` writes |
| `Tools` (extends `InstrConfig`) | `main` of mctomir and of llvm-bleach, run again and again over the same files; one action per step between two files |
| `ToolsProofs` | theorems about `Tools` |
| `MC_*` | inputs and constants for TLC |

### The core: `Machine`, `StateStruct`, `LiftedExec`

An instruction is a record with an operation and registers; what it computes is
the constant `Alu`, because the lifter never looks into instructions. A lifted
activation (`frames`) has a position and a value for the alloca of each
register. `state` is the struct, indexed by class and array index. The index is
computed as in the code: the prologue numbers the sorted members of the class,
the copies number the keys of the register map (which also holds the
sub-registers) after a filter. A transfer is the copy to the struct, the callee's
prologue with `fill_symtab_at`, and, at the return, the copy back; since the
emitted code is sequential these are one step with the transfer, and one with the
return. The refinement mapping takes the allocas of the running activation for
the register file (the struct while the host has control) and the positions of
all activations for the machine's call stack.

Left out: the return address register (a lifted program returns through the host's
stack, so it is not in `Reg`), partial writes through sub-registers, the
`musttail` mark of indirect calls (they are lifted with a copy after them like any
other). Stack and pc-relative instructions count as instructions. The host is the
user's: the test harness zeroes the struct and puts arguments in, so a struct at a
host call is any whose constant registers hold their constants.

### `Translator`

Bytes are abstracted to "an instruction of this kind and size decodes at this
address" or nothing does. `MCInstrAnalysis` is LLVM's: its predicates are
functions of the kind, displacements count from the start of the instruction.
The order of functions at one address is open (the sort is by address alone).
Functions lie in the section; block end addresses, which nothing reads, and
relocations are left out.

`Structured` names the object files whose MIR is exact. The `Body` of a function
is what a linear sweep from its start decodes: the addresses in every set that contains
the start and is closed under going on to the next instruction (`Sweeps`). Bodies do not
overlap, control moves inside a body from instruction to instruction, and only calls and
jumps leave it, for the first instruction of a function. Bytes that do not
decode may lie anywhere that is not reached.

### `LiftCFG`

The IR of a basic block is a sequence of items: the loads of the operands of an
instruction, its code, branches, returns, copies. Loads go to the end of the
machine block's basic block, all else to the builder's insertion point; the
model keeps both. Blocks with a call after a conditional branch are not lifted
here: such a block is invalid MIR and the iterator comparison in
`load_registers` is undefined for it.

### `StackLift`

Both programs run in lockstep. A machine stack address is its distance below the
start of the stack; a lifted one is the index in the array. The lifter first
walks each function in layout order with the tracker, and fixes for every
instruction how it is lifted; then the machine instruction and its lifted form
are run together. Accesses are of the size of a register. Registers between
functions are one file: that lifted calls keep them is what `LiftedExec` shows.
The generated index is not checked by the emitted code; leaving the array is the
phase `error`.

`Disciplined` names the programs whose use of the stack can be told from their text:
there are types for the registers at each instruction under which the register of
every address is known to hold a stack address or data, it is tracked exactly if it holds
one, and the stack is accessed through the stack pointer by whole elements. A
register that is saved and loaded again may hold anything, as long as no address is
made of it; a function may leave anything in its registers but for the stack
pointer. TLC finds the types of most of the run's programs (`Infer`, 2808 of 3993);
those of run `stack_frame_pointer` have none.

### `RegStats`

Registers are numbers, matching is a constant (a substring match for collection,
a whole match for completion). The unordered map of sub-register classes is
merged in any order.

### `BleachModule`

A function is an object; what the code identifies it by, its name, is a value that
changes. A name is a sequence of pieces, so that the suffix LLVM adds to a name
that is taken is one piece, and a name may clash with the result of another
renaming. Of a body only the objects it uses are kept (`uses`), of machine code
only the callees (`mcalls`). Steps that go through a set of pointers or a hash
table take the functions in any order (`pending`). Each way the pass stops before
its time is an action that ends in `error` (an exception), `exit` (LLVM's linker)
or `undefined` (a null pointer, an iterator past the end, a function erased that is
used). An instruction whose name is that of a declared function takes its place,
after which the code uses a stale pointer. Inputs name no function as the runtime
does. A stack pointer whose name the target does not have stops the first function
generated (`NoStackPointer`).

### `Sections`

A cell stands for the smallest unit that is accessed. The globals of a section are
looked up and created as in `create_section_globals`, with those the instruction
file declares, and their initializers make the table. Loads and stores follow the
RISC-V template (`LD`, `SD`, `SW`, `LW`): the section's cell if the lookup finds
one, else the host's memory at the same address, or zero for `LW`. The refinement
mapping puts the cells of the sections next to the host's. `FlatMemory` promises that
a load within a section, constant or not, gives what is there (`Load`), and leaves open only
loads that leave their object (`UnspecifiedLoad`), and stores that do or that go to a
constant section (`UndefinedStore`). What the code cannot find is therefore outside the promise,
and named by `Findable`: sections without bytes in the file (`.bss`), and one that
ends with the address space. `LW` of an address of the host's, which loads zero, is left
out. Sections that share addresses (object files that are
not linked) are excluded by `ImageAssumption`.

### `InstrConfig` and `Tools`

A file is told by whether it is there, cut short or whole, by the run that wrote it
and by what it was made from. A build is told by its flaws (which step of
`lift_elf_file` turns it down) and its instructions. A tool may fail at each of its
steps. The fault model is a bounded number of failing writes: the file cannot be
opened, or it is written in part. LLVM's `raw_fd_ostream` ends the program for that,
`std::fstream` (symbols, header) says nothing. A cut file is read as the parser may
read it: turned down, or as fewer entries, or as MIR with fewer functions. A user
who rebuilds, edits the instruction file or replaces it with a dump acts only
between runs.

## Runs

| Run | Checks | Instance |
|---|---|---|
| `exec_main` | `TypeOK`, `ConstRegsKept`, `SymtabComplete`, `Refines` | two functions and an alias, 7 and 5 instructions with all operations, 3 registers in 2 classes and a sub-register that sorts first, values 0..4, 4 activations |
| `exec_nop` | `Refines` | `--assume-function-nop`, callees that change no register |
| `translate_all` | `TypeOK`, `BlocksPartition`, `AddressesAgree`, `FlowKept`, `SuccessorsMatch`, `Converts` | every structured text of two functions over four one-unit instructions; two images with sizes, illegal bytes, tail calls and indirect calls |
| `lift_cfg` | `TypeOK`, `NeverRejects`, `BlocksTerminated`, `OperandsLoaded`, `RegistersAroundTransfers`, `FlowKept` | every function of three blocks over 14 block ends, with and without a call before, and 4 last blocks |
| `stack_lift` | `TypeOK`, `Simulates`, `TrackingExact`, `OverflowsOnlyWhenFull` | every program of three parts out of 11 and three callees on a stack of four elements |
| `regstats` | `TypeOK`, `RegistersKnown`, `LayoutFits`, `LayoutStable`, `SubregsPaired` | every set of used registers out of 7 in 4 classes, and one with an unknown register |
| `bleach_module` | `TypeOK`, `CallsReachLifted`, `OwnTranslation`, `SymtabExact`, `Linkable`, `HostSees`, `Accepts` | three functions with every set of calls, from ELF and from MIR, with and without symbols; two static functions of one name; a prefixed name that is taken; one input for every way to stop |
| `sections` | `TypeOK`, `LookupExact`, `Refines` | every layout of two sections of up to two cells over eight addresses, next to each other, empty, up to the last address; a third and a `.bss`; three host memories, declared globals or none |
| `tools` | `TypeOK`, `SuccessWritesAll`, `OnlyFailuresMix`, `NeverLiftsByDump` | three runs, two edits, one failing write; two programs, one without functions and one that is turned down; three instruction files |

Why these are enough: the code treats registers of a class alike, so two per class
and one in between show any shift of an index; a transfer touches two activations
and nests, so four reach a caller's caller; a block is affected by its neighbours
and its successors, so three blocks with every end cover the placements; a
branch into the translator's table can go to its own block, another one, another
function or nowhere, which two functions over four addresses contain. A renamed
function clashes with one other, a lookup fails at the border of two sections, and
a mix of files needs three runs (one that writes, one that fails, one that lifts)
and one rebuild in between. Fields that must not matter (data values, payload) have as few values as tell them apart.

Deadlock is switched off where the model stops by itself: a pass ends, a program
traps, returns for good or reaches the bound `MaxDepth` of nested activations,
or the user has started tools `MaxRuns` times.
`exec_nop` and `exec_call_ends_block` check it: there the host can always call
again. The one liveness property, `Converts`, needs `WF_vars(Next)`: the
translator is a sequential program and runs until it ends.

### Disagreements between the code and what it says

Three runs end in a violation on purpose; each checks a statement of the repository.

- `exec_call_ends_block`: a call that is last in its block is closed with `ret
  void` (`lifter.cpp:1249`) though the machine goes on in the next block.
- `stack_frame_pointer`: an access through a frame pointer uses the stack pointer's
  index (`lifter.cpp:917`), above the frame; a callee's local overwrites it.
- `translate_unresolved`: an unresolved branch target becomes an empty block
  (`mctomir-transform.cpp:438`), against `assert(!mbb.empty())`.

Others were met on the way and have no run: two symbols on one function share the
translator's table (`mctomir-transform.cpp:248`), so a branch of the earlier one
gets a block of the later one as successor, against the assertion at
`lifter.cpp:104-105`; a loop to the first block of a function branches to the entry
block of the IR function (`lifter.cpp:651`), which LLVM's verifier turns down; the
operands of a second conditional branch of a block are loaded where the eraser
removes them (`lifter.cpp:688`); of a program with two static functions of one name
the second is not found among the translated ones (`lifter.cpp:1377`); a lifted
program that is lifted again has names that its own prefixed ones clash with
(`lifter.cpp:1391`); `LW` alone does not fall back to the host's memory
(`rv.yaml`, line 1164); offsets of indirect branches are
dropped (`lifter.cpp:737`); the `musttail` call is not followed by a return
(`lifter.cpp:746`); `evaluateBranch` gets the sizes 0 and 4 (`mctomir-transform.cpp`
205 and 309), right only for displacements from the start of the instruction; all
functions are renamed (`lifter.cpp:1391`) while `docs/bleach.md:76-77` says only
"main"; with 4-byte registers stack pointer arithmetic is still divided by eight
(`lifter.cpp:988`); two words in one stack element overwrite each other
(`lifter.cpp:914`).

## Proofs

Checked by TLAPS for every value of the constants that satisfies the named
assumptions of `SourceProgram`, `StateStruct`, `LiftedExec`, `Translator`, `LiftCFG`, `StackLift`,
`RegStats`, `BleachModule`, `Sections` and `Tools`, which TLC evaluates in the runs. A theorem
with a hypothesis of its own names the inputs it is about; the `MC` modules
evaluate those hypotheses as well.

The lifted program (`exec_main`):

- `RoundTrip` (`LiftedExecProofs`): loading a struct that was just saved gives the
  saved registers, whatever the struct was. It rests on: ranks are injective, the
  filtered keys of a class are its registers since sub-registers are no registers,
  and classes are disjoint.
- `TypeCorrect`, `ConstantRegisters`, `SymtabResolves` (`LiftedExecProofs`).
  `ConstRegsKept` is inductive only with `TypeOK`, and its
  step at a return uses `RoundTrip`; `SymtabComplete` needs that an activation
  exists only after a prologue has filled the table.
- `Refinement` (`LiftedExecProofs`): `Faithful => (Spec => M!Spec)`. `Faithful`
  names the programs: calls do not end blocks, tail transfers do, indirect offsets
  are zero, functions are not assumed to be nops. The inductive invariant adds to
  the types that every waiting activation loads the struct again when its callee
  returns; each action then maps to one action of `Machine`: a transfer and a return
  by `RoundTrip`, a failing lookup by `SymtabResolves`.

The translator (`translate_all`), for all object files:

- `TypesCorrect`, `BlocksExact` (`TranslatorProofs`) need no hypothesis: bytes may be
  anything, functions overlap, branches go anywhere. The invariant `TypeInv` says that
  a function which has been cut has the blocks `Cut` gives, that it has at least as many
  MBBs once they are made (linking may add some, never remove one), and that the
  table of blocks names MBBs that exist. The rest is about `Cut`: the instructions that
  begin a block, counted by `Upto`, are the n-th ones `First` picks (`FirstIs`), so that
  the blocks before the n-th hold all instructions before its first.
- `AddressesExact`, `FlowExact`, `SuccessorsExact` (the same module) are about `Structured`
  object files; of others they may fail (run `translate_unresolved`, and
  `mctomir-transform.cpp:248`). Three invariants are added. `SweepInv`: the functions are
  the symbols in some order, and what each has decoded is its linear sweep up to
  `pc`, so that in the end its instructions are its body (`Exact`). `TableInv`: the one
  table of all functions has each block under the address of its first instruction
  and nothing else. That is preserved because bodies are apart, and it is why linking adds
  no MBB. `MIRInv`: how far each MBB is filled
  (`Count`), that its instructions are those of the block translated by their kind
  (`Emitted`), and its successors the ones of its last instruction (`Joined`,
  then `LinkedTo`). A target that is found in the table is then the block of the same
  function or the entry of another one, which gives flow and successors.

One function (`lift_cfg`), for machine functions of any number of blocks and instructions:

- `LiftTypeOK` (`LiftCFGProofs`) needs no hypothesis. Its invariant `GeneralInv` says
  which blocks the IR has while the lifter is at a place: clones and `if_false` blocks
  are numbered without a gap, and whatever a step adds goes to the end of two blocks
  that exist (`Grown`, `Adds`).
- `LiftNeverRejects`, `LiftBlocksTerminated`, `LiftRegistersAroundTransfers`: the
  functions are `WellFormed`: branches go to listed successors, a jump is last or
  behind a conditional branch, the last block does not fall through. That blocks end with
  their only terminator holds in the end, not on the way: a conditional branch leaves a
  terminator in a block to which the machine block's loads are still appended.
  `ShapeInv` therefore says of each block what may follow a terminator until the
  eraser runs (`Shaped`), which blocks are closed, and where the copies are
  (`Around`).
- `LiftOperandsLoaded` also needs `LoadsFirst`: no operand is loaded after a
  conditional branch of the same block. Without it the property is false, and
  the theorem shows that nothing else breaks it.
- `LiftFlowKept` (`LiftCFGProofs`) needs `WellFormed` and `TransfersLast`: a tail
  transfer ends its block, an ordinary call does not (run `exec_call_ends_block` has
  the ones that do). Its invariant `FlowInv` gives every lifted instruction the
  place of its last item (`Final`) and says what stands behind it: a terminator
  that leaves to the right blocks, the code of the next instruction, or nothing yet,
  in which case the insertion point is there (`Goes`, `Awaits`). `Ordered` says that items
  of one block come in the order of their instructions, which makes the last item
  unique; the copies before returns and the eraser move places but keep the order.

The inline stack (`stack_lift`), for all `Disciplined` programs, any nesting of calls and
every `--stack-size`, with registers of eight bytes:

- `StackSimulated`, `DecisionsExact`, `OverflowsFull`, `TypesKept` (`StackLiftProofs`).
  The lifter decides once per instruction in layout order, the program reaches it on
  any path. The invariant `Inductive` therefore ties both to one discipline: where the
  lifter is, it tracks what the discipline says (`LiftedAs`), the registers of the running
  function have their types, and what it returns is what the waiting functions
  expect (`Running`). Every element of the stack is then at the machine's address
  divided by eight (`StackPlace`), and both memories agree (`MemoryAgrees`).

Register classes (`regstats`), for every configuration, target and program:

- `StatsTypeOK` (`RegStatsProofs`) needs no hypothesis. `UsedRegistersKnown`, `LayoutIsFit`,
  `StableLayout` and `SubregistersPaired` are about configurations that fit the target
  (`Fits`): what a class of the configuration collects belongs to it, no register belongs to
  two, the first of LLVM's classes with any of its registers has them all, and sub-registers
  have no sub-registers of their own. Each clause is needed (hazards at `lifter.cpp:534`, `566`,
  `592`, `601`). The invariant `FitInv` says that a class is empty or complete once it
  has been assigned (`FullMatch`), and of each sub-register which merged class it comes
  from (`Paired`). A merge loses no register because ranks are a bijection (`RankIsNumber`),
  which also shows what erasing classes leaves of the list (`KeptIs`).

The module (`bleach_module`), for all modules, names and orders of the hash tables:

- `HostFindsLifted`, `LiftedWithOwnAddresses` (`BleachModuleProofs`): names stay
  apart because LLVM takes the least suffix that is free (`LeastNumber`); a function
  that has been cloned or renamed has the name its input name determines, unless that
  was taken by one that is named already (`Shape`, `HeaderInv`).
- `BleachTypeOK`, `LiftedCallLifted`, `RegistersOwnAddresses`, `ModuleLinks`,
  `AcceptsSound` (the same module): the invariant says at each step who may be used by whom
  (`Bodies`): originals only by originals and by clones whose calls have not been
  redirected. `RegistersOwnAddresses` is about programs whose symbol table is the
  one mctomir wrote for them (`GivenInv`).

  `LiftedWithOwnAddresses` excludes one corner, which TLC found when a weaker
  hypothesis was tried: two functions named `f` and one named `f.1`. The second `f`
  becomes `f.1` and is lifted with the addresses of the third.

Data sections (`sections`), for all layouts and every width of addresses:

- `SectionsTypeOK`, `LookupIsExact`, `OneFlatMemory` (`SectionsProofs`): while sections
  are read, globals and table belong to the sections read so far, in order, and no name
  has two globals (`ReadInv`, `GlobalsInv`, `TableInv`). A lookup then finds the
  section of an address and no other one since sections do not overlap (`LookupIs`),
  and loads and stores map to those of `FlatMemory`, step by step. A load is undefined
  only where no object holds all its cells (`Outside`), so constant data are read as the
  file has them; a store also where the section is constant.

The tools (`tools`), for any number of runs, edits and faults:

- `DumpIsDeadEnd`, `TypeCorrect`, `SuccessfulRunsWrite`, `OnlyFailedRunsMix` (`ToolsProofs`).
  That no output
  comes from a dump is inductive once it is said of the dump, of the instruction
  file in its place and of what was read: what is written lacks the stack pointer,
  and what is read has one. For success the invariant says at each step what has
  been written by then (`WrittenSoFar`), as at `write_mir` that the symbols of
  this build are out, and that the log knows the tool that runs. Files mix only after a
  failure because the log entry of the run that wrote a file outlives the file.

Only model-checked: liveness (`Converts`), and `exec_nop`, whose programs are not
`Faithful` by definition. Every other property of a passing run is stated by a theorem.
Liveness and facts about recursive definitions are out of the prover's reach.

## Not modelled

- What wraps LLVM and keeps no state: the rest of the ELF loader and of the
  disassembler's set-up (listings, triples, object types), option parsing, MLIR
  output, printing of MIR.
- Text: the struct in the state header (its type is `StateType`), names and
  expressions of the instruction file, the number format of the symbol file.
- config-gen fills templates; the test harness runs external programs.
- Left out of modelled parts: functions of the input with the names of the runtime;
  a configuration without register classes; chains of sub-register classes; stack
  accesses narrower than a register; indirect transfers with offsets; functions
  outside the disassembled section; machine functions with more blocks than the
  translated function (`lifter.cpp:361`, `at` throws; `AddressesExact` says when there are
  none); `LW` of the host's memory; register-register arithmetic on a stack address
  (`lifter.cpp:974-981`, throws); the passes of LLVM (inliner, SROA, verifier).
  The hazards without a property in `PROJECT.json` say why.

## Plan

The modules above are done, and their safety properties are proved one by one. What is left:

1. Composition: the result of `RegStats` satisfies the assumptions of
   `StateStruct`; the result of `Translator` is a `WellFormed` function of `LiftCFG`, so that
   control flow is kept from the machine code to the IR.
2. Chains of sub-register classes in `RegStats`, accesses narrower than a register
   in `StackLift`.
