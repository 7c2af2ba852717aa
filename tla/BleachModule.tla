---------------------------- MODULE BleachModule ----------------------------
(***************************************************************************)
(* bleach_module: what happens to the functions of a module as a whole.    *)
(*                                                                         *)
(* Every function is cloned under its name, the machine calls are moved to *)
(* the clones, IR is put into them, runtime functions are declared and     *)
(* linked, the clones are renamed and declared in the state header, and    *)
(* the originals and what nobody uses are erased.  Functions are found by  *)
(* name, again and again, while the names change and LLVM makes clashing   *)
(* ones unique; everything is done in the order of pointers or of a hash   *)
(* table.                                                                  *)
(*                                                                         *)
(* A function of the module is an object <<kind, key>>; its name is a      *)
(* sequence of pieces, so that a suffix is one piece.  What a body does is *)
(* not told: only which objects it uses.                                   *)
(***************************************************************************)
EXTENDS Naturals, SequencesExt

CONSTANTS
    Inputs,     \* see InputAssumption
    Pieces,     \* of names
    Prefix      \* --lifted-prefix, a name

Source(i) == <<"source", i>>
Lifted(i) == <<"lifted", i>>
Instr(n) == <<"instr", n>>
Runtime(n) == <<"runtime", n>>

\* The names the runtime functions have; no function of the input has one.
RuntimeNames == [n \in {"add", "lookup", "addr", "impl"} |-> <<"bleach_", n>>]

\* fns: the functions of the module.  name: in the module; symbol: in the ELF
\* file, where two static functions may share it; body: has machine blocks;
\* ir, irCalls: has an IR body of its own, which calls; calls, instrs:
\* functions and instructions of the machine body; indirect, pcrel: whether
\* it has transfers by address and pc-relative instructions.
\* translated: an ELF file was read, not MIR.  config: entries of the
\* instruction file, their name, whether they have a function and whether that
\* one looks up addresses; stackPointer: whether the target has a register of
\* the name the file gives.  symtab: entries of --symtab-file; header:
\* --state-struct-file.
\* Functions are made in the order of their symbols; the first of a symbol is
\* called after it, unless LLVM has called another one so.
ASSUME InputAssumption == \A x \in Inputs :
    /\ x.translated \in BOOLEAN /\ x.hasSymtab \in BOOLEAN /\ x.stackPointer \in BOOLEAN
    /\ x.header \in {"none", "file", "unwritable"}
    /\ Len(x.fns) \in Nat \ {0} /\ DOMAIN x.fns = 1..Len(x.fns)
    /\ Len(x.config) \in Nat /\ DOMAIN x.config = 1..Len(x.config)
    /\ \A i \in DOMAIN x.fns : x.fns[i].name \in Seq(Pieces) \ Range(RuntimeNames)
    /\ \A t \in DOMAIN x.fns : \E i \in 1..t : x.fns[i].name = x.fns[t].symbol
    /\ \A i, j \in DOMAIN x.fns : x.fns[i].name = x.fns[j].name => i = j
    /\ \A i \in DOMAIN x.fns :
        x.fns[i].calls \subseteq DOMAIN x.fns /\ x.fns[i].irCalls \subseteq DOMAIN x.fns

ASSUME NameAssumption == {".", ".old"} \subseteq Pieces /\ Prefix \in Seq(Pieces)

VARIABLES
    input,
    phase,          \* the next step, or how the pass ended
    pending,        \* functions the step has not come to
    names,          \* the objects of the module and their names
    defined,        \* those with a body
    uses,           \* pairs of objects: the first one's body uses the second
    mcalls,         \* targets of the machine calls of each clone
    given,          \* the translated function each clone was lifted with, or 0
    registered,     \* <<in, address, object>>: calls of bleach_symtab_add
    header          \* names declared in the state header

vars == <<input, phase, pending, names, defined, uses, mcalls, given, registered, header>>

Fns == DOMAIN input.fns
WithBody == {i \in Fns : input.fns[i].body}
Objects == DOMAIN names
Named(n) == {o \in Objects : names[o] = n}
Users(o) == {u \in Objects : <<u, o>> \in uses}

Init ==
    /\ input \in Inputs
    /\ phase = "instrs"
    /\ pending = {}
    /\ names = [o \in {Source(i) : i \in Fns} |-> input.fns[o[2]].name]
    /\ defined = {Source(i) : i \in {j \in Fns : input.fns[j].ir}}
    /\ uses = UNION {{<<Source(i), Source(j)>> : j \in input.fns[i].irCalls} : i \in Fns}
    /\ mcalls = [i \in Fns |-> {}]
    /\ given = [i \in Fns |-> 0]
    /\ registered = {}
    /\ header = {}

\* The pass ends before its time: an exception, LLVM's linker exits with a
\* diagnostic, or anything may happen.
Stops(how) ==
    /\ phase' = how
    /\ UNCHANGED <<input, pending, names, defined, uses, mcalls, given, registered, header>>

\* The step is done for i; with the last one the next step begins.
Step(i, next, all) ==
    IF pending = {i} THEN phase' = next /\ pending' = all
    ELSE phase' = phase /\ pending' = pending \ {i}

-----------------------------------------------------------------------------
(* Names of LLVM's functions *)

\* LLVM appends a dot and a number that makes the name new.
Suffixed(n, k) == n \o [j \in 1..k |-> "."]
Unique(n, taken) ==
    IF n \notin taken THEN n
    ELSE Suffixed(n, CHOOSE k \in 0..Cardinality(taken) : Suffixed(n, k) \notin taken)

Renamed(o, n) ==
    [names EXCEPT ![o] = Unique(n, {names[p] : p \in Objects \ {o}})]

\* The names of functions that are new to the module besides the others.
Joined(old, new) ==
    [o \in DOMAIN old \cup DOMAIN new |-> IF o \in DOMAIN old THEN old[o] ELSE new[o]]

has_special_chars(n) == \E k \in DOMAIN n : n[k] \in {"$", ".", ",", ".old"}

-----------------------------------------------------------------------------
(* The steps *)

Implementations == {k \in DOMAIN input.config : input.config[k].func}
Configured == {input.config[k].name : k \in Implementations}
MemoryInstrs == {input.config[k].name : k \in {l \in Implementations : input.config[l].memory}}
Clashing == {i \in Fns : \E n \in Configured : input.fns[i].name = <<n>>}

\* The first entry is taken as it is, the others only with a function.
NoFirstModule == 1 \notin Implementations
DefinedTwice ==
    \/ Cardinality(Implementations) > Cardinality(Configured)
    \/ \E i \in Clashing : input.fns[i].ir

\* The implementations of loads and stores declare bleach_try_get_real_addr.
FillModuleWithInstrs ==
    /\ phase = "instrs"
    /\ ~NoFirstModule /\ ~DefinedTwice /\ Clashing = {}
    /\ names' = Joined(Joined(names, [o \in {Instr(n) : n \in Configured} |-> <<o[2]>>]),
                       [o \in {Runtime("addr") : n \in MemoryInstrs} |-> RuntimeNames["addr"]])
    /\ defined' = defined \cup {Instr(n) : n \in Configured}
    /\ uses' = uses \cup {<<Instr(n), Runtime("addr")>> : n \in MemoryInstrs}
    /\ phase' = "clone" /\ pending' = Fns
    /\ UNCHANGED <<input, mcalls, given, registered, header>>

NoImplementations == phase = "instrs" /\ NoFirstModule /\ Stops("undefined")
LinkError == phase = "instrs" /\ ~NoFirstModule /\ DefinedTwice /\ Stops("exit")

\* An instruction with the name of a function that is only declared takes its
\* place, while bleach_module holds on to the declaration.
ReplacesFunction ==
    phase = "instrs" /\ ~NoFirstModule /\ ~DefinedTwice /\ Clashing # {} /\ Stops("undefined")

\* Mutant: the clone is made before the original gives up its name.
CloneBesideOriginal(i) ==
    /\ phase = "clone" /\ i \in pending
    /\ names' = Joined(names, [o \in {Lifted(i)} |-> Unique(names[Source(i)], Range(names))])
    /\ defined' = IF i \in WithBody THEN defined \cup {Lifted(i)} ELSE defined
    /\ mcalls' = [mcalls EXCEPT ![i] = {Source(j) : j \in input.fns[i].calls}]
    /\ Step(i, "redirect", {})
    /\ UNCHANGED <<input, uses, given, registered, header>>

\* The clone takes the name of the original.
CloneMachineFunction(i) ==
    /\ phase = "clone" /\ i \in pending
    /\ names' = Joined(Renamed(Source(i), names[Source(i)] \o <<".old">>),
                       [o \in {Lifted(i)} |-> names[Source(i)]])
    /\ defined' = IF i \in WithBody THEN defined \cup {Lifted(i)} ELSE defined
    /\ mcalls' = [mcalls EXCEPT ![i] = {Source(j) : j \in input.fns[i].calls}]
    /\ Step(i, "redirect", {})
    /\ UNCHANGED <<input, uses, given, registered, header>>

\* Mutant: only calls of functions with a body are moved.
RedirectedToBodies(targets) ==
    {IF o[2] \in WithBody THEN Lifted(o[2]) ELSE o : o \in targets}

Redirected(targets) == {Lifted(o[2]) : o \in targets}

RedirectCalls ==
    /\ phase = "redirect"
    /\ mcalls' = [i \in Fns |-> Redirected(mcalls[i])]
    /\ phase' = "declare"
    /\ UNCHANGED <<input, pending, names, defined, uses, given, registered, header>>

\* bleach_try_get_real_addr gets its body, whoever declared it.
DeclareRuntime ==
    /\ phase = "declare"
    /\ names' = Joined(names, [o \in {Runtime(n) : n \in DOMAIN RuntimeNames} |-> RuntimeNames[o[2]]])
    /\ defined' = defined \cup {Runtime("addr")}
    /\ uses' = uses \cup {<<Runtime("addr"), Runtime("impl")>>}
    /\ phase' = "generate" /\ pending' = Fns
    /\ UNCHANGED <<input, mcalls, given, registered, header>>

-----------------------------------------------------------------------------
(* generate_function *)

\* Mutant: by position, as for the machine functions.
FirstTranslation(i) == IF input.translated THEN {1} ELSE {}

\* The translated functions that have the clone's name as their symbol.
Translations(i) ==
    {t \in Fns : input.translated /\ input.fns[t].symbol = names[Lifted(i)]}

Untranslated(i) == input.translated /\ i \in WithBody /\ Translations(i) = {}
Unsupported(i) ==
    \/ input.fns[i].instrs \ Configured # {}
    \/ input.fns[i].pcrel /\ ~input.translated

\* The first of them is taken.
GenerateFunction(i) ==
    /\ phase = "generate" /\ i \in pending
    /\ input.stackPointer /\ ~Untranslated(i) /\ ~Unsupported(i)
    /\ given' = [given EXCEPT ![i] =
                    IF Translations(i) = {} THEN 0
                    ELSE CHOOSE t \in Translations(i) : \A u \in Translations(i) : t <= u]
    /\ uses' = uses \cup {<<Lifted(i), o>> : o \in
                    mcalls[i] \cup {Instr(n) : n \in input.fns[i].instrs}
                    \cup (IF input.fns[i].indirect THEN {Runtime("lookup")} ELSE {})}
    /\ Step(i, IF input.hasSymtab THEN "symtab" ELSE "link", {})
    /\ UNCHANGED <<input, names, defined, mcalls, registered, header>>

\* The iterator past the last translated function is used.
NoTranslation(i) == phase = "generate" /\ i \in pending /\ Untranslated(i) /\ Stops("undefined")
NoStackPointer(i) == phase = "generate" /\ i \in pending /\ ~input.stackPointer /\ Stops("error")
NoInstruction(i) ==
    /\ phase = "generate" /\ i \in pending
    /\ input.stackPointer /\ ~Untranslated(i) /\ Unsupported(i)
    /\ Stops("error")

-----------------------------------------------------------------------------
(* The symbol table, the runtime, names, the header *)

Symbols(n) == {k \in DOMAIN input.symtab : input.symtab[k].name = n}
get_start_of(n) ==
    input.symtab[CHOOSE k \in Symbols(n) : \A l \in Symbols(n) : k <= l].start

\* Mutant: each function only itself.
RegistersItself == {<<Lifted(i), get_start_of(names[Lifted(i)]), Lifted(i)>> : i \in WithBody}

\* Every function with a body registers all of them when it is entered.
Registrations ==
    {<<Lifted(i), get_start_of(names[Lifted(j)]), Lifted(j)>> : i \in WithBody, j \in WithBody}

FillSymtab ==
    /\ phase = "symtab"
    /\ \A i \in WithBody : Symbols(names[Lifted(i)]) # {}
    /\ registered' = Registrations
    /\ uses' = uses \cup {<<r[1], Runtime("add")>> : r \in Registrations}
                    \cup {<<r[1], r[3]>> : r \in Registrations}
    /\ phase' = "link"
    /\ UNCHANGED <<input, pending, names, defined, mcalls, given, header>>

NoSymbol ==
    phase = "symtab" /\ (\E i \in WithBody : Symbols(names[Lifted(i)]) = {}) /\ Stops("error")

\* Mutant: the intrinsics only come with a symbol table too.
LinkedWithSymtab == IF input.hasSymtab THEN {"add", "lookup", "impl"} ELSE {}

Linked == IF input.hasSymtab THEN {"add", "lookup", "impl"} ELSE {"impl"}

LinkRuntime ==
    /\ phase = "link"
    /\ defined' = defined \cup {Runtime(n) : n \in Linked}
    /\ phase' = "rename" /\ pending' = Fns
    /\ UNCHANGED <<input, names, uses, mcalls, given, registered, header>>

RenameFunction(i) ==
    /\ phase = "rename" /\ i \in pending
    /\ names' = Renamed(Lifted(i), Prefix \o names[Lifted(i)])
    /\ Step(i, IF input.header = "none" THEN "erase" ELSE "header", Fns)
    /\ UNCHANGED <<input, defined, uses, mcalls, given, registered, header>>

\* Mutant: the names as they are.
AllNames == {names[Lifted(i)] : i \in Fns}

\* A name that is no C identifier is left out without a word.
DeclaredNames == {n \in {names[Lifted(i)] : i \in Fns} : ~has_special_chars(n)}

WriteHeader ==
    /\ phase = "header" /\ input.header = "file"
    /\ header' = DeclaredNames
    /\ phase' = "erase"
    /\ UNCHANGED <<input, pending, names, defined, uses, mcalls, given, registered>>

HeaderNotWritable == phase = "header" /\ input.header = "unwritable" /\ Stops("error")

-----------------------------------------------------------------------------
(* What is left over goes *)

Without(gone) ==
    /\ names' = [o \in Objects \ gone |-> names[o]]
    /\ defined' = defined \ gone
    /\ uses' = {u \in uses : u[1] \notin gone}

EraseOriginal(i) ==
    /\ phase = "erase" /\ i \in pending
    /\ Users(Source(i)) \subseteq {Source(i)}
    /\ Without({Source(i)})
    /\ Step(i, "sweep", {})
    /\ UNCHANGED <<input, mcalls, given, registered, header>>

\* A body that is still there calls it.
ErasesUsed(i) ==
    /\ phase = "erase" /\ i \in pending
    /\ ~(Users(Source(i)) \subseteq {Source(i)})
    /\ Stops("undefined")

\* Mutant: whatever has not been translated.
NotLifted == {o \in Objects : o[1] # "lifted"}

\* Collected once: what only an unused function used stays.
Unused == {o \in Objects : o[1] # "lifted" /\ Users(o) = {}}

Sweep ==
    /\ phase = "sweep"
    /\ Without(Unused)
    /\ phase' = "done"
    /\ UNCHANGED <<input, pending, mcalls, given, registered, header>>

Next ==
    \/ FillModuleWithInstrs \/ NoImplementations \/ LinkError \/ ReplacesFunction
    \/ \E i \in Fns : CloneMachineFunction(i)
    \/ RedirectCalls
    \/ DeclareRuntime
    \/ \E i \in Fns :
        GenerateFunction(i) \/ NoTranslation(i) \/ NoStackPointer(i) \/ NoInstruction(i)
    \/ FillSymtab \/ NoSymbol
    \/ LinkRuntime
    \/ \E i \in Fns : RenameFunction(i)
    \/ WriteHeader \/ HeaderNotWritable
    \/ \E i \in Fns : EraseOriginal(i) \/ ErasesUsed(i)
    \/ Sweep

Spec == Init /\ [][Next]_vars

-----------------------------------------------------------------------------
(* Properties *)

Failed == {"error", "exit", "undefined"}
Generated == {"symtab", "link", "rename", "header", "erase", "sweep", "done"}

\* State is of its type; names are the symbol table of the module: no two
\* functions have one.  What a body uses is in the module, so nothing is
\* erased that is still called (line 1405 to 1418).
TypeOK ==
    /\ input \in Inputs
    /\ phase \in Failed \cup Generated \cup {"instrs", "clone", "redirect", "declare", "generate"}
    /\ pending \subseteq Fns
    /\ \A o, p \in Objects : names[o] = names[p] => o = p
    /\ defined \subseteq Objects
    /\ phase \notin Failed => \A u \in uses : u[1] \in Objects /\ u[2] \in Objects
    /\ \A i \in Fns : given[i] \in 0..Len(input.fns)
    /\ header \subseteq Range(names)

\* A call in a lifted function goes to the lifted function of its callee, also
\* when that one is only declared or is the caller, and never to a function of
\* the input (line 1334 to 1351).
CallsReachLifted ==
    phase \in Generated => \A i \in Fns :
        {u[2] : u \in {v \in uses : v[1] = Lifted(i) /\ v[2][1] \in {"source", "lifted"}}}
            = {Lifted(j) : j \in input.fns[i].calls}
                \cup {v[3] : v \in {w \in registered : w[1] = Lifted(i)}}

\* No function has as its symbol the name LLVM made up for i.
Clear(i) ==
    \A t \in Fns : input.fns[t].symbol = input.fns[i].name =>
                    input.fns[t].symbol = input.fns[i].symbol

\* Every function with a body is lifted with the addresses of the function it
\* was translated from, although that one is looked up by a name (line 1370).
\* The exception is a symbol that LLVM's name for another function is like: the
\* three functions f, f and f.1 are called f, f.1 and f.1.2, and the second is
\* lifted with the addresses of the third.
OwnTranslation ==
    \A i \in WithBody : Clear(i) => given[i] \in {0, i} /\
        (phase \in Generated /\ input.translated => given[i] = i)

\* Every function that can be entered first registers every lifted function
\* that can be reached by address, each at its own address, if the table is the
\* one mctomir wrote for the program (line 308).
SymtabExact ==
    LET Own == input.symtab = [i \in Fns |-> [name |-> input.fns[i].symbol,
                                             start |-> input.fns[i].start]]
    IN  phase \in Generated \ {"symtab"} /\ input.hasSymtab /\ Own
            /\ (\A i \in WithBody : Clear(i)) =>
        registered = {<<Lifted(i), input.fns[j].start, Lifted(j)>> : i \in WithBody, j \in WithBody}

\* The finished module defines all it uses, except functions that were only
\* declared in the input and the lookup of transfers by address when no
\* symbol table was given (line 1387).
Linkable ==
    phase = "done" =>
        {u[2] : u \in uses} \ defined \subseteq
            {Lifted(i) : i \in Fns \ WithBody}
            \cup (IF input.hasSymtab THEN {} ELSE {Runtime("lookup")})

\* Whether a prefixed name is that of another function of the module, of a
\* runtime function or an instruction, or may be that of an original.
Taken ==
    \E i, j \in Fns :
        LET n == Prefix \o input.fns[i].name
        IN  \/ n \in {input.fns[j].name} \cup Range(RuntimeNames) \cup {<<m>> : m \in Configured}
            \/ IsPrefix(input.fns[j].name \o <<".old">>, n)

\* Unless a prefixed name is taken, the host finds every function under it,
\* and the header declares those of them that C can name (line 1391).
HostSees ==
    /\ phase = "done" /\ ~Taken =>
        \A i \in Fns : names[Lifted(i)] = Prefix \o input.fns[i].name
    /\ phase = "done" /\ input.header = "file" =>
        header = {names[Lifted(i)] : i \in {j \in Fns : ~has_special_chars(names[Lifted(j)])}}

\* Instructions and functions that go together: what is used is implemented, the
\* stack pointer is a register of the target, nothing is defined twice, every
\* function has a symbol and no IR is called.
SoundInput ==
    /\ ~NoFirstModule /\ ~DefinedTwice /\ Clashing = {}
    /\ \A i \in Fns : ~Unsupported(i) /\ input.fns[i].irCalls = {}
    /\ input.header # "unwritable" /\ input.stackPointer
    /\ \A i \in WithBody : input.fns[i].name = input.fns[i].symbol
    /\ input.hasSymtab => \A i \in WithBody : Symbols(input.fns[i].name) # {}

\* A sound input is never turned down and never makes the pass run into
\* undefined behaviour, in whatever order functions are cloned, lifted,
\* renamed and erased (line 133, 1377, 1405).
Accepts == SoundInput => phase \notin Failed
=============================================================================
