----------------------------- MODULE InstrConfig -----------------------------
(***************************************************************************)
(* The instruction file: which ones are read, and what of them is written  *)
(* by --dump-input-instructions.  A file is told by the parts that reading *)
(* turns down or writing drops; names and expressions are handed on.       *)
(***************************************************************************)
EXTENDS Naturals, Sequences

\* stack_pointer, registers: whether the file has the key, and the keys of the
\* other registers; subregisters: the classes that are said to be part of
\* another one.  Of an instruction: how many keys its entry has, its function,
\* what its is_return is, and its flags.
IsConfig(y) ==
    /\ y.stack_pointer \in BOOLEAN /\ y.registers \in BOOLEAN
    /\ \A k \in DOMAIN y.instructions :
        LET i == y.instructions[k] IN
        /\ i.keys \in Nat
        /\ i.func \in {"none", "ir", "broken"}
        /\ i.is_return \in {"none", "scalar", "sequence"}
        /\ i.is_indirect_branch \in BOOLEAN /\ i.pcrelative \in BOOLEAN

\* The first entry has a function; BleachModule has files without.
HasFirst(y) == y.instructions # << >> /\ y.instructions[1].func # "none"

\* One key, which is the name; a return's registers are a list.
decodes(i) == i.keys = 1 /\ i.is_return # "scalar"

\* An exception ends the reading of anything else.
Loads(y) ==
    /\ y.stack_pointer
    /\ \A k, l \in DOMAIN y.subregisters : y.subregisters[k] = y.subregisters[l] => k = l
    /\ \A k \in DOMAIN y.instructions :
        decodes(y.instructions[k]) /\ y.instructions[k].func # "broken"

\* The instructions whose functions fill_module_with_instrs will find.
Implemented(y) ==
    {y.instructions[k].name : k \in {l \in DOMAIN y.instructions : y.instructions[l].func = "ir"}}

\* An instruction without a function is not written: an exception.
Saves(y) == \A k \in DOMAIN y.instructions : y.instructions[k].func # "none"

NameAndFunction(i) ==
    [i EXCEPT !.is_return = "none", !.is_indirect_branch = FALSE, !.pcrelative = FALSE]

\* Mutant: with the registers; instructions still lose what marks them.
save_registers_to_yaml(y) ==
    [y EXCEPT !.instructions = [k \in DOMAIN @ |-> NameAndFunction(@[k])]]

\* Of instructions the name and the function, and nothing of the registers.
save_to_yaml(y) ==
    [stack_pointer |-> FALSE, registers |-> FALSE, subregisters |-> << >>,
     instructions |-> [k \in DOMAIN y.instructions |-> NameAndFunction(y.instructions[k])]]
=============================================================================
