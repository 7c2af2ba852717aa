------------------------------ MODULE MC_Tools ------------------------------
(***************************************************************************)
(* Two programs, with and without functions, and object files with flaws;  *)
(* instruction files that describe all, that can be written back, and that *)
(* are turned down.                                                        *)
(***************************************************************************)
EXTENDS Tools

Program == [flaws |-> {}, bodies |-> TRUE, instrs |-> {"ADD"}]
Other == [Program EXCEPT !.instrs = {"ADD", "MUL"}]
MC_Builds == {Program, Other, [flaws |-> {}, bodies |-> FALSE, instrs |-> {}],
              [Program EXCEPT !.flaws = {"no_text"}]}

MC_MctomirRuns == {{}, {"symtab"}}
MC_BleachRuns == {{"mir"}, {"mir", "instructions", "symtab", "header"},
                  {"instructions", "symtab"}, {"instructions", "dump", "header"}}

Add == [name |-> "ADD", keys |-> 1, func |-> "ir", is_return |-> "none",
        is_indirect_branch |-> FALSE, pcrelative |-> FALSE]
Auipc == [Add EXCEPT !.name = "AUIPC", !.pcrelative = TRUE]
Ret == [Add EXCEPT !.name = "RET", !.func = "none", !.is_return = "sequence"]
Config(instrs) ==
    [stack_pointer |-> TRUE, registers |-> TRUE, subregisters |-> <<"FPR_W">>,
     instructions |-> instrs]
MC_Configs ==
    {Config(<<Add, Auipc>>), Config(<<Add, Ret>>), Config(<<[Add EXCEPT !.func = "broken"]>>)}

\* The other reasons to turn one down.
Unreadable ==
    {[Config(<<Add>>) EXCEPT !.subregisters = <<"FPR_W", "FPR_W">>],
     [Config(<<Add>>) EXCEPT !.stack_pointer = FALSE],
     Config(<<Add, [Ret EXCEPT !.is_return = "scalar"]>>),
     Config(<<[Add EXCEPT !.keys = 2]>>)}
ASSUME \A c \in Unreadable : IsConfig(c) /\ ~Loads(c)

=============================================================================
