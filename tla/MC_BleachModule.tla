-------------------------- MODULE MC_BleachModule --------------------------
(***************************************************************************)
(* Modules of up to three functions: sound ones in which functions call    *)
(* each other and themselves, are only declared, or have names C does not  *)
(* know; and one for every way an input can be unsound.                    *)
(***************************************************************************)
EXTENDS BleachModule

\* A function with a body, which calls those in "calls".
Body(name, start, calls) ==
    [name |-> name, symbol |-> name, start |-> start, body |-> TRUE, ir |-> FALSE,
     calls |-> calls, irCalls |-> {}, instrs |-> {"ADD"}, indirect |-> FALSE, pcrel |-> FALSE]
Declared(name) ==
    [Body(name, 0, {}) EXCEPT !.body = FALSE, !.instrs = {}]
Entry(name, func, memory) == [name |-> name, func |-> func, memory |-> memory]

Config == <<Entry("ADD", TRUE, FALSE), Entry("RET", FALSE, FALSE),
            Entry("LW", TRUE, TRUE), Entry("SW", TRUE, TRUE)>>

\* --symtab-file of mctomir: the symbols of the file, in its order.
SymtabOf(fns) == [i \in DOMAIN fns |-> [name |-> fns[i].symbol, start |-> fns[i].start]]
Input(fns, translated, hasSymtab) ==
    [fns |-> fns, translated |-> translated, hasSymtab |-> hasSymtab,
     symtab |-> IF hasSymtab THEN SymtabOf(fns) ELSE << >>,
     config |-> Config, stackPointer |-> TRUE, header |-> "file"]

main == <<"main">>
Three(x, y, z) ==
    <<[Body(main, 16, x) EXCEPT !.instrs = {"ADD", "LW"}, !.indirect = TRUE],
      Body(<<"f", ".">>, 8, y), z>>
Sound ==
    {Input(Three(x, y, z), t, s) :
        x \in SUBSET {1, 2, 3}, y \in SUBSET {1, 2},
        z \in {Declared(<<"$">>), [Body(<<"g">>, 24, {2}) EXCEPT !.ir = TRUE]},
        t \in BOOLEAN, s \in BOOLEAN}
WithPcrel ==
    {Input(<<[Body(main, 16, {}) EXCEPT !.pcrel = TRUE]>>, t, FALSE) : t \in BOOLEAN}

\* Two static functions of one name: the module's second is called f.1.
Statics ==
    {Input(<<Body(<<"f">>, 8, {2}), [b EXCEPT !.symbol = <<"f">>]>>, t, s) :
        b \in {Body(<<"f", ".">>, 24, {1}), Declared(<<"f", ".">>)},
        t \in BOOLEAN, s \in BOOLEAN}

\* A program that has been lifted before: a prefixed name is taken.
Relifted ==
    {[Input(<<Body(main, 8, {2}), Body(<<"bleached_", "main">>, 16, {1})>>, TRUE, FALSE)
        EXCEPT !.header = h] : h \in {"none", "file"}}

\* A third function is called in the file as LLVM calls the second; and the
\* prefixed name of one is that of another one's original.
Clashes ==
    {Input(<<Body(<<"f">>, 8, {}), [Body(<<"f", ".">>, 24, {}) EXCEPT !.symbol = <<"f">>],
             [Body(<<"f", ".", ".">>, 32, {}) EXCEPT !.symbol = <<"f", ".">>]>>, t, TRUE) :
        t \in BOOLEAN}
    \cup {Input(<<Body(<<"f", ".old">>, 8, {}), Body(<<"bleached_", "f">>, 16, {})>>, TRUE, TRUE)}

One == Input(<<Body(main, 8, {})>>, FALSE, TRUE)
Unsound ==
    {[One EXCEPT !.header = "unwritable"], [One EXCEPT !.symtab = << >>],
     [One EXCEPT !.stackPointer = FALSE]}
    \cup {[One EXCEPT !.config = c] :
            c \in {<< >>, Tail(Config), Config \o Config, Tail(Tail(Config))}}
    \* a function that has the name of an instruction
    \cup {Input(<<Body(main, 8, {2}), [Declared(<<"LW">>) EXCEPT !.ir = ir]>>, FALSE, FALSE) :
            ir \in BOOLEAN}
    \* originals with an IR body of their own, which call each other
    \cup {Input(<<[Body(main, 8, {2}) EXCEPT !.ir = TRUE, !.irCalls = {2}],
                  [Body(<<"f">>, 16, {}) EXCEPT !.ir = TRUE, !.irCalls = y]>>, FALSE, FALSE) :
            y \in {{}, {2}, {1}}}

MC_Inputs == Sound \cup WithPcrel \cup Statics \cup Relifted \cup Clashes \cup Unsound
MC_Pieces == {"main", "f", "g", "$", ".", ".old", "LW", "bleached_"}
MC_Prefix == <<"bleached_">>

=============================================================================
