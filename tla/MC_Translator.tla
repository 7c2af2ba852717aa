--------------------------- MODULE MC_Translator ---------------------------
(***************************************************************************)
(* Object files for the translator: all structured ones of two functions   *)
(* over four addresses without indirect transfers, and some chosen ones.   *)
(***************************************************************************)
EXTENDS Translator, TLC

I(kind, size, target) == [kind |-> kind, size |-> size, target |-> target]
Symbol(type, start, size) ==
    [type |-> type, named |-> TRUE, start |-> start, size |-> size]


\* A function at 0..2, one at 3, a label without a size and a data symbol.  What may
\* stand at address a: only the last instruction of a function may not go on
\* to the next one, branches stay inside, jumps may also leave.
Entries == {0, 3}
BodyOf(a) == IF a = 3 THEN {3} ELSE 0..2
At(a) ==
    {I("ret", 1, 0)}
    \cup {I("jmp", 1, t) : t \in BodyOf(a) \cup Entries}
    \cup (IF a + 1 \notin BodyOf(a) THEN {}
          ELSE {I("plain", 1, 0)} \cup {I("cbr", 1, t) : t \in BodyOf(a)}
               \cup {I("call", 1, t) : t \in Entries})
Texts == {0 :> i @@ 1 :> j @@ 2 :> k @@ 3 :> l : i \in At(0), j \in At(1), k \in At(2), l \in At(3)}
AllSymbols == {Symbol("function", 0, 3), Symbol("function", 3, 1),
               Symbol("unknown", 1, 0), Symbol("data", 2, 2)}

\* Instructions of two sizes, illegal bytes between and inside functions, a loop,
\* a branch to the next block, a tail call, a call through a register.
Text1 == 0 :> I("plain", 2, 0) @@ 2 :> I("cbr", 1, 3) @@ 3 :> I("call", 2, 12)
         @@ 5 :> I("jmp", 1, 8) @@ 8 :> I("cbr", 2, 2) @@ 10 :> I("jmp", 2, 12)
         @@ 12 :> I("jalr", 1, 0) @@ 13 :> I("cbr", 1, 12) @@ 14 :> I("ret", 2, 0)
\* The second word of an instruction decodes too when jumped to.
MC_SizedImages == {[text |-> Text1 @@ 4 :> I("ret", 1, 0) @@ x,
                    symbols |-> {Symbol("function", 0, 12), Symbol("function", 12, 4),
                                 Symbol("unknown", 8, 0), Symbol("unknown", 12, 0)}] :
                   x \in {1 :> I("ret", 1, 0), 1 :> I("plain", 2, 0)}}

MC_Images == {[text |-> text, symbols |-> AllSymbols] : text \in Texts} \cup MC_SizedImages

ASSUME \A img \in MC_Images : Structured(img)

\* A jump to an address no symbol covers, such as a stub.
MC_UnresolvedImages ==
    {[text |-> 0 :> I("plain", 1, 0) @@ 1 :> I("jmp", 1, 9),
      symbols |-> {Symbol("function", 0, 2)}]}

=============================================================================
