----------------------------- MODULE MC_LiftCFG -----------------------------
(***************************************************************************)
(* Machine functions of three blocks: every combination of ways to end the *)
(* first two, with and without a call in them, and four last blocks.       *)
(***************************************************************************)
EXTENDS LiftCFG, FiniteSets

I(op, ref) == [op |-> op, ref |-> ref]

\* A block with its successors; cbr and jmp to targets other than the entry.
Block(n, instrs) ==
    LET Refs == {instrs[k].ref : k \in {j \in DOMAIN instrs : instrs[j].op \in {"cbr", "jmp"}}}
        Falls == instrs[Len(instrs)].op \in {"cbr", "plain", "call", "jalr"}
    IN  [instrs |-> instrs,
         succs |-> SelectSeq(<<1, 2, 3>>,
                        LAMBDA s : s \in Refs \cup (IF Falls THEN {n + 1} ELSE {}))]

Bodies == {<< >>, <<I("call", 0), I("plain", 0)>>}
T == 2..3
Ends == {<<I("cbr", t)>> : t \in T} \cup {<<I("jmp", t)>> : t \in T}
        \cup {<<I("cbr", t), I("jmp", u)>> : t \in T, u \in T}
        \cup {<<I("cbr", t), I("ret", 0)>> : t \in T}
        \cup {<<I("ret", 0)>>, <<I("tail", 0)>>, <<I("jr", 0)>>,
              <<I("jalr", 0), I("plain", 0)>>}
LastEnds == {<<I("ret", 0)>>, <<I("jmp", 2)>>, <<I("cbr", 3), I("jmp", 2)>>,
             <<I("cbr", 2), I("ret", 0)>>}
MC_Functions ==
    {<<Block(1, b1 \o e1), Block(2, b2 \o e2), Block(3, <<I("plain", 0)>> \o e3)>> :
        b1 \in Bodies, e1 \in Ends, b2 \in Bodies, e2 \in Ends, e3 \in LastEnds}

ASSUME \A mf \in MC_Functions : WellFormed(mf) /\ LoadsFirst(mf) /\ TransfersLast(mf)

=============================================================================
