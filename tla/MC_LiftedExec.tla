--------------------------- MODULE MC_LiftedExec ---------------------------
(***************************************************************************)
(* Small programs for LiftedExec.  Registers 10 and 12 are one class, 11   *)
(* lies between them in another; 10 is constant.  Sub-register 9 of 12 is  *)
(* numbered below every register, so that it would shift every index of    *)
(* a copy that did not filter it out.                                      *)
(***************************************************************************)
EXTENDS LiftedExec, TLC

MC_Reg == {10, 11, 12}
MC_Val == 0..4
MC_ConstVal == 10 :> 0
MC_Class == {"GPR", "FPR"}
MC_RegsOf == [c \in MC_Class |-> IF c = "GPR" THEN {10, 12} ELSE {11}]
MC_RootOf == 9 :> 12
MC_Alu == [p \in MC_Val \X MC_Val |-> (p[1] + p[2]) % 5]
MC_TakenOn == {0}

I(op) == [op |-> op, dst |-> 10, src |-> 10, src2 |-> 10, to |-> 0,
          callee |-> "main", off |-> 0]
Add(d, a, b) == [I("alu") EXCEPT !.dst = d, !.src = a, !.src2 = b]
Branch(r, to) == [I("cbr") EXCEPT !.src = r, !.to = to]
Jump(to) == [I("jmp") EXCEPT !.to = to]
Call(f) == [I("call") EXCEPT !.callee = f]
TailCall(f) == [I("tail") EXCEPT !.callee = f]
Via(op, r, off) == [I(op) EXCEPT !.src = r, !.off = off]

\* main and leaf call each other directly and through registers, that hold
\* the address of main, of leaf, or of nothing.  leaf has a second name.
MC_Fn == {"main", "leaf", "alias"}
MC_Start == [f \in MC_Fn |-> IF f = "main" THEN 1 ELSE 2]
MC_Code == [f \in MC_Fn |->
    IF f = "main"
    THEN << Add(12, 12, 11), Call("leaf"), Branch(12, 6),
            Via("jalr", 11, 0), TailCall("leaf"),
            Add(10, 12, 11), Via("jr", 12, 0) >>
    ELSE << Add(11, 11, 12), Branch(11, 5),
            Add(12, 12, 11), Jump(5), I("ret") >>]
MC_Leader == [f \in MC_Fn |-> IF f = "main" THEN {1, 4, 6} ELSE {1, 3, 5}]

\* Callees that leave the registers alone, as --assume-function-nop assumes.
MC_NopCode == [f \in MC_Fn |->
    IF f = "main"
    THEN << Add(12, 12, 11), Call("leaf"), Add(11, 12, 12), Call("leaf"),
            Branch(11, 7), Add(12, 12, 12), TailCall("leaf") >>
    ELSE << Branch(11, 3), Jump(4), Jump(4), I("ret") >>]
MC_NopLeader == [f \in MC_Fn |-> IF f = "main" THEN {1, 6, 7} ELSE 1..4]

\* A call whose next instruction is the head of a loop.
MC_CallEndsBlockCode == [f \in MC_Fn |->
    IF f = "main"
    THEN << Call("leaf"), Add(12, 12, 11), Branch(12, 2), I("ret") >>
    ELSE << Add(11, 11, 11), I("ret") >>]
MC_CallEndsBlockLeader == [f \in MC_Fn |-> IF f = "main" THEN {1, 2, 4} ELSE {1}]

============================================================================
