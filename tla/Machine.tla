------------------------------ MODULE Machine ------------------------------
(***************************************************************************)
(* What a lifted program promises: the behaviour of the machine program    *)
(* itself.  One register file, one stack of return positions, and a host   *)
(* that calls a function, waits for it to return and reads the registers.  *)
(*                                                                         *)
(* The return-address register is not part of the register file: a lifted  *)
(* program returns through the stack of its host, and never updates it.    *)
(* An indirect transfer to an address at which no function starts leaves   *)
(* the program the lifter knows about: the machine is "trap"ped.           *)
(***************************************************************************)
EXTENDS SourceProgram

VARIABLES
    regs,       \* the register file
    stack,      \* positions to continue at; the last is the running one
    status      \* "run", "done" (control is with the host) or "trap"

vars == <<regs, stack, status>>

Position == [fn : Fn, pc : Nat]

TypeOK ==
    /\ regs \in RegFile
    /\ stack \in Seq(Position)
    /\ status \in {"run", "done", "trap"}

Init ==
    /\ regs \in RegFile
    /\ stack = << >>
    /\ status = "done"

Top == stack[Len(stack)]
Pop == SubSeq(stack, 1, Len(stack) - 1)
Running(op) == status = "run" /\ stack # << >> /\ OpAt(Top.fn, Top.pc) = op
Here == Code[Top.fn][Top.pc]
At(pc) == [stack EXCEPT ![Len(stack)] = [fn |-> Top.fn, pc |-> pc]]
Goto(pc) == stack' = At(pc)

\* A function is entered from position `back' of the running one.
Push(f, back) ==
    stack' = Append(At(back), [fn |-> f, pc |-> 1])

HostCall(f) ==
    /\ status = "done"
    /\ regs' \in RegFile
    /\ stack' = <<[fn |-> f, pc |-> 1]>>
    /\ status' = "run"

Alu2 ==
    /\ Running("alu")
    /\ regs' = WriteReg(regs, Here.dst,
                        Alu[<<ReadReg(regs, Here.src), ReadReg(regs, Here.src2)>>])
    /\ Goto(Top.pc + 1)
    /\ UNCHANGED status

Cbr ==
    /\ Running("cbr")
    /\ Goto(IF ReadReg(regs, Here.src) \in TakenOn THEN Here.to ELSE Top.pc + 1)
    /\ UNCHANGED <<regs, status>>

Jmp ==
    /\ Running("jmp")
    /\ Goto(Here.to)
    /\ UNCHANGED <<regs, status>>

\* After a call the next instruction runs; a tail transfer has no next one,
\* its caller returns as soon as its callee does.
Direct ==
    /\ \/ Running("call") /\ Push(Here.callee, Top.pc + 1)
       \/ Running("tail") /\ Push(Here.callee, 0)
    /\ UNCHANGED <<regs, status>>

Address == Alu[<<ReadReg(regs, Here.src), Here.off>>]

Indirect ==
    /\ \/ Running("jalr") /\ \E f \in Fn : Start[f] = Address /\ Push(f, Top.pc + 1)
       \/ Running("jr") /\ \E f \in Fn : Start[f] = Address /\ Push(f, 0)
    /\ UNCHANGED <<regs, status>>

Wild ==
    /\ Running("jalr") \/ Running("jr")
    /\ \A f \in Fn : Start[f] # Address
    /\ status' = "trap"
    /\ UNCHANGED <<regs, stack>>

Ret ==
    /\ Running("ret")
    /\ stack' = Pop
    /\ status' = IF Len(stack) = 1 THEN "done" ELSE "run"
    /\ UNCHANGED regs

Next ==
    \/ \E f \in Fn : HostCall(f)
    \/ Alu2 \/ Cbr \/ Jmp \/ Direct \/ Indirect \/ Wild \/ Ret

Spec == Init /\ [][Next]_vars

============================================================================
