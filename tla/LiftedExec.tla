---------------------------- MODULE LiftedExec -----------------------------
(***************************************************************************)
(* The program the lifter emits, run: every lifted function takes the      *)
(* shared state struct, copies the registers into allocas of its own in    *)
(* the prologue, works on these, and copies them back around calls and     *)
(* before it returns.  Indirect transfers go through the symbol table of   *)
(* the runtime (symtab.cpp), which the prologues fill.                     *)
(*                                                                         *)
(* The state of this module is the state of the emitted program; each      *)
(* action is the code one generator of lifter.cpp emits for one source     *)
(* instruction.  The emitted code is sequential, so a transfer and the     *)
(* prologue it reaches, and a return and the copy its caller makes after   *)
(* it, are one step.                                                       *)
(***************************************************************************)
EXTENDS StateStruct

CONSTANTS
    FunctionsNop,   \* --assume-function-nop
    MaxDepth        \* bound on nested activations

ASSUME OptionAssumption == FunctionsNop \in BOOLEAN /\ MaxDepth \in Nat

VARIABLES
    state,      \* the register_state struct
    frames,     \* activations: position, allocas, and whether the copy
                \* after the pending transfer loads the struct again
    symtab,     \* bleach_symtab: address |-> function
    mode        \* "run", "done" (the host has control) or "trap"

vars == <<state, frames, symtab, mode>>

Frame == {frame \in [fn : Fn, pc : Nat, locals : [Reg -> Val], reload : BOOLEAN] :
              frame.pc <= Len(Code[frame.fn])}
Symtab == UNION {[A -> Fn] : A \in SUBSET {Start[f] : f \in Fn}}

Top == frames[Len(frames)]
Here == Code[Top.fn][Top.pc]
At(op) == mode = "run" /\ OpAt(Top.fn, Top.pc) = op
SetTop(frame) == [frames EXCEPT ![Len(frames)] = frame]
Goto(pc) == frames' = SetTop([Top EXCEPT !.pc = pc])

\* operand_to_value and write_value_to_register on the running activation.
OperandToValue(r) == ReadReg(Top.locals, r)
WriteValueToRegister(r, v) == WriteReg(Top.locals, r, v)

\* Mutant: a prologue registers one function.
FillSymtabOne ==
    \E f \in Fn : symtab' = [a \in DOMAIN symtab \cup {Start[f]} |->
                                IF a \in DOMAIN symtab THEN symtab[a] ELSE f]

\* fill_symtab_at puts the registration of every lifted function at the top of
\* every prologue; try_emplace keeps the entry of an address that has one.
\* Which of two functions at one address registers first is up to the order
\* of an unordered_map.
FillSymtab ==
    symtab' \in {t \in [{Start[f] : f \in Fn} -> Fn] :
                    /\ \A a \in DOMAIN symtab : t[a] = symtab[a]
                    /\ \A a \in DOMAIN t : Start[t[a]] = a}

Activation(f, st) ==
    [fn |-> f, pc |-> 1, locals |-> MaterializeRegisters(st), reload |-> TRUE]

\* Mutant: no `ret void' after a transfer that ends its block.
ResumeAtNext == Top.pc + 1

\* fill_ir_for_bb: a block that ends in a transfer of control gets `ret void'
\* right after it, whatever the transfer was.
ResumeAt == IF EndsBlock(Top.fn, Top.pc) THEN 0 ELSE Top.pc + 1

\* Mutant: no copy before the transfer.
TransferUnsaved(f, reload) ==
    /\ Len(frames) < MaxDepth
    /\ frames' = Append(SetTop([Top EXCEPT !.pc = ResumeAt, !.reload = reload]),
                        Activation(f, state))
    /\ FillSymtab
    /\ UNCHANGED <<state, mode>>

\* The copy before the transfer, the transfer, the callee's prologue.
Transfer(f, reload) ==
    LET saved == SaveRegisters(state, Top.locals)
        caller == [Top EXCEPT !.pc = ResumeAt, !.reload = reload]
    IN  /\ Len(frames) < MaxDepth
        /\ state' = saved
        /\ frames' = Append(SetTop(caller), Activation(f, saved))
        /\ FillSymtab
        /\ UNCHANGED mode

Init ==
    /\ state \in StateType
    /\ HoldsConstants(state)
    /\ frames = << >>
    /\ symtab = [a \in {} |-> a]
    /\ mode = "done"

\* The host sets up the struct and calls a lifted function.
HostCall(f) ==
    /\ mode = "done"
    /\ state' \in StateType
    /\ HoldsConstants(state')
    /\ frames' = <<Activation(f, state')>>
    /\ FillSymtab
    /\ mode' = "run"

GenerateInstruction ==
    /\ At("alu")
    /\ LET val == Alu[<<OperandToValue(Here.src), OperandToValue(Here.src2)>>]
       IN  frames' = SetTop([Top EXCEPT !.pc = Top.pc + 1,
                                        !.locals = WriteValueToRegister(Here.dst, val)])
    /\ UNCHANGED <<state, symtab, mode>>

GenerateBranch ==
    /\ At("cbr")
    /\ Goto(IF OperandToValue(Here.src) \in TakenOn THEN Here.to ELSE Top.pc + 1)
    /\ UNCHANGED <<state, symtab, mode>>

GenerateJump ==
    /\ At("jmp")
    /\ Goto(Here.to)
    /\ UNCHANGED <<state, symtab, mode>>

\* A tail call reaches the lifter as a branch with a function operand, and is_call
\* takes it for a call.
GenerateCall ==
    /\ At("call") \/ At("tail")
    /\ Transfer(Here.callee, ~FunctionsNop)

\* Only the first operand is kept: the offset is erased.
LookupAddress == OperandToValue(Here.src)

GenerateIndirectBranch ==
    /\ At("jalr") \/ At("jr")
    /\ LookupAddress \in DOMAIN symtab
    /\ Transfer(symtab[LookupAddress], TRUE)

\* symtab.at throws before anything is saved.
LookupFails ==
    /\ At("jalr") \/ At("jr")
    /\ LookupAddress \notin DOMAIN symtab
    /\ mode' = "trap"
    /\ UNCHANGED <<state, frames, symtab>>

\* save_registers_before_return, `ret void', and the caller's load_registers.
GenerateReturn ==
    /\ At("ret")
    /\ LET saved == SaveRegisters(state, Top.locals)
           rest == SubSeq(frames, 1, Len(frames) - 1)
           caller == rest[Len(rest)]
       IN  /\ state' = saved
           /\ IF rest = << >>
              THEN frames' = rest /\ mode' = "done"
              ELSE /\ frames' = [rest EXCEPT ![Len(rest)] =
                        IF caller.reload
                        THEN [caller EXCEPT !.locals = LoadRegisters(saved, caller.locals)]
                        ELSE caller]
                   /\ UNCHANGED mode
    /\ UNCHANGED symtab

Next ==
    \/ \E f \in Fn : HostCall(f)
    \/ GenerateInstruction \/ GenerateBranch \/ GenerateJump \/ GenerateCall
    \/ GenerateIndirectBranch \/ LookupFails \/ GenerateReturn

Spec == Init /\ [][Next]_vars

-----------------------------------------------------------------------------

\* Type invariant: the running activation is the last frame, at a position
\* of its function, and there is one exactly while lifted code runs.
TypeOK ==
    /\ state \in StateType
    /\ frames \in Seq(Frame)
    /\ symtab \in Symtab
    /\ mode \in {"run", "done", "trap"}
    /\ mode = "done" <=> frames = << >>

\* The architectural view of a running lifted program: the registers are the
\* allocas of the running activation, or the struct while the host has control.
MappedRegs == IF mode = "done" THEN MaterializeRegisters(state) ELSE Top.locals
Position(frame) == [fn |-> frame.fn, pc |-> frame.pc]
Positions(fs) == [i \in 1..Len(fs) |-> Position(fs[i])]

M == INSTANCE Machine WITH regs <- MappedRegs, stack <- Positions(frames),
                           status <- mode

\* The lifted program does what the machine program does: no register value is
\* lost or stale across a call, a return or an indirect transfer, however
\* deep the calls nest, and control continues where the machine's does.
Refines == M!Spec

\* The programs for which it does.  A call does not end its basic block, a
\* tail transfer does, an indirect transfer adds nothing to its register, and
\* calls are not assumed to leave the registers alone.
CallsContinue ==
    \A f \in Fn : \A pc \in DOMAIN Code[f] :
        Code[f][pc].op \in {"call", "jalr"} => ~EndsBlock(f, pc)
TailsEndBlocks ==
    \A f \in Fn : \A pc \in DOMAIN Code[f] :
        Code[f][pc].op \in {"tail", "jr"} => EndsBlock(f, pc)
OffsetsAreZero ==
    \A f \in Fn : \A pc \in DOMAIN Code[f] :
        Code[f][pc].op \in {"jalr", "jr"} =>
            \A v \in Val : Alu[<<v, Code[f][pc].off>>] = v
Faithful == CallsContinue /\ TailsEndBlocks /\ OffsetsAreZero /\ ~FunctionsNop

\* A constant register holds its constant in the struct and in the allocas of
\* every activation, also of those that wait for a callee: writes to it store
\* the constant and no copy brings anything else in.
ConstRegsKept ==
    /\ HoldsConstants(state)
    /\ \A i \in 1..Len(frames) : frames[i].locals \in RegFile

\* Once lifted code runs the symbol table resolves the address of every lifted
\* function to a function at that address; so a lookup that throws was for
\* an address at which no function starts.
SymtabComplete ==
    /\ frames # << >> =>
        \A f \in Fn : Start[f] \in DOMAIN symtab /\ Start[symtab[Start[f]]] = Start[f]
    /\ mode = "trap" => \A f \in Fn : Start[f] # LookupAddress

============================================================================
