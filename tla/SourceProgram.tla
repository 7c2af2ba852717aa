--------------------------- MODULE SourceProgram ---------------------------
(***************************************************************************)
(* The machine program the lifter is given: MIR functions, each a sequence *)
(* of instructions cut into basic blocks, over a file of registers.        *)
(*                                                                         *)
(* A function is flattened to the layout order of its blocks, so an        *)
(* instruction is named by its function and its position, and a basic      *)
(* block by the position of its first instruction (its leader).  What the  *)
(* instructions compute is left to the constants Alu and TakenOn: the      *)
(* lifter never looks inside an instruction, it calls the IR function the  *)
(* user's YAML gives for it.                                               *)
(***************************************************************************)
EXTENDS Integers, Sequences, FiniteSets

CONSTANTS
    Reg,        \* architectural registers, by their LLVM register number
    Val,        \* register contents; some of them are code addresses
    ConstVal,   \* constant-registers of the YAML: register |-> its value
    Fn,         \* functions with a body
    Code,       \* function |-> its instructions, blocks in layout order
    Leader,     \* function |-> positions at which a basic block begins
    Start,      \* function |-> its address in the ELF symbol table
    Alu,        \* what a two-operand instruction computes
    TakenOn     \* values on which a conditional branch is taken

Op == {"alu", "cbr", "jmp", "call", "tail", "jalr", "jr", "ret"}

\* dst := Alu(src, src2); branches test src and go to position `to';
\* call and tail name `callee'; jalr and jr go to the address Alu(src, off).
Instr == [op : Op, dst : Reg, src : Reg, src2 : Reg,
          to : Nat, callee : Fn, off : Val]

RegFile == {regs \in [Reg -> Val] :
                \A r \in DOMAIN ConstVal : regs[r] = ConstVal[r]}

ASSUME RegisterAssumption ==
    /\ Reg \subseteq Nat
    /\ DOMAIN ConstVal \subseteq Reg
    /\ ConstVal \in [DOMAIN ConstVal -> Val]

ASSUME SemanticsAssumption ==
    /\ Alu \in [Val \X Val -> Val]
    /\ TakenOn \subseteq Val

\* Functions without a body are declarations and are never entered.  The last
\* instruction may not fall through: there is no next block to go to and
\* the lifter rejects the function.
ASSUME ProgramAssumption ==
    /\ Start \in [Fn -> Val]
    /\ Code \in [Fn -> Seq(Instr)]
    /\ Leader \in [Fn -> SUBSET Nat]
    /\ \A f \in Fn :
        /\ Code[f] # << >>
        /\ 1 \in Leader[f]
        /\ Leader[f] \subseteq DOMAIN Code[f]
        /\ Code[f][Len(Code[f])].op \in {"jmp", "tail", "jr", "ret"}
        /\ \A pc \in DOMAIN Code[f] :
            Code[f][pc].op \in {"cbr", "jmp"} => Code[f][pc].to \in Leader[f]

\* Position 0 of every function is the return that ends a transfer of
\* control which is not followed by an instruction.
OpAt(f, pc) == IF pc = 0 THEN "ret" ELSE Code[f][pc].op

EndsBlock(f, pc) == pc = Len(Code[f]) \/ pc + 1 \in Leader[f]

\* The value an operand reads: a constant register reads as its constant
\* wherever the register file happens to hold.
ReadReg(regs, r) == IF r \in DOMAIN ConstVal THEN ConstVal[r] ELSE regs[r]

\* Mutant: constant registers are written like any other.
WriteRegPlain(regs, r, v) == [regs EXCEPT ![r] = v]

\* Writing a constant register stores the constant back.
WriteReg(regs, r, v) ==
    [regs EXCEPT ![r] = IF r \in DOMAIN ConstVal THEN ConstVal[r] ELSE v]

============================================================================
