------------------------------ MODULE LiftCFG ------------------------------
(***************************************************************************)
(* One machine function lifted: its blocks are cloned, the branches are    *)
(* moved to the clones, and every machine block is filled with IR.         *)
(*                                                                         *)
(* IR is put in at two places that need not agree: at the insertion point  *)
(* of the block's builder, which a conditional branch moves to its         *)
(* if_false block, and at the end of the basic block that stands for the   *)
(* machine block, where operand_to_value loads the operands.               *)
(*                                                                         *)
(* An IR instruction is its kind, the machine instruction <<block, index>> *)
(* it belongs to, and the basic blocks it goes to.  What calls compute is  *)
(* in LiftedExec; here only the shape of the function matters.             *)
(***************************************************************************)
EXTENDS Integers, Sequences

CONSTANTS
    Functions,      \* machine functions: blocks [instrs, succs]
    FunctionsNop    \* --assume-function-nop

\* jalr and jr are calls to LLVM (RISC-V JALR), brind is not (AArch64 BR).
Op == {"plain", "cbr", "jmp", "call", "tail", "jalr", "jr", "brind", "ret"}

ASSUME FunctionAssumption ==
    /\ FunctionsNop \in BOOLEAN
    /\ \A mf \in Functions :
        /\ mf \in Seq([instrs : Seq([op : Op, ref : Nat]), succs : Seq(Nat)]) /\ mf # << >>
        /\ \A n \in DOMAIN mf :
            /\ \A k \in DOMAIN mf[n].instrs : mf[n].instrs[k].ref \in 0..Len(mf)
            /\ \A s \in DOMAIN mf[n].succs : mf[n].succs[s] \in DOMAIN mf

VARIABLES
    src,        \* the machine function
    dst,        \* its clone; operands and successors are in "src" or "dst"
    ir,         \* basic blocks; the first ones stand for the blocks of dst
    phase,      \* "clone", "retarget", "fill", "save", "erase", "done", "rejected"
    at,         \* the machine instruction next to lift
    ip          \* the basic block the builder inserts at

vars == <<src, dst, ir, phase, at, ip>>

In(f, n) == [func |-> f, block |-> n]
Item(kind, to) == [kind |-> kind, of |-> <<at.block, at.inst>>, to |-> to]

Init ==
    /\ src \in Functions
    /\ dst = << >>
    /\ ir = << >>
    /\ phase = "clone"
    /\ at = [block |-> 1, inst |-> 1]
    /\ ip = 1

-----------------------------------------------------------------------------
(* create_basic_blocks_for_mfunc *)

isBranch(i) == i.op \in {"cbr", "jmp", "brind"}
isConditionalBranch(i) == i.op = "cbr"
isUnconditionalBranch(i) == i.op \in {"jmp", "tail", "brind"}

\* A clone's branches to the block itself go to the clone at once, all others
\* still to the blocks of the source function.
clone_basic_block(n) ==
    [instrs |-> [k \in DOMAIN src[n].instrs |->
        LET i == src[n].instrs[k]
            self == isBranch(i) /\ i.ref = n
        IN  [op |-> i.op, ref |-> In(IF self THEN "dst" ELSE "src", i.ref)]],
     succs |-> [s \in DOMAIN src[n].succs |-> In("src", src[n].succs[s])]]

CloneBlock ==
    /\ phase = "clone"
    /\ dst' = Append(dst, clone_basic_block(at.block))
    /\ ir' = Append(ir, << >>)
    /\ IF at.block < Len(src)
       THEN at' = [at EXCEPT !.block = @ + 1] /\ UNCHANGED phase
       ELSE at' = [block |-> 1, inst |-> 1] /\ phase' = "retarget"
    /\ UNCHANGED <<src, ip>>

\* Mutant: operands are left to the source function.
replace_successors(mbb) ==
    [mbb EXCEPT !.succs = [s \in DOMAIN mbb.succs |-> In("dst", mbb.succs[s].block)]]

\* Only branches to successors are moved: the successor list is what the
\* blocks to replace are taken from.
replace_uses_of_blocks(mbb) ==
    LET Moved(ref) == IF \E s \in DOMAIN mbb.succs : mbb.succs[s] = ref
                      THEN In("dst", ref.block) ELSE ref
    IN  [instrs |-> [k \in DOMAIN mbb.instrs |->
                        [mbb.instrs[k] EXCEPT !.ref = Moved(@)]],
         succs |-> [s \in DOMAIN mbb.succs |-> In("dst", mbb.succs[s].block)]]

\* The prologue of materialize_registers comes with the last block.
RetargetBlock ==
    /\ phase = "retarget"
    /\ dst' = [dst EXCEPT ![at.block] = replace_uses_of_blocks(@)]
    /\ IF at.block < Len(dst)
       THEN at' = [at EXCEPT !.block = @ + 1] /\ UNCHANGED <<ir, phase>>
       ELSE /\ at' = [block |-> 1, inst |-> 1]
            /\ ir' = [ir EXCEPT ![1] =
                        <<[kind |-> "prologue", of |-> <<1, 0>>, to |-> << >>]>>]
            /\ phase' = "fill"
    /\ UNCHANGED <<src, ip>>

-----------------------------------------------------------------------------
(* fill_ir_for_bb, generate_instruction *)

MBB == dst[at.block]
Inst == MBB.instrs[at.inst]
Filling == phase = "fill" /\ at.inst <= Len(MBB.instrs)
HasMBB(i) == i.ref.block # 0
Known(ref) == ref.func = "dst"      \* in the domain of m2b

is_branch(i) == i.op \in {"cbr", "jmp"} /\ HasMBB(i)
is_return(i) == i.op = "ret"
is_call(i) == i.op \in {"call", "tail", "jalr", "jr"}
is_indirect_branch(i) == i.op \in {"jalr", "jr", "brind"}

\* Mutant: operands are loaded after they are used.
InsertLoadsLast(loads, code) ==
    LET coded == [ir EXCEPT ![ip] = @ \o code]
    IN  [coded EXCEPT ![at.block] = @ \o loads]

\* Operand loads go to the end of the machine block's basic block, the rest
\* to the end of the builder's block.
Insert(loads, code) ==
    LET loaded == [ir EXCEPT ![at.block] = @ \o loads]
    IN  [loaded EXCEPT ![ip] = @ \o code]
Advance == at' = [at EXCEPT !.inst = @ + 1]
Reject == phase' = "rejected" /\ UNCHANGED <<src, dst, ir, at, ip>>

\* What an unresolved branch becomes as well: a call nobody looks at.
GeneratePlain ==
    /\ Filling
    /\ ~is_return(Inst) /\ ~is_indirect_branch(Inst)
    /\ ~is_branch(Inst) /\ ~is_call(Inst)
    /\ ir' = Insert(<<Item("load", << >>)>>, <<Item("sem", << >>)>>)
    /\ Advance
    /\ UNCHANGED <<src, dst, phase, ip>>

GenerateReturn ==
    /\ Filling /\ is_return(Inst)
    /\ ir' = Insert(<< >>, <<Item("ret", << >>)>>)
    /\ Advance
    /\ UNCHANGED <<src, dst, phase, ip>>

\* Mutant: the branch after a conditional branch is lifted again.
GenerateJumpAlways ==
    /\ Filling /\ is_branch(Inst) /\ ~isConditionalBranch(Inst)
    /\ ir' = Insert(<< >>, <<Item("br", <<Inst.ref.block>>)>>)
    /\ Advance
    /\ UNCHANGED <<src, dst, phase, ip>>

\* The branch after a conditional branch has been lifted with it.
GenerateJump ==
    /\ Filling /\ is_branch(Inst) /\ ~isConditionalBranch(Inst)
    /\ IF at.inst > 1 /\ isConditionalBranch(MBB.instrs[at.inst - 1])
       THEN ir' = ir /\ Advance /\ UNCHANGED <<src, dst, phase, ip>>
       ELSE IF ~Known(Inst.ref) THEN Reject
       ELSE /\ ir' = Insert(<< >>, <<Item("br", <<Inst.ref.block>>)>>)
            /\ Advance
            /\ UNCHANGED <<src, dst, phase, ip>>

\* Mutant: the target of the conditional branch itself.
if_false_same ==
    IF at.inst < Len(MBB.instrs)
    THEN IF isUnconditionalBranch(MBB.instrs[at.inst + 1]) THEN Inst.ref
                                                            ELSE In("dst", Len(ir) + 1)
    ELSE In(IF at.block < Len(dst) THEN "dst" ELSE "end", at.block + 1)

\* get_if_false_block: the target of the branch that follows, a new block
\* for what follows, or the next block.
if_false_block ==
    IF at.inst < Len(MBB.instrs)
    THEN LET next == MBB.instrs[at.inst + 1]
         IN  IF isUnconditionalBranch(next) THEN next.ref
                                            ELSE In("dst", Len(ir) + 1)
    ELSE In(IF at.block < Len(dst) THEN "dst" ELSE "end", at.block + 1)

GenerateBranch ==
    /\ Filling /\ is_branch(Inst) /\ isConditionalBranch(Inst)
    /\ IF Known(Inst.ref) /\ Known(if_false_block)
       THEN /\ LET to == <<Inst.ref.block, if_false_block.block>>
                   lifted == Insert(<<Item("load", << >>)>>,
                                    <<Item("sem", << >>), Item("condbr", to)>>)
               IN  ir' = IF if_false_block.block > Len(ir)
                         THEN Append(lifted, << >>) ELSE lifted
            /\ ip' = if_false_block.block
            /\ Advance
            /\ UNCHANGED <<src, dst, phase>>
       ELSE Reject

\* Mutant: nothing is loaded after the transfer.
TransferStale(call, reload) == <<Item("save", << >>), call>>

\* The copies around a call.
Transfer(call, reload) ==
    <<Item("save", << >>), call>> \o (IF reload THEN <<Item("reload", << >>)>> ELSE << >>)

GenerateCall ==
    /\ Filling /\ is_call(Inst) /\ ~is_indirect_branch(Inst)
    /\ ir' = Insert(<< >>, Transfer(Item("xfer", << >>), ~FunctionsNop))
    /\ Advance
    /\ UNCHANGED <<src, dst, phase, ip>>

GenerateIndirectBranch ==
    /\ Filling /\ is_indirect_branch(Inst)
    /\ ir' = Insert(<<Item("load", << >>)>>,
                    <<Item("sem", << >>)>> \o Transfer(Item("musttail", << >>), TRUE))
    /\ Advance
    /\ UNCHANGED <<src, dst, phase, ip>>

\* Mutant: the block after the next one is branched to.
ClosingCodeSkips(last) ==
    IF is_branch(last) \/ is_return(last) THEN << >>
    ELSE IF is_call(last) THEN <<Item("ret", << >>)>>
    ELSE <<Item("br", <<at.block + 2>>)>>

\* After the last instruction: nothing after a branch or a return, `ret void' after
\* a call, otherwise a branch to the next block.
ClosingCode(last) ==
    IF is_branch(last) \/ is_return(last) THEN << >>
    ELSE IF is_call(last) THEN <<Item("ret", << >>)>>
    ELSE <<Item("br", <<at.block + 1>>)>>

\* assert(!mbb.empty()), and m2b throws at the end of the function.
FinishBlock ==
    /\ phase = "fill" /\ at.inst > Len(MBB.instrs)
    /\ LET last == MBB.instrs[Len(MBB.instrs)]
           FallsOff == /\ at.block = Len(dst)
                       /\ ~is_branch(last) /\ ~is_return(last) /\ ~is_call(last)
       IN  IF MBB.instrs = << >> \/ FallsOff
           THEN Reject
           ELSE /\ ir' = Insert(<< >>, ClosingCode(last))
                /\ at' = [block |-> at.block + 1, inst |-> 1]
                /\ ip' = at.block + 1
                /\ phase' = IF at.block = Len(dst) THEN "save" ELSE phase
                /\ UNCHANGED <<src, dst>>

-----------------------------------------------------------------------------
(* save_registers_before_return, redundant_branch_eraser *)

First(kind, bb) ==
    CHOOSE k \in DOMAIN bb : bb[k].kind = kind /\ \A j \in 1..(k - 1) : bb[j].kind # kind
Has(kind, bb) == \E k \in DOMAIN bb : bb[k].kind = kind

\* One copy for each basic block, before its first return.
SaveRegistersBeforeReturn ==
    /\ phase = "save"
    /\ ir' = [n \in DOMAIN ir |->
        IF ~Has("ret", ir[n]) THEN ir[n]
        ELSE LET k == First("ret", ir[n])
                 save == [kind |-> "save", of |-> ir[n][k].of, to |-> << >>]
             IN  SubSeq(ir[n], 1, k - 1) \o <<save>> \o SubSeq(ir[n], k, Len(ir[n]))]
    /\ phase' = "erase"
    /\ UNCHANGED <<src, dst, at, ip>>

\* What comes after the first conditional branch of a basic block goes.
EraseRedundantBranches ==
    /\ phase = "erase"
    /\ ir' = [n \in DOMAIN ir |->
                IF Has("condbr", ir[n]) THEN SubSeq(ir[n], 1, First("condbr", ir[n]))
                                        ELSE ir[n]]
    /\ phase' = "done"
    /\ UNCHANGED <<src, dst, at, ip>>

Next ==
    \/ CloneBlock \/ RetargetBlock
    \/ GeneratePlain \/ GenerateReturn \/ GenerateJump \/ GenerateBranch
    \/ GenerateCall \/ GenerateIndirectBranch \/ FinishBlock
    \/ SaveRegistersBeforeReturn \/ EraseRedundantBranches

Spec == Init /\ [][Next]_vars

-----------------------------------------------------------------------------
(* The functions that are lifted as they should be. *)

\* Jumps and returns end their block, branches go to successors or back to their
\* own block, a conditional branch is not followed by a branch that has no
\* block, and the last block does not fall through.
WellFormed(mf) ==
    /\ \A n \in DOMAIN mf :
        LET instrs == mf[n].instrs
        IN  /\ instrs # << >>
            /\ \A k \in DOMAIN instrs :
                /\ instrs[k].op \in {"jmp", "ret"} => k = Len(instrs)
                /\ instrs[k].op \in {"cbr", "jmp"} =>
                    instrs[k].ref = n \/ \E s \in DOMAIN mf[n].succs : mf[n].succs[s] = instrs[k].ref
                /\ instrs[k].op = "cbr" /\ k < Len(instrs) =>
                    instrs[k + 1].op \notin {"tail", "brind"}
    /\ LET last == mf[Len(mf)].instrs
       IN  last[Len(last)].op \in {"jmp", "ret", "call", "tail", "jalr", "jr"}

\* Nothing that loads an operand comes after a conditional branch of its block.
LoadsFirst(mf) ==
    \A n \in DOMAIN mf : \A k \in DOMAIN mf[n].instrs :
        (\E j \in 1..(k - 1) : mf[n].instrs[j].op = "cbr") =>
            mf[n].instrs[k].op \in {"call", "tail", "jmp", "ret"}

\* Tail calls end their block, and other calls do not: a call at the end of a block is
\* closed as a tail call is (run exec_call_ends_block).  Every indirect branch is a transfer.
TransfersLast(mf) ==
    \A n \in DOMAIN mf : \A k \in DOMAIN mf[n].instrs :
        /\ mf[n].instrs[k].op \in {"tail", "jr"} => k = Len(mf[n].instrs)
        /\ mf[n].instrs[k].op \in {"call", "jalr"} => k < Len(mf[n].instrs)
        /\ mf[n].instrs[k].op # "brind"

-----------------------------------------------------------------------------

ItemKind == {"prologue", "load", "sem", "br", "condbr", "ret", "save", "xfer",
             "musttail", "reload"}
IsTerminator(item) == item.kind \in {"br", "condbr", "ret"}

\* Type invariant; basic blocks are only branched to when they exist.
TypeOK ==
    /\ phase \in {"clone", "retarget", "fill", "save", "erase", "done", "rejected"}
    /\ Len(dst) <= Len(src) /\ Len(dst) <= Len(ir)
    /\ \A n \in DOMAIN ir : \A k \in DOMAIN ir[n] :
        /\ ir[n][k].kind \in ItemKind
        /\ ir[n][k].of \in (1..Len(src)) \X Nat
        /\ \A t \in DOMAIN ir[n][k].to : ir[n][k].to[t] \in DOMAIN ir
    /\ at \in [block : 1..(Len(src) + 1), inst : Nat \ {0}]
    /\ ip \in 1..(Len(ir) + 1)

\* The verifier's rule for basic blocks: one terminator, the last instruction.
\* In between the lifter may break it, when it is done it may not.
BlocksTerminated ==
    phase = "done" => \A n \in DOMAIN ir :
        /\ ir[n] # << >>
        /\ \A k \in DOMAIN ir[n] : IsTerminator(ir[n][k]) <=> k = Len(ir[n])

\* Every instruction that takes operands has them loaded before it, in its basic
\* block: the two insertion points agreed, and no load was erased.
OperandsLoaded ==
    phase = "done" => \A n \in DOMAIN ir : \A k \in DOMAIN ir[n] :
        ir[n][k].kind = "sem" =>
            \E j \in 1..(k - 1) : ir[n][j].kind = "load" /\ ir[n][j].of = ir[n][k].of

\* The registers are stored to the state before every transfer and every return, with
\* nothing in between, and loaded after every transfer unless functions are
\* assumed to do nothing.
RegistersAroundTransfers ==
    phase = "done" => \A n \in DOMAIN ir : \A k \in DOMAIN ir[n] :
        /\ ir[n][k].kind \in {"xfer", "musttail", "ret"} =>
            k > 1 /\ ir[n][k - 1].kind = "save"
        /\ ir[n][k].kind = "musttail" \/ (ir[n][k].kind = "xfer" /\ ~FunctionsNop) =>
            k < Len(ir[n]) /\ ir[n][k + 1].kind = "reload"

\* Control flow of the machine function: where it goes after instruction k of
\* block n.  A jump is taken together with the conditional branch before it.
MIRNext(n, k) ==
    LET instrs == src[n].instrs
        After == IF k = Len(instrs) THEN {<<n + 1, 1>>}
                 ELSE IF instrs[k].op = "cbr" /\ instrs[k + 1].op = "jmp"
                      THEN {<<instrs[k + 1].ref, 1>>} ELSE {<<n, k + 1>>}
    IN  (IF instrs[k].op \in {"cbr", "jmp"} THEN {<<instrs[k].ref, 1>>} ELSE {})
        \cup (IF instrs[k].op \in {"plain", "cbr", "call", "jalr"} THEN After ELSE {})

\* Control flow of the IR: the machine instructions whose code runs next after the
\* code of one.  The code that closes a block belongs to none.
Starts(b) == IF b <= Len(src) THEN <<b, 1>> ELSE ir[b][1].of
Targets(item) == {Starts(item.to[t]) : t \in DOMAIN item.to}
Closing(item) == item.of[2] > Len(src[item.of[1]].instrs)
IRNext(n, k) ==
    LET Code == {c \in UNION {{b} \X DOMAIN ir[b] : b \in DOMAIN ir} :
                    /\ ir[c[1]][c[2]].of = <<n, k>> /\ ir[c[1]][c[2]].kind # "load"}
        final == CHOOSE c \in Code : \A d \in Code : d[1] = c[1] => d[2] <= c[2]
        item == ir[final[1]][final[2]]
        next == ir[final[1]][final[2] + 1]
    IN  IF IsTerminator(item) THEN Targets(item)
        ELSE IF Closing(next) THEN Targets(next) ELSE {next.of}

\* The IR goes where the machine function goes: through the if_false blocks, the
\* blocks that fall through and the branches moved to the clones.
FlowKept ==
    phase = "done" => \A n \in DOMAIN src : \A k \in DOMAIN src[n].instrs :
        LET absorbed == /\ k > 1 /\ src[n].instrs[k].op = "jmp"
                        /\ src[n].instrs[k - 1].op = "cbr"
        IN  ~absorbed => IRNext(n, k) = MIRNext(n, k)

\* A function that lists its successors, and whose last block ends in a jump or
\* a return, is not rejected: every branch operand names a clone by the time it
\* is lifted.
NeverRejects == phase # "rejected"

=============================================================================
