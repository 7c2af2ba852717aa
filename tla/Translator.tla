----------------------------- MODULE Translator -----------------------------
(***************************************************************************)
(* mctomir: from the text section of an object file to MIR functions.      *)
(*                                                                         *)
(* The translator sorts the function symbols by address, disassembles each *)
(* function linearly, cuts it into basic blocks at branch targets and      *)
(* after branches, makes a machine basic block (MBB) for each, and then    *)
(* translates the instructions one by one, turning branch displacements    *)
(* into MBB operands and calls into references to functions.  Targets are  *)
(* looked up in one table for all functions, address_to_mbb.               *)
(*                                                                         *)
(* The disassembler and the instruction analysis are LLVM's: an address    *)
(* either decodes to an instruction of some kind or it does not.           *)
(***************************************************************************)
EXTENDS Integers, Sequences, FiniteSets

CONSTANTS
    Images      \* object files: [text, symbols]

Kind == {"plain", "cbr", "jmp", "call", "jr", "jalr", "ret"}

Addrs(img) == DOMAIN img.text

IsInstr(i) ==
    /\ i.kind \in Kind
    /\ i.size \in Nat \ {0}
    /\ i.target \in Int

IsSymbol(s) ==
    /\ s.start \in Nat /\ s.size \in Nat
    /\ s.type \in {"function", "unknown", "data"}

ASSUME ImageAssumption ==
    \A img \in Images :
        /\ Addrs(img) \subseteq Nat
        /\ \A a \in Addrs(img) : IsInstr(img.text[a])
        /\ IsFiniteSet(img.symbols)
        /\ \A s \in img.symbols : IsSymbol(s)

\* MCInstrAnalysis, by kind of instruction.
isBranch(i) == i.kind \in {"cbr", "jmp", "jr"}
isUnconditionalBranch(i) == i.kind \in {"jmp", "jr"}
isCall(i) == i.kind \in {"call", "jalr"}
isReturn(i) == i.kind = "ret"

\* evaluateBranch knows the targets of direct transfers.  The translator passes 0
\* or 4 as the size of the instruction, whatever it is; displacements count
\* from the start of the instruction here, so that the size does not matter.
HasTarget(i) == i.kind \in {"cbr", "jmp", "call"}
evaluateBranch(i) == i.target

VARIABLES
    image,          \* the object file
    phase,          \* the step of the conversion
    funcs,          \* translated functions: bounds, instructions, blocks
    mfunc,          \* their machine functions: sequences of MBBs
    address_to_mbb, \* address |-> <<function, MBB>>
    at,             \* loop counters: function, block and instruction
    pc              \* address the disassembler is at

vars == <<image, phase, funcs, mfunc, address_to_mbb, at, pc>>

Func == funcs[at.fn]
Block == Func.blocks[at.block]
MBB == mfunc[at.fn][at.block]
Text(a) == image.text[a]
Enter(next) == phase' = next /\ at' = [fn |-> 1, block |-> 1, inst |-> 1]

Init ==
    /\ image \in Images
    /\ phase = "symbols"
    /\ funcs = << >>
    /\ mfunc = << >>
    /\ address_to_mbb = [a \in {} |-> a]
    /\ at = [fn |-> 1, block |-> 1, inst |-> 1]
    /\ pc = 0

-----------------------------------------------------------------------------
(* process_disassembly *)

\* Named function symbols and symbols of unknown type, of every section.
Functions(img) == {s \in img.symbols : s.type \in {"function", "unknown"} /\ s.named}

\* The sort is by address alone: functions at one address come in any order.
CollectSymbols ==
    /\ phase = "symbols"
    /\ \E order \in [1..Cardinality(Functions(image)) -> Functions(image)] :
        /\ Functions(image) = {order[i] : i \in DOMAIN order}
        /\ \A i, j \in DOMAIN order : i < j => order[i].start <= order[j].start
        /\ funcs' = [i \in DOMAIN order |->
                        [start |-> order[i].start,
                         end |-> order[i].start + order[i].size,
                         insts |-> << >>, blocks |-> << >>]]
        /\ pc' = IF DOMAIN order = {} THEN 0 ELSE order[1].start
    /\ mfunc' = [i \in 1..Cardinality(Functions(image)) |-> << >>]
    /\ Enter("decode")
    /\ UNCHANGED <<image, address_to_mbb>>

Decoding == phase = "decode" /\ at.fn <= Len(funcs)

DecodeInstruction ==
    /\ Decoding /\ pc < Func.end
    /\ pc \in Addrs(image)
    /\ funcs' = [funcs EXCEPT ![at.fn].insts = Append(@, pc)]
    /\ pc' = pc + Text(pc).size
    /\ UNCHANGED <<image, phase, mfunc, address_to_mbb, at>>

\* Mutant: the illegal byte is recorded as an instruction.
RecordIllegalByte ==
    /\ Decoding /\ pc < Func.end
    /\ pc \notin Addrs(image)
    /\ funcs' = [funcs EXCEPT ![at.fn].insts = Append(@, pc)]
    /\ pc' = pc + 1
    /\ UNCHANGED <<image, phase, mfunc, address_to_mbb, at>>

\* Mutant: the disassembler stays where it failed.
StickAtIllegalByte ==
    /\ Decoding /\ pc < Func.end
    /\ pc \notin Addrs(image)
    /\ UNCHANGED vars

SkipIllegalByte ==
    /\ Decoding /\ pc < Func.end
    /\ pc \notin Addrs(image)
    /\ pc' = pc + 1
    /\ UNCHANGED <<image, phase, funcs, mfunc, address_to_mbb, at>>

FinishFunction ==
    /\ Decoding /\ pc >= Func.end
    /\ at' = [at EXCEPT !.fn = @ + 1]
    /\ pc' = IF at.fn < Len(funcs) THEN funcs[at.fn + 1].start ELSE 0
    /\ UNCHANGED <<image, phase, funcs, mfunc, address_to_mbb>>

-----------------------------------------------------------------------------
(* identify_basic_blocks, create_machine_basic_blocks *)

\* Mutant: the instruction after a branch does not begin a block.
LeadersTargets(text, insts) ==
    {insts[k] : k \in {1} \cap DOMAIN insts}
    \cup {evaluateBranch(text[i]) : i \in {insts[k] : k \in
            {b \in DOMAIN insts : isBranch(text[insts[b]]) /\ HasTarget(text[insts[b]])}}}

\* Addresses at which a block of a function begins.  The set is made anew for
\* each function, from the branches of that function alone.
Leaders(text, insts) ==
    LET Branches == {k \in DOMAIN insts : isBranch(text[insts[k]])}
        Ends == {k \in DOMAIN insts : isReturn(text[insts[k]])} \cup Branches
    IN  {insts[k] : k \in {1} \cap DOMAIN insts}
        \cup {evaluateBranch(text[insts[k]]) :
                k \in {b \in Branches : HasTarget(text[insts[b]])}}
        \cup {insts[k + 1] : k \in {e \in Ends : e < Len(insts)}}

\* The instructions, cut before every leader.
Firsts(text, insts) == {k \in DOMAIN insts : insts[k] \in Leaders(text, insts)}
First(text, insts, n) ==
    CHOOSE k \in Firsts(text, insts) : Cardinality({j \in Firsts(text, insts) : j <= k}) = n
Cut(text, insts) ==
    LET count == Cardinality(Firsts(text, insts))
        EndOf(n) == IF n = count THEN Len(insts) ELSE First(text, insts, n + 1) - 1
    IN  [n \in 1..count |-> SubSeq(insts, First(text, insts, n), EndOf(n))]

IdentifyBasicBlocks ==
    /\ phase = "identify" /\ at.fn <= Len(funcs)
    /\ IF Func.insts # << >> /\ Func.insts[1] \notin Leaders(image.text, Func.insts)
       THEN phase' = "error" /\ UNCHANGED <<funcs, at>>
       ELSE /\ funcs' = [funcs EXCEPT ![at.fn].blocks = Cut(image.text, Func.insts)]
            /\ at' = [at EXCEPT !.fn = @ + 1]
            /\ UNCHANGED phase
    /\ UNCHANGED <<image, mfunc, address_to_mbb, pc>>

\* A later function takes over the addresses it shares with an earlier one.
CreateMachineBasicBlocks ==
    /\ phase = "create" /\ at.fn <= Len(funcs)
    /\ mfunc' = [mfunc EXCEPT ![at.fn] =
                    [n \in DOMAIN Func.blocks |-> [instrs |-> << >>, succs |-> << >>]]]
    /\ LET Starts == {Func.blocks[n][1] : n \in DOMAIN Func.blocks}
           Number(a) == CHOOSE n \in DOMAIN Func.blocks : Func.blocks[n][1] = a
       IN  address_to_mbb' = [a \in Starts \cup DOMAIN address_to_mbb |->
                IF a \in Starts THEN <<at.fn, Number(a)>> ELSE address_to_mbb[a]]
    /\ at' = [at EXCEPT !.fn = @ + 1]
    /\ UNCHANGED <<image, phase, funcs, pc>>

-----------------------------------------------------------------------------
(* translate_instructions, create_machine_instr *)

Translating ==
    /\ phase = "translate" /\ at.fn <= Len(funcs)
    /\ at.block <= Len(Func.blocks) /\ at.inst <= Len(Block)

Inst == Text(Block[at.inst])
NoRef == << >>

\* The targets of direct transfers; targets no block begins at are not found.
Target == evaluateBranch(Inst)
TargetFound == HasTarget(Inst) /\ Target \in DOMAIN address_to_mbb
TargetMBB == address_to_mbb[Target]

\* Mutant: jumps inside the function are tail calls.
is_tail_call_always(i, fn, target) == isUnconditionalBranch(i)

\* An unconditional branch to another function is a tail call.
is_tail_call(i, fn, target) == isUnconditionalBranch(i) /\ target[1] # fn
is_call(i, fn, target) == isCall(i) \/ is_tail_call(i, fn, target)

\* ref is the operand: <<function>>, <<function, MBB>> or none.
Emit(op, ref, succs) ==
    /\ mfunc' = [mfunc EXCEPT
                    ![at.fn][at.block].instrs = Append(@, [op |-> op, ref |-> ref]),
                    ![at.fn][at.block].succs = @ \o succs]
    /\ at' = [at EXCEPT !.inst = @ + 1]
    /\ UNCHANGED <<image, phase, funcs, address_to_mbb, pc>>

\* G_BR to the function the target's block belongs to.
TranslateTailCall ==
    /\ Translating /\ TargetFound
    /\ is_tail_call(Inst, at.fn, TargetMBB)
    /\ Emit("tail", <<TargetMBB[1]>>, << >>)

TranslateCall ==
    /\ Translating /\ TargetFound
    /\ is_call(Inst, at.fn, TargetMBB)
    /\ ~is_tail_call(Inst, at.fn, TargetMBB)
    /\ Emit(Inst.kind, <<TargetMBB[1]>>, << >>)

TranslateBranch ==
    /\ Translating /\ TargetFound
    /\ ~is_call(Inst, at.fn, TargetMBB)
    /\ Emit(Inst.kind, TargetMBB, <<TargetMBB>>)

\* Everything else, and branches whose target is not found (a warning).
TranslateOther ==
    /\ Translating /\ ~TargetFound
    /\ Emit(Inst.kind, NoRef, << >>)

\* The loops over functions, blocks and instructions.
NextBlock ==
    /\ phase = "translate" /\ at.fn <= Len(funcs)
    /\ at' = IF at.block > Len(Func.blocks)
             THEN [fn |-> at.fn + 1, block |-> 1, inst |-> 1]
             ELSE [at EXCEPT !.block = @ + 1, !.inst = 1]
    /\ at.block <= Len(Func.blocks) => at.inst > Len(Block)
    /\ UNCHANGED <<image, phase, funcs, mfunc, address_to_mbb, pc>>

-----------------------------------------------------------------------------
(* link_machine_basic_blocks *)

Linking ==
    /\ phase = "link" /\ at.fn <= Len(funcs)
    /\ at.block <= Len(Func.blocks)

LastInst == Text(Block[Len(Block)])
LinkTarget == evaluateBranch(LastInst)
EmptyMBB == [instrs |-> << >>, succs |-> << >>]
HasNext == at.block + 1 <= Len(Func.blocks)
NextMBB == <<at.fn, at.block + 1>>
Linked == at' = [at EXCEPT !.block = @ + 1]

\* The machine functions with `next' added to the successors of the block.
WithSuccessor(next) == [mfunc EXCEPT ![at.fn][at.block].succs = Append(@, next)]

\* Mutant: the table is not looked up.
create_mbb_for_address(mf) ==
    /\ mfunc' = IF HasTarget(LastInst) THEN [mf EXCEPT ![at.fn] = Append(@, EmptyMBB)] ELSE mf
    /\ UNCHANGED address_to_mbb

\* get_or_create_mbb_for_address: an empty MBB at the end of the function, for
\* a target that none begins at.
get_or_create_mbb_for_address(mf) ==
    IF HasTarget(LastInst) /\ LinkTarget \notin DOMAIN address_to_mbb
    THEN /\ mfunc' = [mf EXCEPT ![at.fn] = Append(@, EmptyMBB)]
         /\ address_to_mbb' = [a \in {LinkTarget} \cup DOMAIN address_to_mbb |->
                IF a = LinkTarget THEN <<at.fn, Len(mf[at.fn]) + 1>>
                                  ELSE address_to_mbb[a]]
    ELSE mfunc' = mf /\ UNCHANGED address_to_mbb

\* Mutant: the next block is added without looking for it.
LinkBranchTwice ==
    /\ Linking /\ isBranch(LastInst)
    /\ get_or_create_mbb_for_address(
            IF ~isUnconditionalBranch(LastInst) /\ HasNext
            THEN WithSuccessor(NextMBB) ELSE mfunc)
    /\ Linked
    /\ UNCHANGED <<image, phase, funcs, pc>>

LinkBranch ==
    /\ Linking /\ isBranch(LastInst)
    /\ get_or_create_mbb_for_address(
            IF /\ ~isUnconditionalBranch(LastInst) /\ HasNext
               /\ \A k \in DOMAIN MBB.succs : MBB.succs[k] # NextMBB
            THEN WithSuccessor(NextMBB) ELSE mfunc)
    /\ Linked
    /\ UNCHANGED <<image, phase, funcs, pc>>

LinkReturn ==
    /\ Linking /\ isReturn(LastInst)
    /\ Linked
    /\ UNCHANGED <<image, phase, funcs, mfunc, address_to_mbb, pc>>

LinkFallThrough ==
    /\ Linking /\ ~isBranch(LastInst) /\ ~isReturn(LastInst)
    /\ mfunc' = IF HasNext THEN WithSuccessor(NextMBB) ELSE mfunc
    /\ Linked
    /\ UNCHANGED <<image, phase, funcs, address_to_mbb, pc>>

FinishLinking ==
    /\ phase = "link" /\ at.fn <= Len(funcs) /\ at.block > Len(Func.blocks)
    /\ at' = [fn |-> at.fn + 1, block |-> 1, inst |-> 1]
    /\ UNCHANGED <<image, phase, funcs, mfunc, address_to_mbb, pc>>

-----------------------------------------------------------------------------
(* convert_section, finalize *)

Following == [decode |-> "identify", identify |-> "create",
              create |-> "translate", translate |-> "link", link |-> "done"]

NextPhase ==
    /\ phase \in DOMAIN Following /\ at.fn > Len(funcs)
    /\ Enter(Following[phase])
    /\ UNCHANGED <<image, funcs, mfunc, address_to_mbb, pc>>

Next ==
    \/ CollectSymbols
    \/ DecodeInstruction \/ SkipIllegalByte \/ FinishFunction
    \/ IdentifyBasicBlocks \/ CreateMachineBasicBlocks
    \/ TranslateTailCall \/ TranslateCall \/ TranslateBranch \/ TranslateOther
    \/ NextBlock
    \/ LinkBranch \/ LinkReturn \/ LinkFallThrough \/ FinishLinking
    \/ NextPhase

\* A sequential program: it runs to the end unless it is killed.
Spec == Init /\ [][Next]_vars /\ WF_vars(Next)

-----------------------------------------------------------------------------
(* The programs for which the translation is exact. *)

\* The addresses a linear sweep over function f decodes: those in every set of
\* its addresses that is closed under going on to the next instruction.
NextAddress(img, a) == a + (IF a \in Addrs(img) THEN img.text[a].size ELSE 1)
Sweeps(img, f) ==
    LET end == f.start + f.size
    IN  {S \in SUBSET (f.start..(end - 1)) :
            /\ f.start \in S
            /\ \A a \in S : NextAddress(img, a) < end => NextAddress(img, a) \in S}
Body(img, f) ==
    {a \in f.start..(f.start + f.size - 1) :
        a \in Addrs(img) /\ \A S \in Sweeps(img, f) : a \in S}

\* Where control goes after the instruction at a, calls returned.
MachineFlow(img, a) ==
    LET i == img.text[a]
    IN  {i.target : t \in {"cbr", "jmp"} \cap {i.kind}}
        \cup {a + i.size : t \in {"cbr", "plain", "call", "jalr"} \cap {i.kind}}

\* The bodies of functions are apart (a label without a size has none),
\* control moves inside them from instruction to instruction, and only calls and
\* jumps leave, to the first instruction of a function.
Structured(img) ==
    LET F == Functions(img)
        body == [f \in F |-> Body(img, f)]
        Entries == {f.start : f \in {g \in F : g.start \in body[g]}}
    IN  \A f \in F :
            /\ \A g \in F \ {f} : body[f] \cap body[g] = {}
            /\ \A a \in body[f] :
                LET i == img.text[a]
                    Leaving == IF i.kind = "jmp" THEN Entries ELSE {}
                IN  /\ MachineFlow(img, a) \subseteq body[f] \cup Leaving
                    /\ i.kind = "call" => i.target \in Entries

-----------------------------------------------------------------------------

FunctionIndex == DOMAIN funcs
BlockIndex(f) == DOMAIN mfunc[f]

\* Type invariant; instructions and blocks are named by addresses, and the
\* table of blocks names MBBs that exist.
TypeOK ==
    /\ phase \in DOMAIN Following \cup {"symbols", "done", "error"}
    /\ \A f \in FunctionIndex :
        /\ funcs[f].insts \in Seq(Addrs(image))
        /\ funcs[f].blocks \in Seq(Seq(Addrs(image)))
    /\ DOMAIN mfunc = FunctionIndex
    /\ \A a \in DOMAIN address_to_mbb :
        LET b == address_to_mbb[a]
        IN  b[1] \in FunctionIndex /\ b[2] \in BlockIndex(b[1])
    /\ at \in [fn : Nat \ {0}, block : Nat \ {0}, inst : Nat \ {0}]
    /\ pc \in Nat

\* The instructions in the blocks of f before block n.
Before(f, n) ==
    {p \in (1..n) \X DOMAIN funcs[f].insts :
        p[1] < n /\ p[2] \in DOMAIN funcs[f].blocks[p[1]]}

\* The blocks of a function are its instructions in order, none lost or twice,
\* none empty; a branch or a return ends its block, and no branch of the
\* function goes to an instruction in the middle of a block.
BlocksPartition ==
    phase \in {"create", "translate", "link", "done"} =>
        \A f \in FunctionIndex :
            LET blocks == funcs[f].blocks
                insts == funcs[f].insts
                Branches(k) == isBranch(Text(insts[k])) /\ HasTarget(Text(insts[k]))
            IN  /\ Cardinality(Before(f, Len(blocks) + 1)) = Len(insts)
                /\ \A n \in DOMAIN blocks :
                    /\ blocks[n] # << >>
                    /\ \A k \in DOMAIN blocks[n] :
                        /\ blocks[n][k] = insts[Cardinality(Before(f, n)) + k]
                        /\ k < Len(blocks[n]) =>
                            LET i == Text(blocks[n][k])
                            IN  ~(isBranch(i) \/ isReturn(i))
                        /\ k > 1 => \A j \in DOMAIN insts :
                            Branches(j) => Text(insts[j]).target # blocks[n][k]

\* The lifter takes the address of an instruction from the translator's tables, by
\* position (`at' throws): every MBB has a block, and every machine instruction
\* of it a decoded one.
AddressesAgree ==
    phase = "done" => \A f \in FunctionIndex :
        /\ Len(mfunc[f]) = Len(funcs[f].blocks)
        /\ \A b \in BlockIndex(f) : Len(mfunc[f][b].instrs) = Len(funcs[f].blocks[b])

\* The assertion at the head of fill_ir_for_bb.
NoEmptyBlock ==
    phase = "done" =>
        \A f \in FunctionIndex : \A b \in BlockIndex(f) : mfunc[f][b].instrs # << >>

\* Where the MIR goes after instruction k of block b of function f, and the entry of
\* a function it names, as addresses of the machine program.
EntryOf(ref) ==
    IF Len(ref) = 1 THEN {funcs[ref[1]].blocks[1][1]}
    ELSE IF Len(ref) = 2 THEN {funcs[ref[1]].blocks[ref[2]][1]} ELSE {}
FallThrough(f, b, k) ==
    IF k < Len(funcs[f].blocks[b]) THEN {funcs[f].blocks[b][k + 1]}
    ELSE IF b < Len(funcs[f].blocks) THEN {funcs[f].blocks[b + 1][1]} ELSE {}
MIRFlow(f, b, k) ==
    LET i == mfunc[f][b].instrs[k]
    IN  (IF i.op \in {"cbr", "jmp", "tail"} THEN EntryOf(i.ref) ELSE {})
        \cup (IF i.op \in {"cbr", "plain", "call", "jalr"} THEN FallThrough(f, b, k) ELSE {})

\* Every machine instruction goes where the instruction it was made from goes, and
\* calls the function it calls: by its operands, by the layout of the blocks,
\* and through the entry of the function a tail call names.
FlowKept ==
    phase = "done" =>
        \A f \in FunctionIndex : \A b \in DOMAIN funcs[f].blocks :
            \A k \in DOMAIN funcs[f].blocks[b] :
                LET a == funcs[f].blocks[b][k]
                IN  /\ MIRFlow(f, b, k) = MachineFlow(image, a)
                    /\ Text(a).kind = "call" =>
                        EntryOf(mfunc[f][b].instrs[k].ref) = {Text(a).target}

\* The successor list of an MBB holds the blocks of its function that its
\* last instruction goes to, each once.
SuccessorsMatch ==
    phase = "done" =>
        \A f \in FunctionIndex : \A b \in BlockIndex(f) :
            LET succs == mfunc[f][b].succs
                block == funcs[f].blocks[b]
                Flow == MachineFlow(image, block[Len(block)])
            IN  /\ {succs[k] : k \in DOMAIN succs} =
                    {<<f, n>> : n \in {m \in DOMAIN funcs[f].blocks :
                                         funcs[f].blocks[m][1] \in Flow}}
                /\ \A j, k \in DOMAIN succs : succs[j] = succs[k] => j = k

\* The conversion ends, whatever the bytes are, and never with "Failed to
\* create basic block".
Converts == <>(phase = "done")

=============================================================================
