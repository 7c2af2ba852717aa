----------------------------- MODULE StackLift -----------------------------
(***************************************************************************)
(* The inline stack: how the lifter decides which instructions use the     *)
(* stack of the machine program, and what it makes of them.                *)
(*                                                                         *)
(* The stack of a lifted program is an array of register-sized elements in *)
(* the state struct.  The stack pointer becomes an index into it: it       *)
(* starts at the host's value and grows when the machine's shrinks.  While *)
(* it lifts a function the lifter tracks which registers hold stack        *)
(* addresses; loads and stores that use one become accesses to the array,  *)
(* arithmetic on one is scaled, and everything else is left alone.         *)
(*                                                                         *)
(* The program is lifted first, function by function, then the lifted and  *)
(* the machine program are run side by side.  Registers pass between       *)
(* functions as LiftedExec shows, so there is one file of each here.       *)
(***************************************************************************)
EXTENDS Integers, Sequences

CONSTANTS
    Reg,        \* registers; "sp" is the stack pointer of the YAML
    Programs,   \* programs: function |-> instructions
    Main,       \* the function the host calls
    RegBytes,   \* size of a register of the stack pointer's class
    StackBytes  \* --stack-size

\* addi dst, src, imm; gen dst (any result of its own); ld dst, imm(src);
\* sd src2, imm(src); beqz src, to; call callee; ret
Op == {"addi", "gen", "ld", "sd", "cbr", "call", "ret"}
Instr(fns) ==
    [op : Op, dst : Reg, src : Reg, src2 : Reg, imm : Int, callee : fns, to : Nat]

ASSUME StackAssumption ==
    /\ "sp" \in Reg
    /\ RegBytes \in Nat \ {0} /\ StackBytes \in Nat
    /\ \A p \in Programs :
        /\ Main \in DOMAIN p
        /\ \A f \in DOMAIN p :
            /\ p[f] \in Seq(Instr(DOMAIN p)) /\ p[f] # << >>
            /\ p[f][Len(p[f])].op = "ret"
            /\ \A k \in DOMAIN p[f] : p[f][k].to \in DOMAIN p[f]

VARIABLES
    prog,       \* the machine program
    code,       \* the lifted program: function |-> how each instruction was lifted
    sptrack,    \* registers that hold stack addresses where the lifter is
    machine,    \* registers and memory of the machine program
    lifted,     \* registers, inline stack and memory of the lifted program
    calls,      \* positions to continue at; the last is the running one
    phase       \* "lift", "run", "done" or "error"

vars == <<prog, code, sptrack, machine, lifted, calls, phase>>

\* A stack address is the distance below the address the stack starts at; in the
\* lifted program it is an index.  All other values are data.
Data(n) == [kind |-> "data", n |-> n]
Stack(n) == [kind |-> "stack", n |-> n]
Plus(v, n) == [v EXCEPT !.n = IF v.kind = "stack" THEN @ - n ELSE @ + n]
Add(v, n) == [v EXCEPT !.n = @ + n]

Empty == [a \in {} |-> a]
Read(mem, a) == IF a \in DOMAIN mem THEN mem[a] ELSE Data(0)
Write(mem, a, v) == [b \in {a} \cup DOMAIN mem |-> IF b = a THEN v ELSE mem[b]]

\* C++ division rounds to zero.
Quotient(n, d) == IF n >= 0 THEN n \div d ELSE -((-n) \div d)

InitialRegs == [r \in Reg |-> IF r = "sp" THEN Stack(0) ELSE Data(0)]

Init ==
    /\ prog \in Programs
    /\ code = [f \in DOMAIN prog |-> << >>]
    /\ sptrack = {"sp"}
    /\ machine = [regs |-> InitialRegs, mem |-> Empty]
    /\ lifted = [regs |-> InitialRegs, stack |-> Empty, mem |-> Empty]
    /\ calls = << >>
    /\ phase = "lift"

-----------------------------------------------------------------------------
(* generate_instruction, for one instruction of one function *)

Uses(i) == IF i.op \in {"addi", "ld", "cbr"} THEN {i.src}
           ELSE IF i.op = "sd" THEN {i.src, i.src2} ELSE {}
Defs(i) == IF i.op \in {"addi", "gen", "ld"} THEN {i.dst} ELSE {}

Manipulates(i, tracked) == i.op \in {"ld", "sd"} /\ Uses(i) \cap tracked # {}
Modifies(i, tracked) ==
    ~Manipulates(i, tracked) /\ Defs(i) # {} /\ Uses(i) \cap tracked # {}

is_stack_manipulation(i) == Manipulates(i, sptrack)
is_sp_modification(i) == Modifies(i, sptrack)

\* Functions are lifted one after the other, each in the layout order of
\* its blocks, and each with a tracker of its own.
Lifting(f) ==
    /\ phase = "lift"
    /\ Len(code[f]) < Len(prog[f])
    /\ \A g \in DOMAIN prog \ {f} : Len(code[g]) \in {0, Len(prog[g])}
Inst(f) == prog[f][Len(code[f]) + 1]
Generate(f, how) ==
    /\ code' = [code EXCEPT ![f] = Append(@, how)]
    /\ UNCHANGED <<prog, machine, lifted, calls, phase>>

\* Mutant: the register keeps the stack address the lifter thinks it has.
KeepsTracking(r) == sptrack

\* The tracker after an ordinary instruction that writes register r.
Forget(r) == sptrack \ {r}

\* Mutant: the tracker of the next function starts empty.
TrackNothing(f, next) ==
    sptrack' = IF Len(code[f]) + 1 = Len(prog[f]) THEN {} ELSE next

Track(f, next) ==
    sptrack' = IF Len(code[f]) + 1 = Len(prog[f]) THEN {"sp"} ELSE next

\* A load does not untrack the register it loads.
LiftStackManipulation(f) ==
    /\ Lifting(f) /\ is_stack_manipulation(Inst(f))
    /\ Generate(f, "stack")
    /\ Track(f, sptrack)

LiftStackPointerModification(f) ==
    /\ Lifting(f) /\ is_sp_modification(Inst(f))
    /\ Generate(f, "scaled")
    /\ Track(f, {Inst(f).dst} \cup sptrack)

LiftOther(f) ==
    /\ Lifting(f)
    /\ ~is_stack_manipulation(Inst(f)) /\ ~is_sp_modification(Inst(f))
    /\ Generate(f, "plain")
    /\ Track(f, IF Defs(Inst(f)) = {} THEN sptrack ELSE Forget(Inst(f).dst))

\* The host calls the lifted function with a zeroed struct.
HostCall ==
    /\ phase = "lift"
    /\ \A f \in DOMAIN prog : Len(code[f]) = Len(prog[f])
    /\ calls' = <<[fn |-> Main, pc |-> 1]>>
    /\ phase' = "run"
    /\ UNCHANGED <<prog, code, sptrack, machine, lifted>>

-----------------------------------------------------------------------------
(* The two programs, instruction by instruction *)

Top == calls[Len(calls)]
Here == prog[Top.fn][Top.pc]
How == code[Top.fn][Top.pc]
At(op, how) == phase = "run" /\ Here.op = op /\ How = how
Goto(pc) == calls' = [calls EXCEPT ![Len(calls)] = [fn |-> Top.fn, pc |-> pc]]
Step == Goto(Top.pc + 1) /\ UNCHANGED <<prog, code, sptrack, phase>>

MachineReg == machine.regs[Here.src]
MachineAddress == Plus(MachineReg, Here.imm)
MachineLoads(v) == machine' = [machine EXCEPT !.regs[Here.dst] = v]
LiftedLoads(v) == lifted' = [lifted EXCEPT !.regs[Here.dst] = v]

\* Mutant: the offset is not turned around.
StackIndexUpwards == lifted.regs["sp"].n + Quotient(Here.imm, RegBytes)

\* Whatever register the address is in, the index is taken from the stack pointer.
StackIndex == lifted.regs["sp"].n + Quotient(-Here.imm, RegBytes)

\* Stack pointers count elements of eight bytes.
Scaled == lifted.regs[Here.src].n + Quotient(-Here.imm, 8)

\* Mutant: the array is one element short.
InStackShort(n) == n \in 0..(StackBytes \div RegBytes - 2)

\* The array has StackBytes; an index outside of it is not noticed by the
\* lifted program, and what it does then is undefined.
InStack(n) == n \in 0..(StackBytes \div RegBytes - 1)
Overflow == phase' = "error" /\ UNCHANGED <<prog, code, sptrack, machine, lifted, calls>>

StackLoad ==
    /\ At("ld", "stack") /\ InStack(StackIndex)
    /\ MachineLoads(Read(machine.mem, MachineAddress))
    /\ LiftedLoads(Read(lifted.stack, StackIndex))
    /\ Step

StackStore ==
    /\ At("sd", "stack") /\ InStack(StackIndex)
    /\ machine' = [machine EXCEPT
            !.mem = Write(@, MachineAddress, machine.regs[Here.src2])]
    /\ lifted' = [lifted EXCEPT
            !.stack = Write(@, StackIndex, lifted.regs[Here.src2])]
    /\ Step

StackOverflow ==
    /\ phase = "run" /\ How = "stack" /\ ~InStack(StackIndex)
    /\ Overflow

ScaledAdd ==
    /\ At("addi", "scaled")
    /\ MachineLoads(Plus(MachineReg, Here.imm))
    /\ LiftedLoads([lifted.regs[Here.src] EXCEPT !.n = Scaled])
    /\ Step

PlainAdd ==
    /\ At("addi", "plain")
    /\ MachineLoads(Plus(MachineReg, Here.imm))
    /\ LiftedLoads(Add(lifted.regs[Here.src], Here.imm))
    /\ Step

PlainResult ==
    /\ At("gen", "plain")
    /\ MachineLoads(Data(Here.imm))
    /\ LiftedLoads(Data(Here.imm))
    /\ Step

PlainLoad ==
    /\ At("ld", "plain")
    /\ MachineLoads(Read(machine.mem, MachineAddress))
    /\ LiftedLoads(Read(lifted.mem, Add(lifted.regs[Here.src], Here.imm)))
    /\ Step

PlainStore ==
    /\ At("sd", "plain")
    /\ machine' = [machine EXCEPT
            !.mem = Write(@, MachineAddress, machine.regs[Here.src2])]
    /\ lifted' = [lifted EXCEPT
            !.mem = Write(@, Add(lifted.regs[Here.src], Here.imm), lifted.regs[Here.src2])]
    /\ Step

\* Both programs are run on the machine's branches.
Branch ==
    /\ At("cbr", "plain")
    /\ Goto(IF MachineReg.n = 0 THEN Here.to ELSE Top.pc + 1)
    /\ UNCHANGED <<prog, code, sptrack, machine, lifted, phase>>

CallFunction ==
    /\ At("call", "plain")
    /\ calls' = Append([calls EXCEPT ![Len(calls)] = [fn |-> Top.fn, pc |-> Top.pc + 1]],
                       [fn |-> Here.callee, pc |-> 1])
    /\ UNCHANGED <<prog, code, sptrack, machine, lifted, phase>>

Return ==
    /\ At("ret", "plain")
    /\ calls' = SubSeq(calls, 1, Len(calls) - 1)
    /\ phase' = IF Len(calls) = 1 THEN "done" ELSE phase
    /\ UNCHANGED <<prog, code, sptrack, machine, lifted>>

Next ==
    \/ \E f \in DOMAIN prog :
        LiftStackManipulation(f) \/ LiftStackPointerModification(f) \/ LiftOther(f)
    \/ HostCall
    \/ StackLoad \/ StackStore \/ StackOverflow \/ ScaledAdd
    \/ PlainAdd \/ PlainResult \/ PlainLoad \/ PlainStore
    \/ Branch \/ CallFunction \/ Return

Spec == Init /\ [][Next]_vars

-----------------------------------------------------------------------------

IsValue(v) == v.kind \in {"data", "stack"} /\ v.n \in Int

\* Type invariant; what the lifter tracks are registers.
TypeOK ==
    /\ phase \in {"lift", "run", "done", "error"}
    /\ sptrack \subseteq Reg /\ "sp" \in sptrack
    /\ \A f \in DOMAIN code : code[f] \in Seq({"stack", "scaled", "plain"})
    /\ \A r \in Reg : IsValue(machine.regs[r]) /\ IsValue(lifted.regs[r])
    /\ \A n \in DOMAIN lifted.stack : InStack(n)

\* What a value of the machine program is in the lifted program.
Same(m, l) ==
    /\ m.kind = l.kind
    /\ IF m.kind = "stack" THEN m.n = RegBytes * l.n ELSE m.n = l.n

\* A register of the lifted program holds the data of the machine's, or the
\* index of its stack address: no load returned something else than in the
\* machine program.
RegistersSame == \A r \in Reg : Same(machine.regs[r], lifted.regs[r])

\* And so does every element of the stack and the rest of the memory.
Simulates ==
    /\ RegistersSame
    /\ \A a \in DOMAIN machine.mem :
        LET l == IF a.kind = "stack"
                 THEN Read(lifted.stack, Quotient(a.n, RegBytes))
                 ELSE Read(lifted.mem, a)
        IN  Same(machine.mem[a], l)

\* The decisions of the lifter, made once for each instruction and in layout
\* order, are right whenever the instruction runs: it is lifted as a use of the
\* stack exactly if the machine then uses a stack address.
TrackingExact ==
    phase = "run" /\ Here.op \in {"addi", "ld", "sd"} =>
        (How # "plain" <=> MachineReg.kind = "stack")

\* The stack is as large as --stack-size says, but for one element: an index
\* leaves the array only when the machine program is that deep, or outside
\* of its own stack.
OverflowsOnlyWhenFull ==
    phase = "error" => MachineAddress.n \notin 0..(StackBytes - RegBytes)

-----------------------------------------------------------------------------
(* Programs whose use of the stack can be told from their text.  A         *)
(* discipline d says for each instruction which registers the lifter       *)
(* tracks (track), what each register holds (types), what functions leave  *)
(* in the registers (returns), and what may be found on the stack (slots)  *)
(* and in other memory (data).                                             *)

\* What has the types t may be used where u is expected.
Below(t, u) == \A r \in Reg : u[r] \in {t[r], "any"}

\* How an instruction is lifted, and what is tracked after it.
HowOf(i, tracked) == IF Manipulates(i, tracked) THEN "stack"
                     ELSE IF Modifies(i, tracked) THEN "scaled" ELSE "plain"
Tracks(i, tracked) == IF Manipulates(i, tracked) THEN tracked
                      ELSE IF Modifies(i, tracked) THEN {i.dst} \cup tracked
                      ELSE tracked \ Defs(i)

\* The types after an instruction that goes on with the next one.
Place(i, t, d) == IF t[i.src] = "stack" THEN d.slots ELSE d.data
After(i, t, d) ==
    [r \in Reg |-> IF r \notin Defs(i) THEN t[r]
                   ELSE IF i.op = "gen" THEN "data"
                   ELSE IF i.op = "addi" THEN t[i.src] ELSE Place(i, t, d)]

\* Wherever an address is used, its register is known to hold one of the stack, and
\* is then tracked, or not; the stack is accessed through the stack pointer
\* and by whole elements.
Follows(p, d) ==
    /\ {d.slots, d.data} \subseteq {"data", "any"}
    /\ \A f \in DOMAIN p : d.track[f][1] = {"sp"}
    /\ Below([r \in Reg |-> IF r = "sp" THEN "stack" ELSE "data"], d.types[Main][1])
    /\ \A f \in DOMAIN p : \A k \in DOMAIN p[f] :
        LET i == p[f][k]
            t == d.types[f][k]
        IN  /\ "sp" \in d.track[f][k] /\ t["sp"] = "stack"
            /\ k < Len(p[f]) => d.track[f][k + 1] = Tracks(i, d.track[f][k])
            /\ i.op \in {"addi", "ld", "sd"} =>
                /\ t[i.src] \in {"stack", "data"}
                /\ t[i.src] = "stack" <=> Uses(i) \cap d.track[f][k] # {}
                /\ t[i.src] = "stack" => i.imm % 8 = 0 /\ (i.op # "addi" => i.src = "sp")
            /\ i.op = "sd" => Place(i, t, d) \in {t[i.src2], "any"}
            /\ i.op \in {"addi", "gen", "ld", "sd", "cbr"} =>
                Below(After(i, t, d), d.types[f][k + 1])
            /\ i.op = "cbr" => Below(t, d.types[f][i.to])
            /\ i.op = "call" => /\ Below(t, d.types[i.callee][1])
                               /\ Below(d.returns[i.callee], d.types[f][k + 1])
            /\ i.op = "ret" => Below(t, d.returns[f])

Disciplined(p) == \E d : Follows(p, d)

=============================================================================
