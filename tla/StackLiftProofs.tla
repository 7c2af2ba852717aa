--------------------------- MODULE StackLiftProofs --------------------------
(***************************************************************************)
(* The inline stack does what the machine's does, for every program whose  *)
(* use of the stack can be told from its text (Disciplined), any number of *)
(* functions and any --stack-size.  Registers have eight bytes: the lifter *)
(* scales stack pointers by eight and offsets by the register's size.      *)
(***************************************************************************)
EXTENDS StackLift, SequenceTheorems, TLAPS

Value == [kind : {"data", "stack"}, n : Int]
Hows == {"stack", "scaled", "plain"}
Frame == [fn : DOMAIN prog, pc : Nat]

\* What the registers hold.
Kinds == [r \in Reg |-> machine.regs[r].kind]

\* The stack of the machine program is used by whole elements.
Aligned(a) == a.kind = "stack" => \E n \in Int : a = Stack(8 * n)

Shapes ==
    /\ prog \in Programs
    /\ phase \in {"lift", "run", "done", "error"}
    /\ phase = "lift" => machine.regs = InitialRegs
    /\ code \in [DOMAIN prog -> Seq(Hows)]
    /\ sptrack \subseteq Reg /\ "sp" \in sptrack
    /\ DOMAIN machine = {"regs", "mem"} /\ machine.regs \in [Reg -> Value]
    /\ DOMAIN lifted = {"regs", "stack", "mem"} /\ lifted.regs \in [Reg -> Value]
    /\ \A a \in DOMAIN machine.mem : a \in Value /\ Aligned(a)
    /\ \A n \in DOMAIN lifted.stack : InStack(n)

\* Every instruction was lifted as its text asks for, and where the lifter is, it
\* tracks what the discipline says.
LiftedAs(d) ==
    \A f \in DOMAIN prog :
        /\ Len(code[f]) <= Len(prog[f])
        /\ \A k \in 1..Len(code[f]) : code[f][k] = HowOf(prog[f][k], d.track[f][k])
        /\ Lifting(f) => sptrack = d.track[f][Len(code[f]) + 1]

\* m and l are the same value in the two programs, of the kind t.
Agree(m, l, t) == m \in Value /\ l \in Value /\ Same(m, l) /\ t \in {m.kind, "any"}

MemoryAgrees(d) ==
    /\ \A n \in Int :
        Agree(Read(machine.mem, Stack(8 * n)), Read(lifted.stack, n), d.slots)
    /\ \A n \in Int :
        Agree(Read(machine.mem, Data(n)), Read(lifted.mem, Data(n)), d.data)

\* The running function is where its registers have their types; what it returns
\* is what the waiting functions expect.
Running(d) ==
    phase \in {"run", "error"} =>
        /\ \A f \in DOMAIN prog : Len(code[f]) = Len(prog[f])
        /\ calls \in Seq(Frame) /\ calls # << >>
        /\ \A j \in DOMAIN calls : calls[j].pc \in DOMAIN prog[calls[j].fn]
        /\ Below(Kinds, d.types[Top.fn][Top.pc])
        /\ \A j \in DOMAIN calls : j + 1 \in DOMAIN calls =>
            Below(d.returns[calls[j + 1].fn], d.types[calls[j].fn][calls[j].pc])

\* A run stops only where the stack is left.
StopsOutside == phase = "error" => How = "stack" /\ ~InStack(StackIndex)

Inv(d) == /\ Shapes /\ LiftedAs(d) /\ RegistersSame /\ MemoryAgrees(d)
          /\ Running(d) /\ StopsOutside

Inductive == \E d : Follows(prog, d) /\ Inv(d)

-----------------------------------------------------------------------------
(* Programs, values and memories *)

\* The instructions of a program, and where they continue.
LEMMA Instructions ==
    ASSUME NEW p \in Programs, NEW f \in DOMAIN p
    PROVE  /\ Main \in DOMAIN p
           /\ Len(p[f]) \in Nat /\ Len(p[f]) > 0 /\ DOMAIN p[f] = 1..Len(p[f])
           /\ \A k \in DOMAIN p[f] :
                /\ p[f][k] \in Instr(DOMAIN p)
                /\ p[f][k].to \in DOMAIN p[f]
                /\ p[f][k].op # "ret" => k + 1 \in DOMAIN p[f]
<1>1. /\ Main \in DOMAIN p
      /\ p[f] \in Seq(Instr(DOMAIN p)) /\ p[f] # << >>
      /\ p[f][Len(p[f])].op = "ret"
      /\ \A k \in DOMAIN p[f] : p[f][k].to \in DOMAIN p[f]
  BY StackAssumption
<1>2. Len(p[f]) \in Nat /\ Len(p[f]) > 0 /\ DOMAIN p[f] = 1..Len(p[f])
  BY <1>1, EmptySeq, LenProperties
<1>3. \A k \in DOMAIN p[f] : p[f][k] \in Instr(DOMAIN p)
  BY <1>1, ElementOfSeq, <1>2
<1>4. \A k \in DOMAIN p[f] : p[f][k].op # "ret" => k + 1 \in DOMAIN p[f]
  BY <1>1, <1>2
<1> QED
  BY <1>1, <1>2, <1>3, <1>4

\* What has finer types may be used wherever what has coarser ones may.
LEMMA BelowIsTransitive ==
    ASSUME NEW t, NEW u, NEW v, Below(t, u), Below(u, v)
    PROVE  Below(t, v)
BY DEF Below

\* A read returns what was last written to the place.
LEMMA ReadWritten ==
    ASSUME NEW mem, NEW a, NEW v
    PROVE  /\ DOMAIN Write(mem, a, v) = {a} \cup DOMAIN mem
           /\ \A b : Read(Write(mem, a, v), b) = IF b = a THEN v ELSE Read(mem, b)
BY DEF Write, Read

\* The two constructors of values.
LEMMA Values ==
    ASSUME NEW n \in Int
    PROVE  /\ Data(n) \in Value /\ Data(n).kind = "data" /\ Data(n).n = n
           /\ Stack(n) \in Value /\ Stack(n).kind = "stack" /\ Stack(n).n = n
BY DEF Data, Stack, Value

\* A value is its kind and its number.
LEMMA ValueIs ==
    ASSUME NEW v \in Value
    PROVE  /\ v.kind \in {"data", "stack"} /\ v.n \in Int
           /\ v = IF v.kind = "stack" THEN Stack(v.n) ELSE Data(v.n)
BY DEF Data, Stack, Value

\* Arithmetic on values, in the machine and in the lifted program.
LEMMA Arithmetic ==
    ASSUME NEW v \in Value, NEW n \in Int
    PROVE  /\ Plus(v, n) = IF v.kind = "stack" THEN Stack(v.n - n) ELSE Data(v.n + n)
           /\ Add(v, n) = [kind |-> v.kind, n |-> v.n + n]
           /\ [v EXCEPT !.n = n] = [kind |-> v.kind, n |-> n]
BY DEF Plus, Add, Data, Stack, Value

\* Division of a multiple of eight is exact, also below zero.
LEMMA Eighth ==
    ASSUME NEW n \in Int, n % 8 = 0
    PROVE  Quotient(-n, 8) \in Int /\ 8 * Quotient(-n, 8) = -n
BY DEF Quotient

\* ... and of a product of eight.
LEMMA EighthOf ==
    ASSUME NEW n \in Int
    PROVE  Quotient(8 * n, 8) = n
BY DEF Quotient
-----------------------------------------------------------------------------
(* Lifting *)

\* Before anything is lifted the invariant holds.
LEMMA InitialState ==
    ASSUME RegBytes = 8, Init, NEW d, Follows(prog, d)
    PROVE  Inv(d)
<1> USE DEF Init
<1>1. \A r \in Reg : InitialRegs[r] \in Value
  <2>1. Data(0) \in Value /\ Stack(0) \in Value
    BY Values
  <2> QED
    BY <2>1 DEF InitialRegs
<1>2. InitialRegs \in [Reg -> Value]
  BY <1>1 DEF InitialRegs
<1>3. \A f \in DOMAIN prog : code[f] = << >> /\ Len(code[f]) = 0
  BY EmptySeq
<1>4. Shapes
  <2>1. code \in [DOMAIN prog -> Seq(Hows)]
    BY EmptySeq
  <2> QED
    BY <1>2, <2>1, StackAssumption DEF Shapes, Empty
<1>5. LiftedAs(d)
  <2> SUFFICES ASSUME NEW f \in DOMAIN prog
               PROVE  /\ Len(code[f]) <= Len(prog[f])
                      /\ \A k \in 1..Len(code[f]) : code[f][k] = HowOf(prog[f][k], d.track[f][k])
                      /\ sptrack = d.track[f][Len(code[f]) + 1]
    BY DEF LiftedAs
  <2>1. d.track[f][1] = {"sp"}
    BY DEF Follows
  <2> QED
    BY <1>3, <2>1, Instructions
<1>6. RegistersSame
  <2> SUFFICES ASSUME NEW r \in Reg
               PROVE  Same(InitialRegs[r], InitialRegs[r])
    BY DEF RegistersSame
  <2> QED
    BY Values DEF Same, InitialRegs
<1>7. MemoryAgrees(d)
  <2>1. \A a : Read(Empty, a) = Data(0)
    BY DEF Read, Empty
  <2>2. {d.slots, d.data} \subseteq {"data", "any"}
    BY DEF Follows
  <2>3. \A t \in {"data", "any"} : Agree(Data(0), Data(0), t)
    BY Values DEF Agree, Same
  <2> QED
    BY <2>1, <2>2, <2>3 DEF MemoryAgrees
<1>8. Running(d) /\ StopsOutside
  BY DEF Running, StopsOutside
<1> QED
  BY <1>4, <1>5, <1>6, <1>7, <1>8 DEF Inv

\* One instruction is lifted as its text asks for; then the tracker is where
\* the discipline says, or starts again.
LEMMA LiftsOne ==
    ASSUME NEW d, Follows(prog, d), Shapes, LiftedAs(d),
           NEW f \in DOMAIN prog, Lifting(f), NEW how \in Hows,
           how = HowOf(Inst(f), sptrack), Generate(f, how),
           Track(f, Tracks(Inst(f), sptrack))
    PROVE  /\ LiftedAs(d)'
           /\ code' \in [DOMAIN prog -> Seq(Hows)]
           /\ sptrack' \subseteq Reg /\ "sp" \in sptrack'
<1>1. PICK n \in Nat : n = Len(code[f])
  BY LenProperties DEF Shapes
<1>2. /\ code \in [DOMAIN prog -> Seq(Hows)] /\ code[f] \in Seq(Hows)
      /\ prog' = prog /\ phase' = phase
      /\ code' = [code EXCEPT ![f] = Append(@, how)]
  BY DEF Shapes, Generate
<1>3. /\ code'[f] = Append(code[f], how) /\ code'[f] \in Seq(Hows)
      /\ \A g \in DOMAIN prog \ {f} : code'[g] = code[g]
      /\ code' \in [DOMAIN prog -> Seq(Hows)]
  BY <1>2
<1>4. /\ Len(code'[f]) = n + 1
      /\ \A k \in 1..n : code'[f][k] = code[f][k]
      /\ code'[f][n + 1] = how
  BY <1>1, <1>2, <1>3, AppendProperties
<1>5. PICK p \in Nat : p = Len(prog[f])
  BY Instructions DEF Shapes
<1>6. n < p /\ \A g \in DOMAIN prog \ {f} : Len(code[g]) \in {0, Len(prog[g])}
  BY <1>1, <1>5 DEF Lifting
<1>7. n + 1 \in DOMAIN prog[f]
  BY <1>5, <1>6, Instructions DEF Shapes
<1>8. PICK i \in Instr(DOMAIN prog) : i = prog[f][n + 1]
  BY <1>7, Instructions DEF Shapes
<1>9. sptrack = d.track[f][n + 1] /\ Inst(f) = i
  BY <1>1, <1>8 DEF LiftedAs, Inst
<1>10. Tracks(i, sptrack) \subseteq Reg
  <2>1. i.dst \in Reg /\ sptrack \subseteq Reg
    BY DEF Instr, Shapes
  <2> QED
    BY <2>1 DEF Tracks
<1>11. sptrack' = IF n + 1 = p THEN {"sp"} ELSE Tracks(i, sptrack)
  BY <1>1, <1>5, <1>9 DEF Track
<1>12. n + 1 # p => /\ Tracks(i, sptrack) = d.track[f][n + 2]
                    /\ "sp" \in d.track[f][n + 2]
  <2> SUFFICES ASSUME n + 1 # p
               PROVE  /\ Tracks(i, sptrack) = d.track[f][n + 2]
                      /\ "sp" \in d.track[f][n + 2]
    OBVIOUS
  <2>1. n + 1 < p /\ n + 2 \in DOMAIN prog[f] /\ (n + 1) + 1 = n + 2
    BY <1>5, <1>6, Instructions DEF Shapes
  <2>2. d.track[f][(n + 1) + 1] = Tracks(prog[f][n + 1], d.track[f][n + 1])
    BY <1>7, <1>5, <2>1 DEF Follows
  <2>3. "sp" \in d.track[f][n + 2]
    BY <2>1 DEF Follows
  <2> QED
    BY <2>1, <2>2, <2>3, <1>8, <1>9
<1>13. sptrack' \subseteq Reg /\ "sp" \in sptrack'
  BY <1>10, <1>11, <1>12, StackAssumption
<1>14. LiftedAs(d)'
  <2> SUFFICES ASSUME NEW g \in DOMAIN prog
               PROVE  /\ Len(code'[g]) <= Len(prog[g])
                      /\ \A k \in 1..Len(code'[g]) :
                            code'[g][k] = HowOf(prog[g][k], d.track[g][k])
                      /\ Lifting(g)' => sptrack' = d.track[g][Len(code'[g]) + 1]
    BY <1>2 DEF LiftedAs
  <2>1. CASE g = f
    <3>1. \A k \in 1..n : code'[g][k] = HowOf(prog[g][k], d.track[g][k])
      BY <2>1, <1>1, <1>4 DEF LiftedAs
    <3>2. code'[g][n + 1] = HowOf(prog[g][n + 1], d.track[g][n + 1])
      BY <2>1, <1>4, <1>8, <1>9
    <3>3. \A k \in 1..(n + 1) : k \in 1..n \/ k = n + 1
      OBVIOUS
    <3>4. Len(code'[g]) = n + 1 /\ Len(prog[g]) = p
      BY <2>1, <1>4, <1>5
    <3>5. Lifting(g)' => n + 1 # p
      BY <3>4, <1>2 DEF Lifting
    <3>6. (n + 1) + 1 = n + 2
      OBVIOUS
    <3> QED
      BY <2>1, <3>1, <3>2, <3>3, <3>4, <3>5, <3>6, <1>6, <1>11, <1>12
  <2>2. CASE g # f
    <3>1. code'[g] = code[g]
      BY <2>2, <1>3
    <3>2. ASSUME Lifting(g)' PROVE sptrack' = d.track[g][Len(code'[g]) + 1]
      <4>1. Len(code'[g]) < Len(prog[g]) /\ Len(code'[f]) \in {0, Len(prog[f])}
        BY <2>2, <3>2, <1>2 DEF Lifting
      <4>2. n + 1 = p
        BY <4>1, <1>4, <1>5
      <4>3. Len(code[g]) \in {0, Len(prog[g])} /\ Len(prog[g]) \in Nat
        BY <1>6, <2>2, Instructions DEF Shapes
      <4>4. Len(code'[g]) = 0
        BY <4>1, <4>3, <3>1
      <4>5. d.track[g][1] = {"sp"}
        BY DEF Follows
      <4> QED
        BY <4>2, <4>4, <4>5, <1>11
    <3> QED
      BY <3>1, <3>2 DEF LiftedAs
  <2> QED
    BY <2>1, <2>2
<1> QED
  BY <1>3, <1>13, <1>14

\* The lifter's three cases are the three of HowOf and Tracks.
LEMMA LiftActions ==
    ASSUME NEW f \in DOMAIN prog,
           LiftStackManipulation(f) \/ LiftStackPointerModification(f) \/ LiftOther(f)
    PROVE  /\ Lifting(f) /\ HowOf(Inst(f), sptrack) \in Hows
           /\ Generate(f, HowOf(Inst(f), sptrack))
           /\ Track(f, Tracks(Inst(f), sptrack))
<1> DEFINE i == Inst(f)
<1>1. /\ is_stack_manipulation(i) <=> Manipulates(i, sptrack)
      /\ is_sp_modification(i) <=> Modifies(i, sptrack)
  BY DEF is_stack_manipulation, is_sp_modification, Manipulates, Modifies
<1>2. HowOf(i, sptrack) \in Hows
  BY DEF HowOf, Hows
<1>3. CASE LiftStackManipulation(f)
  BY <1>1, <1>2, <1>3 DEF LiftStackManipulation, HowOf, Tracks
<1>4. CASE LiftStackPointerModification(f)
  <2>1. ~is_stack_manipulation(i) /\ is_sp_modification(i)
    BY <1>4, <1>1 DEF LiftStackPointerModification, Modifies
  <2>2. HowOf(i, sptrack) = "scaled" /\ Tracks(i, sptrack) = {i.dst} \cup sptrack
    BY <2>1, <1>1 DEF HowOf, Tracks
  <2> QED
    BY <1>2, <1>4, <2>2 DEF LiftStackPointerModification
<1>5. CASE LiftOther(f)
  <2>1. ~is_stack_manipulation(i) /\ ~is_sp_modification(i)
    BY <1>5 DEF LiftOther
  <2>2. HowOf(i, sptrack) = "plain" /\ Tracks(i, sptrack) = sptrack \ Defs(i)
    BY <2>1, <1>1 DEF HowOf, Tracks
  <2>3. sptrack \ Defs(i) = IF Defs(i) = {} THEN sptrack ELSE Forget(i.dst)
    BY DEF Defs, Forget
  <2> QED
    BY <1>2, <1>5, <2>2, <2>3 DEF LiftOther
<1> QED
  BY <1>3, <1>4, <1>5

\* While it lifts, the lifter runs nothing.
LEMMA LiftKeeps ==
    ASSUME RegBytes = 8, NEW d, Follows(prog, d), Inv(d), NEW f \in DOMAIN prog,
           LiftStackManipulation(f) \/ LiftStackPointerModification(f) \/ LiftOther(f)
    PROVE  Inv(d)'
<1>1. /\ Lifting(f) /\ HowOf(Inst(f), sptrack) \in Hows
      /\ Generate(f, HowOf(Inst(f), sptrack))
      /\ Track(f, Tracks(Inst(f), sptrack))
  BY LiftActions
<1>2. /\ LiftedAs(d)'
      /\ code' \in [DOMAIN prog -> Seq(Hows)]
      /\ sptrack' \subseteq Reg /\ "sp" \in sptrack'
  BY <1>1, LiftsOne DEF Inv
<1>3. phase = "lift" /\ phase' = "lift" /\ UNCHANGED <<prog, machine, lifted>>
  BY <1>1 DEF Lifting, Generate
<1>4. Shapes'
  BY <1>2, <1>3 DEF Inv, Shapes, InStack
<1>5. RegistersSame' /\ MemoryAgrees(d)'
  BY <1>3 DEF Inv, RegistersSame, MemoryAgrees
<1>6. Running(d)' /\ StopsOutside'
  BY <1>3 DEF Running, StopsOutside
<1> QED
  BY <1>2, <1>4, <1>5, <1>6 DEF Inv

\* The host calls main with what it may find there.
LEMMA HostCallKeeps ==
    ASSUME RegBytes = 8, NEW d, Follows(prog, d), Inv(d), HostCall
    PROVE  Inv(d)'
<1>1. /\ phase' = "run" /\ calls' = <<[fn |-> Main, pc |-> 1]>>
      /\ UNCHANGED <<prog, code, sptrack, machine, lifted>>
      /\ \A f \in DOMAIN prog : Len(code[f]) = Len(prog[f])
      /\ machine.regs = InitialRegs
  BY DEF HostCall, Inv, Shapes
<1>2. Shapes' /\ RegistersSame' /\ MemoryAgrees(d)'
  BY <1>1 DEF Inv, Shapes, RegistersSame, MemoryAgrees, InStack
<1>3. LiftedAs(d)'
  BY <1>1 DEF Inv, LiftedAs, Lifting
<1>4. Main \in DOMAIN prog /\ 1 \in DOMAIN prog[Main]
  <2>1. prog \in Programs
    BY DEF Inv, Shapes
  <2>2. Main \in DOMAIN prog
    BY <2>1, StackAssumption
  <2> QED
    BY <2>1, <2>2, Instructions
<1>5. Below(Kinds, d.types[Main][1])
  <2>1. Kinds = [r \in Reg |-> IF r = "sp" THEN "stack" ELSE "data"]
    BY <1>1, Values DEF Kinds, InitialRegs
  <2> QED
    BY <2>1 DEF Follows
<1>6. Running(d)'
  <2>1. Len(calls') = 1 /\ DOMAIN calls' = 1..1 /\ calls'[1] = [fn |-> Main, pc |-> 1]
    BY <1>1
  <2>2. calls' \in Seq(Frame) /\ calls' # << >>
    BY <1>1, <1>4 DEF Frame
  <2>3. \A j \in DOMAIN calls' : j = 1
    BY <2>1
  <2>4. Top' = [fn |-> Main, pc |-> 1]
    BY <2>1 DEF Top
  <2>5. Kinds' = Kinds
    BY <1>1 DEF Kinds
  <2> QED
    BY <1>1, <1>4, <1>5, <2>1, <2>2, <2>3, <2>4, <2>5 DEF Running, Frame
<1>7. StopsOutside'
  BY <1>1 DEF StopsOutside
<1> QED
  BY <1>2, <1>3, <1>6, <1>7 DEF Inv

-----------------------------------------------------------------------------
(* Running *)

TypesAt(d, pc) == d.types[Top.fn][pc]

\* Where a run is, the discipline holds.
LEMMA Position ==
    ASSUME NEW d, Follows(prog, d), Inv(d), phase \in {"run", "error"}
    PROVE  /\ Len(calls) \in Nat /\ Len(calls) > 0 /\ DOMAIN calls = 1..Len(calls)
           /\ Top.fn \in DOMAIN prog /\ Top.pc \in DOMAIN prog[Top.fn] /\ Top.pc \in Nat
           /\ Here \in Instr(DOMAIN prog)
           /\ How = HowOf(Here, d.track[Top.fn][Top.pc])
           /\ Below(Kinds, TypesAt(d, Top.pc))
           /\ Here.to \in DOMAIN prog[Top.fn]
           /\ Here.op # "ret" => Top.pc + 1 \in DOMAIN prog[Top.fn]
<1>1. /\ \A f \in DOMAIN prog : Len(code[f]) = Len(prog[f])
      /\ calls \in Seq(Frame) /\ calls # << >>
      /\ \A j \in DOMAIN calls : calls[j].pc \in DOMAIN prog[calls[j].fn]
      /\ Below(Kinds, d.types[Top.fn][Top.pc])
  BY DEF Inv, Running
<1>2. Len(calls) \in Nat /\ Len(calls) > 0 /\ DOMAIN calls = 1..Len(calls)
  BY <1>1, EmptySeq, LenProperties
<1>3. Top \in Frame /\ Top.pc \in DOMAIN prog[Top.fn]
  BY <1>1, <1>2, ElementOfSeq DEF Top
<1>4. Top.fn \in DOMAIN prog /\ Top.pc \in Nat
  BY <1>3 DEF Frame
<1>5. prog \in Programs
  BY DEF Inv, Shapes
<1>6. /\ Here \in Instr(DOMAIN prog)
      /\ Here.to \in DOMAIN prog[Top.fn]
      /\ Here.op # "ret" => Top.pc + 1 \in DOMAIN prog[Top.fn]
  BY <1>3, <1>4, <1>5, Instructions DEF Here
<1>7. How = HowOf(Here, d.track[Top.fn][Top.pc])
  <2>1. Top.pc \in 1..Len(code[Top.fn])
    BY <1>1, <1>3, <1>4, <1>5, Instructions
  <2> QED
    BY <2>1, <1>4 DEF How, Here, Inv, LiftedAs
<1> QED
  BY <1>1, <1>2, <1>3, <1>4, <1>6, <1>7 DEF TypesAt

\* What the discipline says of the instruction a run is at.
LEMMA Rules ==
    ASSUME NEW d, Follows(prog, d), Inv(d), phase \in {"run", "error"},
           NEW t, t = TypesAt(d, Top.pc)
    PROVE  /\ t["sp"] = "stack"
           /\ Here.op \in {"addi", "ld", "sd"} =>
                /\ t[Here.src] \in {"stack", "data"}
                /\ t[Here.src] = "stack" <=>
                        Uses(Here) \cap d.track[Top.fn][Top.pc] # {}
                /\ t[Here.src] = "stack" =>
                        Here.imm % 8 = 0 /\ (Here.op # "addi" => Here.src = "sp")
           /\ Here.op = "sd" => Place(Here, t, d) \in {t[Here.src2], "any"}
           /\ Here.op \in {"addi", "gen", "ld", "sd", "cbr"} =>
                Below(After(Here, t, d), TypesAt(d, Top.pc + 1))
           /\ Here.op = "cbr" => Below(t, TypesAt(d, Here.to))
           /\ Here.op = "call" => /\ Below(t, d.types[Here.callee][1])
                                  /\ Below(d.returns[Here.callee], TypesAt(d, Top.pc + 1))
           /\ Here.op = "ret" => Below(t, d.returns[Top.fn])
<1>1. Top.fn \in DOMAIN prog /\ Top.pc \in DOMAIN prog[Top.fn]
  BY Position
<1> QED
  BY <1>1 DEF Follows, Here, TypesAt

\* The kind of what is in a register is its type, and the two programs have
\* the same there.
LEMMA Registers ==
    ASSUME NEW d, Follows(prog, d), Inv(d), phase \in {"run", "error"}, NEW r \in Reg
    PROVE  /\ machine.regs[r] \in Value /\ lifted.regs[r] \in Value
           /\ Same(machine.regs[r], lifted.regs[r])
           /\ TypesAt(d, Top.pc)[r] \in {machine.regs[r].kind, "any"}
<1>1. Below(Kinds, TypesAt(d, Top.pc))
  BY Position
<1> QED
  BY <1>1 DEF Below, Kinds, Inv, Shapes, RegistersSame

\* The decisions of the lifter are right wherever they are used.
LEMMA Decisions ==
    ASSUME NEW d, Follows(prog, d), Inv(d), phase \in {"run", "error"},
           Here.op \in {"addi", "ld", "sd"}
    PROVE  /\ Here.src \in Reg /\ Here.imm \in Int
           /\ MachineReg \in Value /\ MachineReg.kind = TypesAt(d, Top.pc)[Here.src]
           /\ How # "plain" <=> MachineReg.kind = "stack"
           /\ How = "stack" => Here.op \in {"ld", "sd"} /\ Here.src = "sp"
           /\ How # "plain" => Here.imm % 8 = 0
<1>1. Here \in Instr(DOMAIN prog) /\ How = HowOf(Here, d.track[Top.fn][Top.pc])
  BY Position
<1>2. Here.src \in Reg /\ Here.imm \in Int
  BY <1>1 DEF Instr
<1>3. PICK t : t = TypesAt(d, Top.pc)
  OBVIOUS
<1>4. /\ t[Here.src] \in {"stack", "data"}
      /\ t[Here.src] = "stack" <=> Uses(Here) \cap d.track[Top.fn][Top.pc] # {}
      /\ t[Here.src] = "stack" =>
            Here.imm % 8 = 0 /\ (Here.op # "addi" => Here.src = "sp")
  BY <1>3, Rules
<1>5. MachineReg \in Value /\ t[Here.src] \in {MachineReg.kind, "any"}
  BY <1>2, <1>3, Registers DEF MachineReg
<1>6. MachineReg.kind = t[Here.src]
  BY <1>4, <1>5
<1>7. How # "plain" <=> Uses(Here) \cap d.track[Top.fn][Top.pc] # {}
  <2>1. Here.op # "sd" => Defs(Here) # {}
    BY DEF Defs
  <2> QED
    BY <1>1, <2>1 DEF HowOf, Manipulates, Modifies
<1>8. How = "stack" => Here.op \in {"ld", "sd"}
  BY <1>1 DEF HowOf, Manipulates
<1> QED
  BY <1>2, <1>3, <1>4, <1>5, <1>6, <1>7, <1>8

\* An access to the stack is to the element the machine program has at its address.
LEMMA StackPlace ==
    ASSUME RegBytes = 8, NEW d, Follows(prog, d), Inv(d), phase \in {"run", "error"},
           How = "stack", Here.op \in {"ld", "sd"}
    PROVE  StackIndex \in Int /\ MachineAddress = Stack(8 * StackIndex)
<1>1. /\ MachineReg \in Value /\ MachineReg.kind = "stack"
      /\ Here.src = "sp" /\ Here.imm \in Int /\ Here.imm % 8 = 0 /\ Here.src \in Reg
  BY Decisions
<1>2. PICK l \in Value : l = lifted.regs["sp"]
  BY <1>1, Registers
<1>3. Same(MachineReg, l)
  BY <1>1, <1>2, Registers DEF MachineReg
<1>4. MachineReg.n \in Int /\ l.n \in Int /\ MachineReg.n = 8 * l.n
  BY <1>1, <1>3, ValueIs DEF Same
<1>5. PICK q \in Int : q = Quotient(-Here.imm, 8) /\ 8 * q = -Here.imm
  BY <1>1, Eighth
<1>6. StackIndex = l.n + q
  BY <1>2, <1>5 DEF StackIndex
<1>7. MachineAddress = Stack(MachineReg.n - Here.imm)
  BY <1>1, Arithmetic DEF MachineAddress
<1>8. MachineReg.n - Here.imm = 8 * (l.n + q)
  <2>1. PICK a \in Int : a = MachineReg.n
    BY <1>4
  <2>2. PICK b \in Int : b = Here.imm
    BY <1>1
  <2>3. PICK x \in Int : x = l.n
    BY <1>4
  <2>4. a = 8 * x /\ 8 * q = -b
    BY <1>4, <1>5, <2>1, <2>2, <2>3
  <2>5. a - b = 8 * (x + q)
    BY <2>4
  <2> QED
    BY <2>1, <2>2, <2>3, <2>5
<1> QED
  BY <1>4, <1>5, <1>6, <1>7, <1>8

-----------------------------------------------------------------------------
(* The steps of a run *)

\* A step within the running function to where its registers have their types.
LEMMA Goes ==
    ASSUME NEW d, Follows(prog, d), Inv(d), phase = "run", phase' = "run",
           UNCHANGED <<prog, code>>, NEW q \in Nat, q \in DOMAIN prog[Top.fn],
           Goto(q), Below(Kinds', TypesAt(d, q))
    PROVE  Running(d)'
<1>1. /\ \A f \in DOMAIN prog : Len(code[f]) = Len(prog[f])
      /\ calls \in Seq(Frame)
      /\ \A j \in DOMAIN calls : calls[j].pc \in DOMAIN prog[calls[j].fn]
      /\ \A j \in DOMAIN calls : j + 1 \in DOMAIN calls =>
            Below(d.returns[calls[j + 1].fn], d.types[calls[j].fn][calls[j].pc])
  BY DEF Inv, Running
<1>2. PICK n \in Nat : n = Len(calls) /\ n > 0 /\ DOMAIN calls = 1..n
  BY Position
<1>3. PICK g \in DOMAIN prog : g = Top.fn
  BY Position
<1>4. calls[n].fn = g
  BY <1>2, <1>3 DEF Top
<1>5. calls' = [calls EXCEPT ![n] = [fn |-> g, pc |-> q]]
  BY <1>2, <1>3 DEF Goto
<1>6. [fn |-> g, pc |-> q] \in Frame
  BY DEF Frame
<1>7. calls' \in Seq(Frame) /\ Len(calls') = n
  BY <1>1, <1>2, <1>5, <1>6, ExceptSeq
<1>8. /\ DOMAIN calls' = 1..n
      /\ calls'[n] = [fn |-> g, pc |-> q]
      /\ \A j \in 1..(n - 1) : calls'[j] = calls[j]
      /\ \A j \in 1..n : calls'[j].fn = calls[j].fn
  BY <1>2, <1>4, <1>5
<1>9. Top' = [fn |-> g, pc |-> q] /\ calls' # << >>
  BY <1>2, <1>7, <1>8, EmptySeq DEF Top
<1>10. \A j \in 1..n : calls'[j].pc \in DOMAIN prog[calls'[j].fn]
  <2> SUFFICES ASSUME NEW j \in 1..n PROVE calls'[j].pc \in DOMAIN prog[calls'[j].fn]
    OBVIOUS
  <2>1. CASE j = n
    BY <2>1, <1>3, <1>8
  <2>2. CASE j # n
    BY <2>2, <1>1, <1>2, <1>8
  <2> QED
    BY <2>1, <2>2
<1>11. \A j \in 1..n : j + 1 \in 1..n =>
            Below(d.returns[calls'[j + 1].fn], d.types[calls'[j].fn][calls'[j].pc])
  BY <1>1, <1>2, <1>8
<1>12. Frame' = Frame
  BY DEF Frame
<1> QED
  BY <1>1, <1>3, <1>7, <1>8, <1>9, <1>10, <1>11, <1>12 DEF Running, TypesAt

\* What a step that computes a register does.
LEMMA Computes ==
    ASSUME NEW m, NEW l, DOMAIN machine = {"regs", "mem"},
           DOMAIN lifted = {"regs", "stack", "mem"},
           machine.regs \in [Reg -> Value], lifted.regs \in [Reg -> Value],
           Here.dst \in Reg, MachineLoads(m), LiftedLoads(l)
    PROVE  /\ DOMAIN machine' = {"regs", "mem"} /\ DOMAIN lifted' = {"regs", "stack", "mem"}
           /\ machine'.regs = [machine.regs EXCEPT ![Here.dst] = m]
           /\ lifted'.regs = [lifted.regs EXCEPT ![Here.dst] = l]
           /\ machine'.mem = machine.mem
           /\ lifted'.stack = lifted.stack /\ lifted'.mem = lifted.mem
BY DEF MachineLoads, LiftedLoads

\* A register gets the same value in both programs, of the type it should have.
LEMMA RegisterStep ==
    ASSUME NEW d, Follows(prog, d), Inv(d), phase = "run",
           Here.op \in {"addi", "gen", "ld"},
           NEW m \in Value, NEW l \in Value, Same(m, l),
           After(Here, TypesAt(d, Top.pc), d)[Here.dst] \in {m.kind, "any"},
           MachineLoads(m), LiftedLoads(l), Step
    PROVE  Inv(d)'
<1>1. /\ Here \in Instr(DOMAIN prog)
      /\ Top.pc + 1 \in DOMAIN prog[Top.fn] /\ Top.pc \in Nat
      /\ Below(Kinds, TypesAt(d, Top.pc))
  BY Position
<1>2. PICK r \in Reg : r = Here.dst
  BY <1>1 DEF Instr
<1>3. phase' = "run" /\ UNCHANGED <<prog, code, sptrack>> /\ Goto(Top.pc + 1)
  BY DEF Step
<1>4. /\ DOMAIN machine = {"regs", "mem"} /\ DOMAIN lifted = {"regs", "stack", "mem"}
      /\ machine.regs \in [Reg -> Value] /\ lifted.regs \in [Reg -> Value]
  BY DEF Inv, Shapes
<1>5. /\ DOMAIN machine' = {"regs", "mem"} /\ DOMAIN lifted' = {"regs", "stack", "mem"}
      /\ machine'.regs = [machine.regs EXCEPT ![r] = m]
      /\ lifted'.regs = [lifted.regs EXCEPT ![r] = l]
      /\ machine'.mem = machine.mem
      /\ lifted'.stack = lifted.stack /\ lifted'.mem = lifted.mem
  BY <1>2, <1>4, Computes
<1>6. Shapes'
  BY <1>3, <1>4, <1>5 DEF Inv, Shapes, InStack, Aligned
<1>7. RegistersSame'
  BY <1>4, <1>5 DEF Inv, RegistersSame
<1>8. MemoryAgrees(d)' /\ LiftedAs(d)' /\ StopsOutside'
  BY <1>3, <1>5 DEF Inv, MemoryAgrees, LiftedAs, Lifting, StopsOutside
<1>9. Below(Kinds', TypesAt(d, Top.pc + 1))
  <2>1. PICK t : t = TypesAt(d, Top.pc)
    OBVIOUS
  <2>2. PICK u : u = TypesAt(d, Top.pc + 1)
    OBVIOUS
  <2>3. Below(After(Here, t, d), u)
    BY <2>1, <2>2, Rules
  <2>4. Defs(Here) = {r}
    BY <1>2 DEF Defs
  <2>5. \A x \in Reg : After(Here, t, d)[x] \in {Kinds'[x], "any"}
    <3> SUFFICES ASSUME NEW x \in Reg
                 PROVE  After(Here, t, d)[x] \in {machine'.regs[x].kind, "any"}
      BY DEF Kinds
    <3>1. CASE x = r
      BY <3>1, <1>2, <1>4, <1>5, <2>1
    <3>2. CASE x # r
      <4>1. After(Here, t, d)[x] = t[x]
        BY <3>2, <2>4 DEF After
      <4> QED
        BY <3>2, <4>1, <1>1, <1>4, <1>5, <2>1 DEF Below, Kinds
    <3> QED
      BY <3>1, <3>2
  <2>6. Below(Kinds', After(Here, t, d))
    BY <2>5 DEF Below
  <2> QED
    BY <2>2, <2>3, <2>6, BelowIsTransitive
<1>10. Running(d)'
  BY <1>1, <1>3, <1>9, Goes
<1> QED
  BY <1>6, <1>7, <1>8, <1>10 DEF Inv

\* A step that leaves the registers goes on with their types.
LEMMA KeepsRegisters ==
    ASSUME NEW d, Follows(prog, d), Inv(d), phase = "run",
           Here.op \in {"sd", "cbr"}, machine'.regs = machine.regs
    PROVE  Below(Kinds', TypesAt(d, Top.pc + 1))
<1>1. Below(Kinds, TypesAt(d, Top.pc))
  BY Position
<1>2. PICK t : t = TypesAt(d, Top.pc)
  OBVIOUS
<1>3. PICK u : u = TypesAt(d, Top.pc + 1)
  OBVIOUS
<1>4. Below(After(Here, t, d), u)
  BY <1>2, <1>3, Rules
<1>5. \A x \in Reg : After(Here, t, d)[x] = t[x]
  BY DEF After, Defs
<1>6. Kinds' = Kinds
  BY DEF Kinds
<1> QED
  BY <1>1, <1>2, <1>3, <1>4, <1>5, <1>6 DEF Below

\* The two programs read the same from the stack, and from other memory.
LEMMA Reads ==
    ASSUME NEW d, Inv(d), NEW n \in Int
    PROVE  /\ Agree(Read(machine.mem, Stack(8 * n)), Read(lifted.stack, n), d.slots)
           /\ Agree(Read(machine.mem, Data(n)), Read(lifted.mem, Data(n)), d.data)
BY DEF Inv, MemoryAgrees

\* A load from the array reads what the machine program reads.
LEMMA StackLoadKeeps ==
    ASSUME RegBytes = 8, NEW d, Follows(prog, d), Inv(d), StackLoad
    PROVE  Inv(d)'
<1>1. phase = "run" /\ Here.op = "ld" /\ How = "stack"
  BY DEF StackLoad, At
<1>2. PICK n \in Int : n = StackIndex /\ MachineAddress = Stack(8 * n)
  BY <1>1, StackPlace
<1>3. PICK m : m = Read(machine.mem, Stack(8 * n))
  OBVIOUS
<1>4. PICK l : l = Read(lifted.stack, n)
  OBVIOUS
<1>5. Agree(m, l, d.slots)
  BY <1>3, <1>4, Reads
<1>6. MachineLoads(m) /\ LiftedLoads(l) /\ Step
  BY <1>2, <1>3, <1>4 DEF StackLoad
<1>7. After(Here, TypesAt(d, Top.pc), d)[Here.dst] = d.slots
  <2>1. Here.dst \in Reg
    BY <1>1, Position DEF Instr
  <2>2. TypesAt(d, Top.pc)[Here.src] = "stack"
    BY <1>1, Decisions
  <2> QED
    BY <1>1, <2>1, <2>2 DEF After, Defs, Place
<1> QED
  BY <1>1, <1>5, <1>6, <1>7, RegisterStep DEF Agree

\* A load from other memory reads what the machine program reads.
LEMMA PlainLoadKeeps ==
    ASSUME NEW d, Follows(prog, d), Inv(d), PlainLoad
    PROVE  Inv(d)'
<1>1. phase = "run" /\ Here.op = "ld" /\ How = "plain" /\ Here \in Instr(DOMAIN prog)
  BY Position DEF PlainLoad, At
<1>2. /\ Here.src \in Reg /\ Here.imm \in Int /\ MachineReg \in Value
      /\ MachineReg.kind = TypesAt(d, Top.pc)[Here.src] /\ MachineReg.kind # "stack"
  BY <1>1, Decisions
<1>3. PICK v \in Value : v = lifted.regs[Here.src] /\ Same(MachineReg, v)
  BY <1>1, <1>2, Registers DEF MachineReg
<1>4. MachineReg.kind = "data" /\ v.kind = "data" /\ v.n = MachineReg.n /\ v.n \in Int
  BY <1>2, <1>3, ValueIs DEF Same
<1>5. PICK n \in Int : n = v.n + Here.imm
  BY <1>2, <1>4
<1>6. MachineAddress = Data(n) /\ Add(v, Here.imm) = Data(n)
  <2>1. Add(v, Here.imm) = [kind |-> v.kind, n |-> v.n + Here.imm]
    BY <1>2, <1>3, Arithmetic
  <2>2. Add(v, Here.imm) = Data(n)
    BY <1>4, <1>5, <2>1 DEF Data
  <2>3. MachineAddress = Data(MachineReg.n + Here.imm)
    BY <1>2, Arithmetic DEF MachineAddress
  <2> QED
    BY <1>4, <1>5, <2>2, <2>3
<1>7. PICK m : m = Read(machine.mem, Data(n))
  OBVIOUS
<1>8. PICK l : l = Read(lifted.mem, Data(n))
  OBVIOUS
<1>9. Agree(m, l, d.data)
  BY <1>7, <1>8, Reads
<1>10. MachineLoads(m) /\ LiftedLoads(l) /\ Step
  BY <1>3, <1>6, <1>7, <1>8 DEF PlainLoad
<1>11. After(Here, TypesAt(d, Top.pc), d)[Here.dst] = d.data
  BY <1>1, <1>2 DEF After, Defs, Place, Instr
<1> QED
  BY <1>1, <1>9, <1>10, <1>11, RegisterStep DEF Agree

\* A result of its own is data in both programs.
LEMMA ResultKeeps ==
    ASSUME NEW d, Follows(prog, d), Inv(d), PlainResult
    PROVE  Inv(d)'
<1>1. phase = "run" /\ Here.op = "gen" /\ Here \in Instr(DOMAIN prog)
  BY Position DEF PlainResult, At
<1>2. PICK m \in Value : m = Data(Here.imm) /\ m.kind = "data"
  BY <1>1, Values DEF Instr
<1>3. Same(m, m)
  BY <1>2 DEF Same
<1>4. MachineLoads(m) /\ LiftedLoads(m) /\ Step
  BY <1>2 DEF PlainResult
<1>5. After(Here, TypesAt(d, Top.pc), d)[Here.dst] = "data"
  BY <1>1 DEF After, Defs, Instr
<1> QED
  BY <1>1, <1>2, <1>3, <1>4, <1>5, RegisterStep

\* An addition: to data plainly, to a stack address in elements.
LEMMA AddKeeps ==
    ASSUME RegBytes = 8, NEW d, Follows(prog, d), Inv(d), ScaledAdd \/ PlainAdd
    PROVE  Inv(d)'
<1>1. phase = "run" /\ Here.op = "addi" /\ Here \in Instr(DOMAIN prog)
  BY Position DEF ScaledAdd, PlainAdd, At
<1>2. /\ Here.src \in Reg /\ Here.imm \in Int /\ MachineReg \in Value
      /\ MachineReg.kind = TypesAt(d, Top.pc)[Here.src]
      /\ How # "plain" <=> MachineReg.kind = "stack"
      /\ How # "plain" => Here.imm % 8 = 0
  BY <1>1, Decisions
<1>3. PICK v \in Value : v = lifted.regs[Here.src] /\ Same(MachineReg, v)
  BY <1>1, <1>2, Registers DEF MachineReg
<1>4. /\ MachineReg.n \in Int /\ v.n \in Int /\ v.kind = MachineReg.kind
      /\ MachineReg.kind \in {"data", "stack"}
      /\ IF MachineReg.kind = "stack" THEN MachineReg.n = 8 * v.n ELSE MachineReg.n = v.n
  BY <1>2, <1>3, ValueIs DEF Same
<1>5. After(Here, TypesAt(d, Top.pc), d)[Here.dst] = MachineReg.kind
  BY <1>1, <1>2 DEF After, Defs, Instr
<1>6. CASE ScaledAdd
  <2>1. MachineReg.kind = "stack" /\ Here.imm % 8 = 0
    BY <1>2, <1>6 DEF ScaledAdd, At
  <2>2. PICK a \in Int : a = MachineReg.n
    BY <1>4
  <2>3. PICK b \in Int : b = Here.imm
    BY <1>2
  <2>4. PICK x \in Int : x = v.n
    BY <1>4
  <2>5. PICK q \in Int : q = Quotient(-b, 8) /\ 8 * q = -b
    BY <2>1, <2>3, Eighth
  <2>6. a - b = 8 * (x + q)
    BY <1>4, <2>1, <2>2, <2>4, <2>5
  <2>7. PICK m \in Value : m = Stack(a - b) /\ m.kind = "stack" /\ m.n = a - b
    BY Values
  <2>8. PICK l \in Value : l = Stack(x + q) /\ l.kind = "stack" /\ l.n = x + q
    BY Values
  <2>9. Same(m, l)
    BY <2>6, <2>7, <2>8 DEF Same
  <2>10. Plus(MachineReg, Here.imm) = m
    BY <1>2, <2>1, <2>2, <2>3, <2>7, Arithmetic
  <2>11. Scaled = x + q
    BY <1>3, <2>3, <2>4, <2>5 DEF Scaled
  <2>12. [v EXCEPT !.n = x + q] = l
    <3>1. [v EXCEPT !.n = x + q] = [kind |-> v.kind, n |-> x + q]
      BY Arithmetic
    <3> QED
      BY <1>4, <2>1, <2>8, <3>1 DEF Stack
  <2>13. MachineLoads(m) /\ LiftedLoads(l) /\ Step
    BY <1>3, <1>6, <2>10, <2>11, <2>12 DEF ScaledAdd
  <2> QED
    BY <1>1, <1>5, <2>1, <2>7, <2>9, <2>13, RegisterStep
<1>7. CASE PlainAdd
  <2>1. MachineReg.kind = "data"
    BY <1>2, <1>4, <1>7 DEF PlainAdd, At
  <2>2. PICK n \in Int : n = v.n + Here.imm
    BY <1>2, <1>4
  <2>3. PICK m \in Value : m = Data(n) /\ m.kind = "data"
    BY Values
  <2>4. Same(m, m)
    BY <2>3 DEF Same
  <2>5. Plus(MachineReg, Here.imm) = m
    BY <1>2, <1>4, <2>1, <2>2, <2>3, Arithmetic
  <2>6. Add(v, Here.imm) = m
    <3>1. Add(v, Here.imm) = [kind |-> v.kind, n |-> v.n + Here.imm]
      BY <1>2, <1>3, Arithmetic
    <3> QED
      BY <1>4, <2>1, <2>2, <2>3, <3>1 DEF Data
  <2>7. MachineLoads(m) /\ LiftedLoads(m) /\ Step
    BY <1>3, <1>7, <2>5, <2>6 DEF PlainAdd
  <2> QED
    BY <1>1, <1>5, <2>1, <2>3, <2>4, <2>7, RegisterStep
<1> QED
  BY <1>6, <1>7

\* What a store does to the machine's memory.
LEMMA MachineStores ==
    ASSUME NEW a, NEW v, DOMAIN machine = {"regs", "mem"},
           machine' = [machine EXCEPT !.mem = Write(@, a, v)]
    PROVE  /\ DOMAIN machine' = {"regs", "mem"} /\ machine'.regs = machine.regs
           /\ machine'.mem = Write(machine.mem, a, v)
OBVIOUS

\* A store goes on with the same registers; what is left to show is the memory.
LEMMA StoreStep ==
    ASSUME NEW d, Follows(prog, d), Inv(d), phase = "run", Here.op = "sd",
           NEW a \in Value, Aligned(a), NEW v,
           machine' = [machine EXCEPT !.mem = Write(@, a, v)],
           DOMAIN lifted' = {"regs", "stack", "mem"}, lifted'.regs = lifted.regs,
           \A n \in DOMAIN lifted'.stack : InStack(n), Step,
           MemoryAgrees(d)'
    PROVE  Inv(d)'
<1>1. Top.pc + 1 \in DOMAIN prog[Top.fn] /\ Top.pc \in Nat
  BY Position
<1>2. phase' = "run" /\ UNCHANGED <<prog, code, sptrack>> /\ Goto(Top.pc + 1)
  BY DEF Step
<1>3. /\ DOMAIN machine' = {"regs", "mem"} /\ machine'.regs = machine.regs
      /\ machine'.mem = Write(machine.mem, a, v)
  BY MachineStores DEF Inv, Shapes
<1>4. DOMAIN machine'.mem = {a} \cup DOMAIN machine.mem
  BY <1>3, ReadWritten
<1>5. \A b \in DOMAIN machine'.mem : b \in Value /\ Aligned(b)
  BY <1>4 DEF Inv, Shapes
<1>6. Shapes'
  BY <1>2, <1>3, <1>5 DEF Inv, Shapes, InStack, Aligned
<1>7. RegistersSame' /\ LiftedAs(d)' /\ StopsOutside'
  BY <1>2, <1>3 DEF Inv, RegistersSame, LiftedAs, Lifting, StopsOutside
<1>8. Below(Kinds', TypesAt(d, Top.pc + 1))
  BY <1>3, KeepsRegisters
<1>9. Running(d)'
  BY <1>1, <1>2, <1>8, Goes
<1> QED
  BY <1>6, <1>7, <1>9 DEF Inv

\* What is stored has the type of its place.
LEMMA Stored ==
    ASSUME NEW d, Follows(prog, d), Inv(d), phase = "run", Here.op = "sd"
    PROVE  /\ Here.src2 \in Reg
           /\ Agree(machine.regs[Here.src2], lifted.regs[Here.src2],
                    IF MachineReg.kind = "stack" THEN d.slots ELSE d.data)
<1>1. Here.src2 \in Reg
  BY Position DEF Instr
<1>2. PICK t : t = TypesAt(d, Top.pc)
  OBVIOUS
<1>3. Place(Here, t, d) \in {t[Here.src2], "any"}
  BY <1>2, Rules
<1>4. Place(Here, t, d) = IF MachineReg.kind = "stack" THEN d.slots ELSE d.data
  BY <1>2, Decisions DEF Place
<1> QED
  BY <1>1, <1>2, <1>3, <1>4, Registers DEF Agree

\* A store to the array writes where the machine program writes.
LEMMA StackStoreKeeps ==
    ASSUME RegBytes = 8, NEW d, Follows(prog, d), Inv(d), StackStore
    PROVE  Inv(d)'
<1>1. phase = "run" /\ Here.op = "sd" /\ How = "stack"
  BY DEF StackStore, At
<1>2. PICK n \in Int : n = StackIndex /\ MachineAddress = Stack(8 * n) /\ InStack(n)
  BY <1>1, StackPlace DEF StackStore
<1>3. PICK m : m = machine.regs[Here.src2]
  OBVIOUS
<1>4. PICK l : l = lifted.regs[Here.src2]
  OBVIOUS
<1>5. Agree(m, l, d.slots)
  <2>1. MachineReg.kind = "stack"
    BY <1>1, Decisions
  <2> QED
    BY <1>1, <1>3, <1>4, <2>1, Stored
<1>6. PICK a \in Value : a = Stack(8 * n) /\ a.kind = "stack" /\ Aligned(a)
  BY Values DEF Aligned
<1>7. machine' = [machine EXCEPT !.mem = Write(@, a, m)]
  BY <1>2, <1>3, <1>6 DEF StackStore
<1>8. /\ DOMAIN machine = {"regs", "mem"} /\ DOMAIN lifted = {"regs", "stack", "mem"}
      /\ \A k \in DOMAIN lifted.stack : InStack(k)
  BY DEF Inv, Shapes
<1>9. machine'.mem = Write(machine.mem, a, m)
  BY <1>7, <1>8, MachineStores
<1>10. lifted' = [lifted EXCEPT !.stack = Write(@, n, l)]
  BY <1>2, <1>4 DEF StackStore
<1>11. /\ DOMAIN lifted' = {"regs", "stack", "mem"} /\ lifted'.regs = lifted.regs
       /\ lifted'.stack = Write(lifted.stack, n, l) /\ lifted'.mem = lifted.mem
  BY <1>8, <1>10
<1>12. \A k \in DOMAIN lifted'.stack : InStack(k)
  <2>1. DOMAIN lifted'.stack = {n} \cup DOMAIN lifted.stack
    BY <1>11 DEF Read, Write
  <2> QED
    BY <1>2, <1>8, <2>1
<1>13. MemoryAgrees(d)'
  <2>1. ASSUME NEW k \in Int
        PROVE  Agree(Read(machine'.mem, Stack(8 * k)), Read(lifted'.stack, k), d.slots)
    <3>1. CASE k = n
      BY <3>1, <1>5, <1>6, <1>9, <1>11 DEF Read, Write
    <3>2. CASE k # n
      <4>1. Stack(8 * k) # a
        <5>1. Stack(8 * k).n = 8 * k /\ a.n = 8 * n
          BY <1>6, Values
        <5> QED
          BY <3>2, <5>1
      <4>2. Read(machine'.mem, Stack(8 * k)) = Read(machine.mem, Stack(8 * k))
        BY <4>1, <1>9 DEF Read, Write
      <4>3. Read(lifted'.stack, k) = Read(lifted.stack, k)
        BY <3>2, <1>11 DEF Read, Write
      <4> QED
        BY <4>2, <4>3, Reads
    <3> QED
      BY <3>1, <3>2
  <2>2. ASSUME NEW k \in Int
        PROVE  Agree(Read(machine'.mem, Data(k)), Read(lifted'.mem, Data(k)), d.data)
    <3>1. Data(k) # a
      BY <1>6, Values
    <3>2. Read(machine'.mem, Data(k)) = Read(machine.mem, Data(k))
      BY <3>1, <1>9 DEF Read, Write
    <3> QED
      BY <3>2, <1>11, Reads
  <2> QED
    BY <2>1, <2>2 DEF MemoryAgrees, Agree, Same
<1> QED
  BY <1>1, <1>6, <1>7, <1>11, <1>12, <1>13, StoreStep DEF StackStore

\* A store to other memory leaves the stack alone in both programs.
LEMMA PlainStoreKeeps ==
    ASSUME NEW d, Follows(prog, d), Inv(d), PlainStore
    PROVE  Inv(d)'
<1>1. phase = "run" /\ Here.op = "sd" /\ How = "plain"
  BY DEF PlainStore, At
<1>2. /\ Here.src \in Reg /\ Here.imm \in Int /\ MachineReg \in Value
      /\ MachineReg.kind # "stack"
  BY <1>1, Decisions
<1>3. PICK v \in Value : v = lifted.regs[Here.src] /\ Same(MachineReg, v)
  BY <1>1, <1>2, Registers DEF MachineReg
<1>4. MachineReg.kind = "data" /\ v.kind = "data" /\ v.n = MachineReg.n /\ v.n \in Int
  BY <1>2, <1>3, ValueIs DEF Same
<1>5. PICK n \in Int : n = v.n + Here.imm
  BY <1>2, <1>4
<1>6. MachineAddress = Data(n) /\ Add(v, Here.imm) = Data(n)
  <2>1. Add(v, Here.imm) = [kind |-> v.kind, n |-> v.n + Here.imm]
    BY <1>2, <1>3, Arithmetic
  <2>2. Add(v, Here.imm) = Data(n)
    BY <1>4, <1>5, <2>1 DEF Data
  <2>3. MachineAddress = Data(MachineReg.n + Here.imm)
    BY <1>2, Arithmetic DEF MachineAddress
  <2> QED
    BY <1>4, <1>5, <2>2, <2>3
<1>7. PICK m : m = machine.regs[Here.src2]
  OBVIOUS
<1>8. PICK l : l = lifted.regs[Here.src2]
  OBVIOUS
<1>9. Agree(m, l, d.data)
  BY <1>1, <1>4, <1>7, <1>8, Stored
<1>10. PICK a \in Value : a = Data(n) /\ a.kind = "data" /\ Aligned(a)
  BY Values DEF Aligned
<1>11. machine' = [machine EXCEPT !.mem = Write(@, a, m)]
  BY <1>6, <1>7, <1>10 DEF PlainStore
<1>12. /\ DOMAIN machine = {"regs", "mem"} /\ DOMAIN lifted = {"regs", "stack", "mem"}
       /\ \A k \in DOMAIN lifted.stack : InStack(k)
  BY DEF Inv, Shapes
<1>13. machine'.mem = Write(machine.mem, a, m)
  BY <1>11, <1>12, MachineStores
<1>14. lifted' = [lifted EXCEPT !.mem = Write(@, a, l)]
  BY <1>3, <1>6, <1>8, <1>10 DEF PlainStore
<1>15. /\ DOMAIN lifted' = {"regs", "stack", "mem"} /\ lifted'.regs = lifted.regs
       /\ lifted'.mem = Write(lifted.mem, a, l) /\ lifted'.stack = lifted.stack
  BY <1>12, <1>14
<1>16. MemoryAgrees(d)'
  <2>1. ASSUME NEW k \in Int
        PROVE  Agree(Read(machine'.mem, Stack(8 * k)), Read(lifted'.stack, k), d.slots)
    <3>1. Stack(8 * k) # a
      BY <1>10, Values
    <3>2. Read(machine'.mem, Stack(8 * k)) = Read(machine.mem, Stack(8 * k))
      BY <3>1, <1>13 DEF Read, Write
    <3> QED
      BY <3>2, <1>15, Reads
  <2>2. ASSUME NEW k \in Int
        PROVE  Agree(Read(machine'.mem, Data(k)), Read(lifted'.mem, Data(k)), d.data)
    <3>1. CASE k = n
      BY <3>1, <1>9, <1>10, <1>13, <1>15 DEF Read, Write
    <3>2. CASE k # n
      <4>1. Data(k) # a
        BY <3>2, <1>10, Values
      <4>2. Read(machine'.mem, Data(k)) = Read(machine.mem, Data(k))
        BY <4>1, <1>13 DEF Read, Write
      <4>3. Read(lifted'.mem, Data(k)) = Read(lifted.mem, Data(k))
        BY <4>1, <1>15 DEF Read, Write
      <4> QED
        BY <4>2, <4>3, Reads
    <3> QED
      BY <3>1, <3>2
  <2> QED
    BY <2>1, <2>2 DEF MemoryAgrees, Agree, Same
<1> QED
  BY <1>1, <1>10, <1>11, <1>12, <1>15, <1>16, StoreStep DEF PlainStore

\* Control transfers leave both programs' registers and memories alone.
LEMMA Untouched ==
    ASSUME NEW d, Inv(d), phase # "lift", phase' \in {"run", "done", "error"},
           UNCHANGED <<prog, code, sptrack, machine, lifted>>
    PROVE  /\ Shapes' /\ RegistersSame' /\ MemoryAgrees(d)' /\ LiftedAs(d)'
           /\ Kinds' = Kinds
<1>1. Shapes'
  BY DEF Inv, Shapes, InStack, Aligned
<1>2. RegistersSame' /\ Kinds' = Kinds
  BY DEF Inv, RegistersSame, Kinds
<1>3. MemoryAgrees(d)'
  BY DEF Inv, MemoryAgrees
<1>4. LiftedAs(d)'
  BY DEF Inv, LiftedAs, Lifting
<1> QED
  BY <1>1, <1>2, <1>3, <1>4

\* A run that leaves the array stops at the instruction that did.
LEMMA OverflowKeeps ==
    ASSUME NEW d, Follows(prog, d), Inv(d), StackOverflow
    PROVE  Inv(d)'
<1>1. /\ phase = "run" /\ phase' = "error" /\ How = "stack" /\ ~InStack(StackIndex)
      /\ UNCHANGED <<prog, code, sptrack, machine, lifted, calls>>
  BY DEF StackOverflow, Overflow
<1>2. Shapes' /\ RegistersSame' /\ MemoryAgrees(d)' /\ LiftedAs(d)' /\ Kinds' = Kinds
  BY <1>1, Untouched
<1>3. Running(d)'
  BY <1>1, <1>2 DEF Inv, Running, Top, Frame
<1>4. StopsOutside'
  BY <1>1 DEF StopsOutside, How, Here, Top, StackIndex, InStack
<1> QED
  BY <1>2, <1>3, <1>4 DEF Inv

\* The types hold at both ends of a branch.
LEMMA BranchKeeps ==
    ASSUME NEW d, Follows(prog, d), Inv(d), Branch
    PROVE  Inv(d)'
<1>1. /\ phase = "run" /\ phase' = "run" /\ Here.op = "cbr"
      /\ UNCHANGED <<prog, code, sptrack, machine, lifted>>
      /\ Goto(IF MachineReg.n = 0 THEN Here.to ELSE Top.pc + 1)
  BY DEF Branch, At
<1>2. Shapes' /\ RegistersSame' /\ MemoryAgrees(d)' /\ LiftedAs(d)' /\ Kinds' = Kinds
  BY <1>1, Untouched
<1>3. /\ Top.pc + 1 \in DOMAIN prog[Top.fn] /\ Top.pc \in Nat
      /\ Here.to \in DOMAIN prog[Top.fn] /\ Here.to \in Nat
      /\ Below(Kinds, TypesAt(d, Top.pc))
  BY <1>1, Position DEF Instr
<1>4. Below(Kinds', TypesAt(d, Top.pc + 1))
  BY <1>1, KeepsRegisters
<1>5. Below(Kinds', TypesAt(d, Here.to))
  <2>1. PICK t : t = TypesAt(d, Top.pc)
    OBVIOUS
  <2>2. Below(t, TypesAt(d, Here.to))
    BY <1>1, <2>1, Rules
  <2> QED
    BY <1>2, <1>3, <2>1, <2>2, BelowIsTransitive
<1>6. PICK q \in Nat : q = IF MachineReg.n = 0 THEN Here.to ELSE Top.pc + 1
  BY <1>3
<1>7. Goto(q) /\ q \in DOMAIN prog[Top.fn] /\ Below(Kinds', TypesAt(d, q))
  BY <1>1, <1>3, <1>4, <1>5, <1>6
<1>8. Running(d)'
  BY <1>1, <1>7, Goes
<1>9. StopsOutside'
  BY <1>1 DEF StopsOutside
<1> QED
  BY <1>2, <1>8, <1>9 DEF Inv

\* A callee starts with the types it needs; the caller waits for what it returns.
LEMMA CallKeeps ==
    ASSUME NEW d, Follows(prog, d), Inv(d), CallFunction
    PROVE  Inv(d)'
<1>1. /\ phase = "run" /\ phase' = "run" /\ Here.op = "call"
      /\ UNCHANGED <<prog, code, sptrack, machine, lifted>>
  BY DEF CallFunction, At
<1>2. Shapes' /\ RegistersSame' /\ MemoryAgrees(d)' /\ LiftedAs(d)' /\ Kinds' = Kinds
  BY <1>1, Untouched
<1>3. /\ \A f \in DOMAIN prog : Len(code[f]) = Len(prog[f])
      /\ calls \in Seq(Frame)
      /\ \A j \in DOMAIN calls : calls[j].pc \in DOMAIN prog[calls[j].fn]
      /\ \A j \in DOMAIN calls : j + 1 \in DOMAIN calls =>
            Below(d.returns[calls[j + 1].fn], d.types[calls[j].fn][calls[j].pc])
  BY <1>1 DEF Inv, Running
<1>4. PICK n \in Nat : n = Len(calls) /\ n > 0 /\ DOMAIN calls = 1..n
  BY <1>1, Position
<1>5. PICK g \in DOMAIN prog : g = Top.fn
  BY <1>1, Position
<1>6. PICK q \in Nat : q = Top.pc + 1 /\ q \in DOMAIN prog[g]
  BY <1>1, <1>5, Position
<1>7. PICK h \in DOMAIN prog : h = Here.callee /\ 1 \in DOMAIN prog[h]
  <2>1. prog \in Programs /\ Here.callee \in DOMAIN prog
    BY <1>1, Position DEF Inv, Shapes, Instr
  <2> QED
    BY <2>1, Instructions
<1>8. calls[n].fn = g
  BY <1>4, <1>5 DEF Top
<1>9. PICK waiting : waiting = [calls EXCEPT ![n] = [fn |-> g, pc |-> q]]
  OBVIOUS
<1>10. calls' = Append(waiting, [fn |-> h, pc |-> 1])
  BY <1>4, <1>5, <1>6, <1>7, <1>9 DEF CallFunction
<1>11. waiting \in Seq(Frame) /\ Len(waiting) = n
  <2>1. [fn |-> g, pc |-> q] \in Frame
    BY DEF Frame
  <2> QED
    BY <1>3, <1>4, <1>9, <2>1, ExceptSeq
<1>12. /\ calls' \in Seq(Frame) /\ Len(calls') = n + 1
       /\ calls'[n + 1] = [fn |-> h, pc |-> 1]
       /\ \A j \in 1..n : calls'[j] = waiting[j]
  <2>1. [fn |-> h, pc |-> 1] \in Frame
    BY DEF Frame
  <2> QED
    BY <1>10, <1>11, <2>1, AppendProperties
<1>13. /\ DOMAIN calls' = 1..(n + 1)
       /\ calls'[n] = [fn |-> g, pc |-> q]
       /\ \A j \in 1..(n - 1) : calls'[j] = calls[j]
       /\ \A j \in 1..n : calls'[j].fn = calls[j].fn
  <2>1. DOMAIN calls' = 1..(n + 1)
    BY <1>12, LenProperties
  <2>2. waiting[n] = [fn |-> g, pc |-> q] /\ \A j \in 1..(n - 1) : waiting[j] = calls[j]
    BY <1>4, <1>9
  <2>3. n \in 1..n /\ \A j \in 1..(n - 1) : j \in 1..n
    BY <1>4
  <2>4. calls'[n] = [fn |-> g, pc |-> q] /\ \A j \in 1..(n - 1) : calls'[j] = calls[j]
    BY <1>12, <2>2, <2>3
  <2>5. \A j \in 1..n : j = n \/ j \in 1..(n - 1)
    BY <1>4
  <2>6. \A j \in 1..n : calls'[j].fn = calls[j].fn
    BY <1>8, <2>4, <2>5
  <2> QED
    BY <2>1, <2>4, <2>6
<1>14. Top' = [fn |-> h, pc |-> 1] /\ calls' # << >>
  BY <1>12, EmptySeq DEF Top
<1>15. \A j \in 1..(n + 1) : calls'[j].pc \in DOMAIN prog[calls'[j].fn]
  <2> SUFFICES ASSUME NEW j \in 1..(n + 1)
               PROVE  calls'[j].pc \in DOMAIN prog[calls'[j].fn]
    OBVIOUS
  <2>1. CASE j = n + 1
    BY <2>1, <1>7, <1>12
  <2>2. CASE j = n
    BY <2>2, <1>6, <1>13
  <2>3. CASE j \in 1..(n - 1)
    <3>1. j \in DOMAIN calls /\ calls'[j] = calls[j]
      BY <2>3, <1>4, <1>13
    <3>2. calls[j].pc \in DOMAIN prog[calls[j].fn]
      BY <3>1, <1>3
    <3> QED
      BY <3>1, <3>2
  <2> QED
    BY <2>1, <2>2, <2>3
<1>16. PICK t : t = TypesAt(d, Top.pc)
  OBVIOUS
<1>17. Below(t, d.types[h][1]) /\ Below(d.returns[h], d.types[g][q])
  BY <1>1, <1>5, <1>6, <1>7, <1>16, Rules DEF TypesAt
<1>18. Below(Kinds, d.types[h][1])
  <2>1. Below(Kinds, t)
    BY <1>1, <1>16, Position
  <2> QED
    BY <2>1, <1>17, BelowIsTransitive
<1>19. \A j \in 1..(n + 1) : j + 1 \in 1..(n + 1) =>
            Below(d.returns[calls'[j + 1].fn], d.types[calls'[j].fn][calls'[j].pc])
  <2> SUFFICES ASSUME NEW j \in 1..n
               PROVE  Below(d.returns[calls'[j + 1].fn], d.types[calls'[j].fn][calls'[j].pc])
    OBVIOUS
  <2>1. CASE j = n
    BY <2>1, <1>12, <1>13, <1>17
  <2>2. CASE j \in 1..(n - 1)
    <3>1. j + 1 \in 1..n /\ calls'[j + 1].fn = calls[j + 1].fn /\ calls'[j] = calls[j]
      BY <2>2, <1>13
    <3> QED
      BY <2>2, <3>1, <1>3, <1>4
  <2> QED
    BY <2>1, <2>2
<1>20. Frame' = Frame
  BY <1>1 DEF Frame
<1>21. Running(d)'
  BY <1>1, <1>2, <1>3, <1>12, <1>13, <1>14, <1>15, <1>18, <1>19, <1>20 DEF Running
<1>22. StopsOutside'
  BY <1>1 DEF StopsOutside
<1> QED
  BY <1>2, <1>21, <1>22 DEF Inv

\* A return leaves the types its caller waits for.
LEMMA ReturnKeeps ==
    ASSUME NEW d, Follows(prog, d), Inv(d), Return
    PROVE  Inv(d)'
<1>1. /\ phase = "run" /\ phase' = IF Len(calls) = 1 THEN "done" ELSE "run"
      /\ Here.op = "ret" /\ calls' = SubSeq(calls, 1, Len(calls) - 1)
      /\ UNCHANGED <<prog, code, sptrack, machine, lifted>>
  BY DEF Return, At
<1>2. Shapes' /\ RegistersSame' /\ MemoryAgrees(d)' /\ LiftedAs(d)' /\ Kinds' = Kinds
  BY <1>1, Untouched
<1>3. /\ \A f \in DOMAIN prog : Len(code[f]) = Len(prog[f])
      /\ calls \in Seq(Frame)
      /\ \A j \in DOMAIN calls : calls[j].pc \in DOMAIN prog[calls[j].fn]
      /\ \A j \in DOMAIN calls : j + 1 \in DOMAIN calls =>
            Below(d.returns[calls[j + 1].fn], d.types[calls[j].fn][calls[j].pc])
  BY <1>1 DEF Inv, Running
<1>4. PICK n \in Nat : n = Len(calls) /\ n > 0 /\ DOMAIN calls = 1..n
  BY <1>1, Position
<1>5. ASSUME n # 1 PROVE Running(d)'
  <2>1. /\ calls' \in Seq(Frame) /\ Len(calls') = n - 1 /\ DOMAIN calls' = 1..(n - 1)
        /\ \A j \in 1..(n - 1) : calls'[j] = calls[j]
    BY <1>1, <1>3, <1>4, <1>5, SubSeqProperties
  <2>2. Top' = calls[n - 1] /\ calls' # << >>
    BY <2>1, <1>4, <1>5, EmptySeq DEF Top
  <2>3. PICK t : t = TypesAt(d, Top.pc)
    OBVIOUS
  <2>4. Below(Kinds, t) /\ Below(t, d.returns[calls[n].fn])
    BY <1>1, <1>4, <2>3, Position, Rules DEF Top
  <2>5. Below(d.returns[calls[n].fn], d.types[calls[n - 1].fn][calls[n - 1].pc])
    <3>1. n - 1 \in 1..n /\ (n - 1) + 1 = n /\ n \in 1..n
      BY <1>4, <1>5
    <3> QED
      BY <3>1, <1>3, <1>4
  <2>6. Below(Kinds, d.types[calls[n - 1].fn][calls[n - 1].pc])
    BY <2>4, <2>5, BelowIsTransitive
  <2>7. \A j \in 1..(n - 1) : calls'[j].pc \in DOMAIN prog[calls'[j].fn]
    <3> SUFFICES ASSUME NEW j \in 1..(n - 1)
                 PROVE  calls'[j].pc \in DOMAIN prog[calls'[j].fn]
      OBVIOUS
    <3>1. j \in DOMAIN calls /\ calls'[j] = calls[j]
      BY <1>4, <2>1
    <3>2. calls[j].pc \in DOMAIN prog[calls[j].fn]
      BY <3>1, <1>3
    <3> QED
      BY <3>1, <3>2
  <2>8. \A j \in 1..(n - 1) : j + 1 \in 1..(n - 1) =>
            Below(d.returns[calls'[j + 1].fn], d.types[calls'[j].fn][calls'[j].pc])
    <3> SUFFICES ASSUME NEW j \in 1..(n - 1), j + 1 \in 1..(n - 1)
                 PROVE  Below(d.returns[calls'[j + 1].fn],
                              d.types[calls'[j].fn][calls'[j].pc])
      OBVIOUS
    <3>1. j \in DOMAIN calls /\ j + 1 \in DOMAIN calls
      BY <1>4
    <3>2. calls'[j] = calls[j] /\ calls'[j + 1] = calls[j + 1]
      BY <2>1
    <3> QED
      BY <3>1, <3>2, <1>3
  <2>9. Frame' = Frame
    BY <1>1 DEF Frame
  <2> QED
    BY <1>1, <1>2, <1>3, <2>1, <2>2, <2>6, <2>7, <2>8, <2>9 DEF Running
<1>6. Running(d)'
  BY <1>1, <1>4, <1>5 DEF Running
<1>7. StopsOutside'
  BY <1>1 DEF StopsOutside
<1> QED
  BY <1>2, <1>6, <1>7 DEF Inv

-----------------------------------------------------------------------------
(* The theorems *)

\* Every step of a disciplined program keeps the invariant.
LEMMA StepKeeps ==
    ASSUME RegBytes = 8, NEW d, Follows(prog, d), Inv(d), [Next]_vars
    PROVE  Follows(prog', d) /\ Inv(d)'
<1>1. CASE \E f \in DOMAIN prog :
            LiftStackManipulation(f) \/ LiftStackPointerModification(f) \/ LiftOther(f)
  <2>1. PICK f \in DOMAIN prog :
            LiftStackManipulation(f) \/ LiftStackPointerModification(f) \/ LiftOther(f)
    BY <1>1
  <2>2. prog' = prog
    BY <2>1 DEF LiftStackManipulation, LiftStackPointerModification, LiftOther, Generate
  <2> QED
    BY <2>1, <2>2, LiftKeeps
<1>2. CASE HostCall
  BY <1>2, HostCallKeeps DEF HostCall
<1>3. CASE StackLoad
  BY <1>3, StackLoadKeeps DEF StackLoad, Step
<1>4. CASE StackStore
  BY <1>4, StackStoreKeeps DEF StackStore, Step
<1>5. CASE StackOverflow
  BY <1>5, OverflowKeeps DEF StackOverflow, Overflow
<1>6. CASE ScaledAdd \/ PlainAdd
  BY <1>6, AddKeeps DEF ScaledAdd, PlainAdd, Step
<1>7. CASE PlainResult
  BY <1>7, ResultKeeps DEF PlainResult, Step
<1>8. CASE PlainLoad
  BY <1>8, PlainLoadKeeps DEF PlainLoad, Step
<1>9. CASE PlainStore
  BY <1>9, PlainStoreKeeps DEF PlainStore, Step
<1>10. CASE Branch
  BY <1>10, BranchKeeps DEF Branch
<1>11. CASE CallFunction
  BY <1>11, CallKeeps DEF CallFunction
<1>12. CASE Return
  BY <1>12, ReturnKeeps DEF Return
<1>13. CASE UNCHANGED vars
  <2> USE <1>13 DEF vars
  <2>1. Shapes' /\ LiftedAs(d)'
    BY DEF Inv, Shapes, InStack, Aligned, LiftedAs, Lifting
  <2>2. RegistersSame' /\ MemoryAgrees(d)'
    BY DEF Inv, RegistersSame, MemoryAgrees
  <2>3. Running(d)'
    BY DEF Inv, Running, Top, Kinds, Frame
  <2>4. StopsOutside'
    BY DEF Inv, StopsOutside, How, Top, StackIndex, Here, InStack
  <2> QED
    BY <2>1, <2>2, <2>3, <2>4 DEF Inv
<1> QED
  BY <1>1, <1>2, <1>3, <1>4, <1>5, <1>6, <1>7, <1>8, <1>9, <1>10, <1>11, <1>12, <1>13
  DEF Next

\* The inductive invariant holds of all runs of a disciplined program.
LEMMA InductiveInvariant ==
    ASSUME RegBytes = 8
    PROVE  Spec /\ Disciplined(prog) => []Inductive
<1>1. Init /\ Disciplined(prog) => Inductive
  BY InitialState DEF Disciplined, Inductive
<1>2. Inductive /\ [Next]_vars => Inductive'
  <2> SUFFICES ASSUME Inductive, [Next]_vars PROVE Inductive'
    OBVIOUS
  <2>1. PICK d : Follows(prog, d) /\ Inv(d)
    BY DEF Inductive
  <2>2. Follows(prog', d) /\ Inv(d)'
    BY <2>1, StepKeeps
  <2> QED
    BY <2>2 DEF Inductive
<1> QED
  BY <1>1, <1>2, PTL DEF Spec

\* The shapes of the state: the tracker holds registers, among them the stack
\* pointer, and the array is only written inside (lifter.hpp, 130-146;
\* lifter.cpp, 895-965).
THEOREM TypesKept ==
    ASSUME RegBytes = 8
    PROVE  Spec /\ Disciplined(prog) => []TypeOK
<1>1. Inductive => TypeOK
  <2> SUFFICES ASSUME Inductive PROVE TypeOK
    OBVIOUS
  <2>1. Shapes
    BY DEF Inductive, Inv
  <2>2. \A r \in Reg : machine.regs[r] \in Value /\ lifted.regs[r] \in Value
    BY <2>1 DEF Shapes
  <2>3. \A r \in Reg : IsValue(machine.regs[r]) /\ IsValue(lifted.regs[r])
    BY <2>2, ValueIs DEF IsValue
  <2>4. \A f \in DOMAIN code : code[f] \in Seq(Hows)
    BY <2>1 DEF Shapes
  <2> QED
    BY <2>1, <2>3, <2>4 DEF TypeOK, Shapes, Hows
<1>2. Spec /\ Disciplined(prog) => []Inductive
  BY InductiveInvariant
<1> QED
  BY <1>1, <1>2, PTL

\* In every state of a run the registers, the stack and the rest of the memory
\* of the lifted program hold what the machine program's do (lifter.cpp, 876-1003).
THEOREM StackSimulated ==
    ASSUME RegBytes = 8
    PROVE  Spec /\ Disciplined(prog) => []Simulates
<1>1. Inductive => Simulates
  <2> SUFFICES ASSUME Inductive PROVE Simulates
    OBVIOUS
  <2>1. PICK d : Inv(d)
    BY DEF Inductive
  <2> SUFFICES ASSUME NEW a \in DOMAIN machine.mem
               PROVE  Same(machine.mem[a],
                           IF a.kind = "stack"
                           THEN Read(lifted.stack, Quotient(a.n, RegBytes))
                           ELSE Read(lifted.mem, a))
    BY <2>1 DEF Simulates, Inv
  <2>2. a \in Value /\ Aligned(a)
    BY <2>1 DEF Inv, Shapes
  <2>3. Read(machine.mem, a) = machine.mem[a]
    BY DEF Read
  <2>4. CASE a.kind = "stack"
    <3>1. PICK n \in Int : a = Stack(8 * n)
      BY <2>2, <2>4 DEF Aligned
    <3>2. Quotient(a.n, RegBytes) = n
      <4>1. a.n = 8 * n
        BY <3>1, Values
      <4> QED
        BY <4>1, EighthOf
    <3>3. Same(Read(machine.mem, a), Read(lifted.stack, n))
      BY <2>1, <3>1, Reads DEF Agree
    <3> QED
      BY <2>3, <2>4, <3>2, <3>3
  <2>5. CASE a.kind # "stack"
    <3>1. PICK n \in Int : a = Data(n)
      BY <2>2, <2>5, ValueIs
    <3>2. Same(Read(machine.mem, a), Read(lifted.mem, a))
      BY <2>1, <3>1, Reads DEF Agree
    <3> QED
      BY <2>3, <2>5, <3>2
  <2> QED
    BY <2>4, <2>5
<1>2. Spec /\ Disciplined(prog) => []Inductive
  BY InductiveInvariant
<1> QED
  BY <1>1, <1>2, PTL

\* Every decision of the lifter is right whenever the instruction runs: the stack is
\* used exactly where the machine program uses a stack address (lifter.cpp,
\* 1005-1018 and 1160-1222).
THEOREM DecisionsExact ==
    ASSUME RegBytes = 8
    PROVE  Spec /\ Disciplined(prog) => []TrackingExact
<1>1. Inductive => TrackingExact
  <2> SUFFICES ASSUME Inductive, phase = "run", Here.op \in {"addi", "ld", "sd"}
               PROVE  How # "plain" <=> MachineReg.kind = "stack"
    BY DEF TrackingExact
  <2>1. PICK d : Follows(prog, d) /\ Inv(d)
    BY DEF Inductive
  <2> QED
    BY <2>1, Decisions
<1>2. Spec /\ Disciplined(prog) => []Inductive
  BY InductiveInvariant
<1> QED
  BY <1>1, <1>2, PTL

\* An access leaves the array only when the machine program's would leave
\* the --stack-size bytes below where its stack starts (lifter.cpp, 501-510).
THEOREM OverflowsFull ==
    ASSUME RegBytes = 8
    PROVE  Spec /\ Disciplined(prog) => []OverflowsOnlyWhenFull
<1>1. Inductive => OverflowsOnlyWhenFull
  <2> SUFFICES ASSUME Inductive, phase = "error",
                      MachineAddress.n \in 0..(StackBytes - RegBytes)
               PROVE  FALSE
    BY DEF OverflowsOnlyWhenFull
  <2>1. PICK d : Follows(prog, d) /\ Inv(d)
    BY DEF Inductive
  <2>2. How = "stack" /\ ~InStack(StackIndex)
    BY <2>1 DEF Inv, StopsOutside
  <2>3. Here.op \in {"ld", "sd"}
    BY <2>1, <2>2, Position DEF HowOf, Manipulates
  <2>4. PICK n \in Int : n = StackIndex /\ MachineAddress = Stack(8 * n)
    BY <2>1, <2>2, <2>3, StackPlace
  <2>5. 8 * n \in 0..(StackBytes - 8)
    BY <2>4, Values
  <2>6. PICK s \in Nat : s = StackBytes
    BY StackAssumption
  <2>7. n \in 0..(s \div 8 - 1)
    BY <2>5, <2>6
  <2> QED
    BY <2>2, <2>4, <2>6, <2>7 DEF InStack
<1>2. Spec /\ Disciplined(prog) => []Inductive
  BY InductiveInvariant
<1> QED
  BY <1>1, <1>2, PTL

=============================================================================
