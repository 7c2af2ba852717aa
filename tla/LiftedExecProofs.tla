-------------------------- MODULE LiftedExecProofs --------------------------
(***************************************************************************)
(* Theorems about StateStruct, for every set of classes, and LiftedExec,   *)
(* for every program, register file and depth; the last is that it         *)
(* implements Machine.                                                     *)
(***************************************************************************)
EXTENDS LiftedExec, FiniteSetTheorems, SequenceTheorems, TLAPS

-----------------------------------------------------------------------------
(* The three places that compute the element of the struct a register is   *)
(* kept in agree, for every set of classes, registers and sub-registers.   *)

\* A register's rank among finitely many registers is a natural number.
LEMMA RankType ==
    ASSUME NEW S \in SUBSET Nat, IsFiniteSet(S), NEW r \in Nat
    PROVE  /\ Rank(r, S) \in Nat
           /\ IsFiniteSet({q \in S : q < r})
  <1>1. {q \in S : q < r} \in SUBSET S
    OBVIOUS
  <1>2. IsFiniteSet({q \in S : q < r})
    BY <1>1, FS_Subset
  <1>. QED
    BY <1>2, FS_CardinalityType DEF Rank

\* Ranks are ordered as the registers are.
LEMMA RankMonotone ==
    ASSUME NEW S \in SUBSET Nat, IsFiniteSet(S),
           NEW q \in S, NEW r \in S, q < r
    PROVE  Rank(q, S) < Rank(r, S)
  <1>. DEFINE T == {x \in S : x < q}
              U == {x \in S : x < r}
  <1>1. T \in SUBSET U
    <2>1. q \in Nat /\ r \in Nat /\ \A x \in S : x \in Nat
      OBVIOUS
    <2>2. \A x \in S : x < q => x < r
      BY <2>1
    <2>. QED
      BY <2>2
  <1>2. q \in U /\ q \notin T
    BY q \in Nat
  <1>3. /\ IsFiniteSet(U)
        /\ Cardinality(T) \in Nat
        /\ Cardinality(U) \in Nat
    BY RankType, q \in Nat, r \in Nat DEF Rank
  <1>4. /\ Cardinality(T) <= Cardinality(U)
        /\ Cardinality(U) = Cardinality(T) => U = T
    BY ONLY <1>1, <1>3, FS_Subset
  <1>5. Cardinality(T) < Cardinality(U)
    BY <1>2, <1>3, <1>4
  <1>. QED
    BY <1>5 DEF Rank

\* No two registers of a class share an element.
LEMMA RankInjective ==
    ASSUME NEW S \in SUBSET Nat, IsFiniteSet(S),
           NEW q \in S, NEW r \in S, Rank(q, S) = Rank(r, S)
    PROVE  q = r
  <1>1. q \in Nat /\ r \in Nat /\ Rank(q, S) \in Nat
    BY RankType
  <1>2. ~(q < r) /\ ~(r < q)
    BY <1>1, RankMonotone
  <1>. QED
    BY <1>1, <1>2

\* Every register is in exactly one class.
LEMMA ClassOfRegister ==
    ASSUME NEW r \in Reg
    PROVE  /\ ClassOf(r) \in Class
           /\ r \in RegsOf[ClassOf(r)]
           /\ \A c \in Class : r \in RegsOf[c] => c = ClassOf(r)
  <1>1. ClassOf(r) \in Class /\ r \in RegsOf[ClassOf(r)]
    BY ClassAssumption DEF ClassOf
  <1>2. ASSUME NEW c \in Class, r \in RegsOf[c]
        PROVE  c = ClassOf(r)
    BY <1>1, <1>2, ClassAssumption
  <1>. QED
    BY <1>1, <1>2

\* The filter over the register map leaves the registers of the class and no
\* sub-register.
LEMMA KeysAreRegisters ==
    ASSUME NEW c \in Class
    PROVE  /\ KeysOf(c) = RegsOf[c]
           /\ KeysOf(c) \in SUBSET Nat
           /\ IsFiniteSet(KeysOf(c))
           /\ \A k \in KeysOf(c) : k \in Reg /\ Rmap[k] = k
  <1>1. RegsOf[c] \in SUBSET Reg /\ IsFiniteSet(RegsOf[c]) /\ Reg \subseteq Nat
    BY ClassAssumption, RegisterAssumption
  <1>2. DOMAIN Rmap = Reg \cup DOMAIN RootOf /\ \A k \in Reg : Rmap[k] = k
    BY DEF Rmap
  <1>3. KeysOf(c) = RegsOf[c]
    BY <1>1, <1>2 DEF KeysOf
  <1>. QED
    BY <1>1, <1>2, <1>3

\* The prologue reads slots of the struct only.
LEMMA SlotOfRegister ==
    ASSUME NEW r \in Reg
    PROVE  <<ClassOf(r), Rank(r, RegsOf[ClassOf(r)])>> \in Slot
  BY ClassOfRegister DEF Slot

\* Loading the registers from any struct yields a register file.
LEMMA MaterializeType ==
    ASSUME NEW st \in StateType
    PROVE  MaterializeRegisters(st) \in [Reg -> Val]
  BY SlotOfRegister DEF MaterializeRegisters, StateType

\* Every slot is written by a save, with a register's alloca.
LEMMA SaveType ==
    ASSUME NEW st \in StateType, NEW loc \in [Reg -> Val]
    PROVE  SaveRegisters(st, loc) \in StateType
  <1>. SUFFICES ASSUME NEW slot \in Slot
                PROVE  SaveRegisters(st, loc)[slot] \in Val
    BY DEF SaveRegisters, StateType
  <1>. DEFINE Keys == KeysOf(slot[1])
              Written == {k \in Keys : Rank(k, Keys) = slot[2]}
  <1>1. SaveRegisters(st, loc)[slot] =
          IF Written = {} THEN st[slot]
                          ELSE loc[Rmap[CHOOSE k \in Written : TRUE]]
    BY DEF SaveRegisters
  <1>2. slot[1] \in Class
    BY DEF Slot
  <1>3. CASE Written = {}
    BY <1>1, <1>3 DEF StateType
  <1>4. CASE Written # {}
    <2>1. PICK k \in Written : k = (CHOOSE x \in Written : TRUE)
      BY <1>4
    <2>2. k \in Reg /\ Rmap[k] = k
      BY <1>2, KeysAreRegisters
    <2>. QED
      BY <1>1, <1>4, <2>1, <2>2
  <1>. QED
    BY <1>3, <1>4

-----------------------------------------------------------------------------

\* What a save writes to the slot of a register is that register's alloca:
\* the copy and the prologue number the registers alike.
LEMMA SaveWritesSlot ==
    ASSUME NEW st \in StateType, NEW loc \in [Reg -> Val], NEW r \in Reg
    PROVE  SaveRegisters(st, loc)[<<ClassOf(r), Rank(r, RegsOf[ClassOf(r)])>>]
             = loc[r]
  <1>. DEFINE c == ClassOf(r)
              slot == <<c, Rank(r, RegsOf[c])>>
              Keys == KeysOf(c)
              Written == {k \in Keys : Rank(k, Keys) = Rank(r, RegsOf[c])}
  <1>1. c \in Class /\ r \in RegsOf[c]
    BY ClassOfRegister
  <1>2. /\ Keys = RegsOf[c]
        /\ Keys \in SUBSET Nat
        /\ IsFiniteSet(Keys)
        /\ \A k \in Keys : k \in Reg /\ Rmap[k] = k
    BY <1>1, KeysAreRegisters
  <1>3. Written = {r}
    <2>1. r \in Written
      BY <1>1, <1>2
    <2>2. \A k \in Written : k = r
      BY <1>1, <1>2, RankInjective
    <2>. QED
      BY <2>1, <2>2
  <1>4. SaveRegisters(st, loc)[slot] =
          IF Written = {} THEN st[slot]
                          ELSE loc[Rmap[CHOOSE k \in Written : TRUE]]
    BY SlotOfRegister DEF SaveRegisters
  <1>5. (CHOOSE k \in Written : TRUE) = r
    BY <1>3
  <1>. QED
    BY <1>1, <1>2, <1>3, <1>4, <1>5

\* What one activation saves is what the next prologue materializes: no register
\* is lost, swapped or duplicated by going through the struct.
THEOREM RoundTrip ==
    ASSUME NEW st \in StateType, NEW loc \in [Reg -> Val]
    PROVE  MaterializeRegisters(SaveRegisters(st, loc)) = loc
  BY SaveWritesSlot DEF MaterializeRegisters

\* A load after a call reads what a prologue would: the allocas of the caller
\* are all replaced.
THEOREM LoadIsMaterialize ==
    ASSUME NEW st \in StateType, NEW loc \in [Reg -> Val]
    PROVE  LoadRegisters(st, loc) = MaterializeRegisters(st)
  <1>. SUFFICES ASSUME NEW r \in Reg
                PROVE  LoadRegisters(st, loc)[r] = MaterializeRegisters(st)[r]
    BY DEF LoadRegisters, MaterializeRegisters
  <1>. DEFINE Loads == {l \in Class \X DOMAIN Rmap :
                          l[2] \in KeysOf(l[1]) /\ Rmap[l[2]] = r}
              load == CHOOSE l \in Loads : TRUE
  <1>1. LoadRegisters(st, loc)[r] =
          IF Loads = {} THEN loc[r]
          ELSE st[<<load[1], Rank(load[2], KeysOf(load[1]))>>]
    BY DEF LoadRegisters
  <1>2. ClassOf(r) \in Class /\ KeysOf(ClassOf(r)) = RegsOf[ClassOf(r)]
    BY ClassOfRegister, KeysAreRegisters
  <1>3. r \in KeysOf(ClassOf(r)) /\ r \in DOMAIN Rmap /\ Rmap[r] = r
    BY <1>2, ClassOfRegister DEF Rmap
  <1>4. <<ClassOf(r), r>> \in Loads
    BY <1>2, <1>3
  <1>5. ASSUME NEW l \in Loads
        PROVE  l = <<ClassOf(r), r>>
    <2>1. PICK c \in Class, k \in DOMAIN Rmap :
            l = <<c, k>> /\ k \in KeysOf(c) /\ Rmap[k] = r
      OBVIOUS
    <2>2. k = r /\ r \in RegsOf[c]
      BY <2>1, KeysAreRegisters
    <2>. QED
      BY <2>1, <2>2, ClassOfRegister
  <1>6. load = <<ClassOf(r), r>>
    BY <1>4, <1>5
  <1>. HIDE DEF load
  <1>7. LoadRegisters(st, loc)[r] =
          st[<<load[1], Rank(load[2], KeysOf(load[1]))>>]
    BY <1>1, <1>4
  <1>. QED
    BY <1>2, <1>6, <1>7 DEF MaterializeRegisters

-----------------------------------------------------------------------------
(* The program and its operands.                                           *)

\* Instructions are well typed, and one that falls through is not the last.
LEMMA CodeFacts ==
    ASSUME NEW f \in Fn, NEW pc \in Nat, pc # 0, pc <= Len(Code[f])
    PROVE  /\ Len(Code[f]) \in Nat
           /\ pc \in DOMAIN Code[f]
           /\ Code[f][pc] \in Instr
           /\ OpAt(f, pc) = Code[f][pc].op
           /\ Code[f][pc].op \in {"alu", "cbr"} => pc + 1 <= Len(Code[f])
           /\ Code[f][pc].op \in {"cbr", "jmp"} =>
                Code[f][pc].to \in Nat /\ Code[f][pc].to <= Len(Code[f])
           /\ ~EndsBlock(f, pc) => pc + 1 <= Len(Code[f])
  <1>1. Code[f] \in Seq(Instr)
    BY ProgramAssumption
  <1>2. /\ Len(Code[f]) \in Nat
        /\ DOMAIN Code[f] = 1..Len(Code[f])
    BY <1>1, LenProperties
  <1>3. pc \in 1..Len(Code[f]) /\ Code[f][pc] \in Instr
    BY <1>1, <1>2, ElementOfSeq
  <1>4. Code[f][pc].op \in {"alu", "cbr"} => pc # Len(Code[f])
    BY ProgramAssumption
  <1>5. Code[f][pc].op \in {"cbr", "jmp"} => Code[f][pc].to \in DOMAIN Code[f]
    BY <1>2, <1>3, ProgramAssumption
  <1>. QED
    BY <1>2, <1>3, <1>4, <1>5 DEF OpAt, EndsBlock

\* Every function has an instruction to start with.
LEMMA CodeNonEmpty ==
    ASSUME NEW f \in Fn
    PROVE  Len(Code[f]) \in Nat /\ 1 <= Len(Code[f])
  <1>1. Code[f] \in Seq(Instr) /\ Code[f] # << >>
    BY ProgramAssumption
  <1>. QED
    BY <1>1, EmptySeq

\* Reading an operand gives a value, writing one a register file; and a
\* file that holds the constants still does.
LEMMA ReadWrite ==
    ASSUME NEW regs \in [Reg -> Val], NEW r \in Reg, NEW v \in Val
    PROVE  /\ ReadReg(regs, r) \in Val
           /\ WriteReg(regs, r, v) \in [Reg -> Val]
           /\ regs \in RegFile => WriteReg(regs, r, v) \in RegFile
  <1>1. \A q \in DOMAIN ConstVal : q \in Reg /\ ConstVal[q] \in Val
    BY RegisterAssumption
  <1>2. ReadReg(regs, r) \in Val
    BY <1>1 DEF ReadReg
  <1>3. WriteReg(regs, r, v) \in [Reg -> Val]
    BY <1>1 DEF WriteReg
  <1>4. ASSUME regs \in RegFile, NEW q \in DOMAIN ConstVal
        PROVE  WriteReg(regs, r, v)[q] = ConstVal[q]
    BY <1>1, <1>4 DEF WriteReg, RegFile
  <1>. QED
    BY <1>2, <1>3, <1>4 DEF RegFile

-----------------------------------------------------------------------------
(* Stacks of activations.                                                  *)

\* The running activation is a frame of the stack.
LEMMA TopFrame ==
    ASSUME NEW S, NEW fs \in Seq(S), fs # << >>
    PROVE  /\ Len(fs) \in Nat \ {0}
           /\ Len(fs) \in 1..Len(fs)
           /\ fs[Len(fs)] \in S
  BY EmptySeq, ElementOfSeq

\* A step that replaces the running activation.
LEMMA ReplaceTop ==
    ASSUME NEW S, NEW fs \in Seq(S), fs # << >>, NEW fr \in S
    PROVE  LET t == [fs EXCEPT ![Len(fs)] = fr]
           IN  /\ t \in Seq(S)
               /\ Len(t) = Len(fs)
               /\ t # << >>
               /\ t[Len(t)] = fr
               /\ \A i \in 1..Len(fs) : t[i] = IF i = Len(fs) THEN fr ELSE fs[i]
  <1>1. Len(fs) \in 1..Len(fs) /\ Len(fs) \in Nat \ {0}
    BY TopFrame
  <1>. QED
    BY <1>1, ExceptSeq, EmptySeq

\* A step that ends the running activation.
LEMMA PopTop ==
    ASSUME NEW S, NEW fs \in Seq(S), fs # << >>
    PROVE  LET t == SubSeq(fs, 1, Len(fs) - 1)
           IN  /\ t \in Seq(S)
               /\ Len(t) = Len(fs) - 1
               /\ t = << >> <=> Len(fs) = 1
               /\ \A i \in 1..Len(t) : t[i] = fs[i]
  <1>. DEFINE n == Len(fs) - 1
              t == SubSeq(fs, 1, n)
  <1>1. Len(fs) \in Nat \ {0} /\ n \in Nat
    BY TopFrame
  <1>2. \A i \in 1..n : fs[i] \in S
    BY <1>1, ElementOfSeq
  <1>3. /\ t \in Seq(S)
        /\ Len(t) = IF 1 <= n THEN n - 1 + 1 ELSE 0
        /\ \A i \in 1..(n - 1 + 1) : t[i] = fs[1 + i - 1]
    BY <1>1, <1>2, SubSeqProperties
  <1>. HIDE DEF t, n
  <1>4. Len(t) = n
    BY <1>1, <1>3
  <1>5. t = << >> <=> n = 0
    BY <1>1, <1>3, <1>4, EmptySeq, SubSeqEmpty DEF t
  <1>6. \A i \in 1..n : t[i] = fs[i]
    BY <1>1, <1>3
  <1>. QED
    BY <1>1, <1>3, <1>4, <1>5, <1>6 DEF t, n

-----------------------------------------------------------------------------
(* Type correctness.                                                       *)

\* A new activation is at its first instruction, with the registers of the struct.
LEMMA ActivationType ==
    ASSUME NEW f \in Fn, NEW st \in StateType
    PROVE  /\ Activation(f, st) \in Frame
           /\ Activation(f, st).locals = MaterializeRegisters(st)
           /\ Activation(f, st).fn = f
           /\ Activation(f, st).pc = 1
           /\ Activation(f, st).reload = TRUE
  BY MaterializeType, CodeNonEmpty DEF Activation, Frame

\* The running activation, and where it can be.
LEMMA RunningFrame ==
    ASSUME TypeOK, mode = "run"
    PROVE  /\ frames \in Seq(Frame)
           /\ frames # << >>
           /\ Top \in Frame
           /\ Top.fn \in Fn
           /\ Top.pc \in Nat
           /\ Top.pc <= Len(Code[Top.fn])
           /\ Top.locals \in [Reg -> Val]
           /\ state \in StateType
  BY TopFrame DEF TypeOK, Top, Frame

\* While a program runs it is at an instruction of its code.
LEMMA RunningInstr ==
    ASSUME TypeOK, NEW op \in Op \ {"ret"}, At(op)
    PROVE  /\ Top.pc # 0
           /\ Top.pc \in DOMAIN Code[Top.fn]
           /\ Here \in Instr
           /\ Here.op = op
           /\ Len(Code[Top.fn]) \in Nat
           /\ op \in {"alu", "cbr"} => Top.pc + 1 <= Len(Code[Top.fn])
           /\ op \in {"cbr", "jmp"} =>
                Here.to \in Nat /\ Here.to <= Len(Code[Top.fn])
  <1>1. mode = "run" /\ OpAt(Top.fn, Top.pc) = op
    BY DEF At
  <1>2. Top.pc # 0
    BY <1>1 DEF OpAt
  <1>. QED
    BY <1>1, <1>2, RunningFrame, CodeFacts DEF Here

\* The address at which the code after a transfer continues.
LEMMA ResumeType ==
    ASSUME TypeOK, NEW op \in {"call", "tail", "jalr", "jr"}, At(op)
    PROVE  ResumeAt \in Nat /\ ResumeAt <= Len(Code[Top.fn])
  <1>1. op \in Op \ {"ret"} /\ mode = "run"
    BY DEF Op, At
  <1>. QED
    BY <1>1, RunningInstr, RunningFrame, CodeFacts DEF ResumeAt

\* A transfer of control keeps the types.
LEMMA TransferType ==
    ASSUME TypeOK, NEW op \in {"call", "tail", "jalr", "jr"}, At(op),
           NEW f \in Fn, NEW reload \in BOOLEAN, Transfer(f, reload)
    PROVE  LET saved == SaveRegisters(state, Top.locals)
               caller == [Top EXCEPT !.pc = ResumeAt, !.reload = reload]
           IN  /\ state' = saved /\ saved \in StateType
               /\ caller \in Frame
               /\ SetTop(caller) \in Seq(Frame)
               /\ Len(SetTop(caller)) = Len(frames)
               /\ frames' = Append(SetTop(caller), Activation(f, saved))
               /\ frames' \in Seq(Frame)
               /\ frames' # << >>
               /\ Len(frames') = Len(frames) + 1
               /\ frames'[Len(frames) + 1] = Activation(f, saved)
               /\ \A i \in 1..Len(frames) : frames'[i] = SetTop(caller)[i]
               /\ mode' = mode
  <1>. DEFINE saved == SaveRegisters(state, Top.locals)
              caller == [Top EXCEPT !.pc = ResumeAt, !.reload = reload]
  <1>1. mode = "run"
    BY DEF At
  <1>2. /\ state' = saved
        /\ frames' = Append(SetTop(caller), Activation(f, saved))
        /\ mode' = mode
    BY DEF Transfer
  <1>3. saved \in StateType
    BY <1>1, RunningFrame, SaveType
  <1>4. caller \in Frame
    BY <1>1, RunningFrame, ResumeType DEF Frame
  <1>5. SetTop(caller) \in Seq(Frame) /\ Len(SetTop(caller)) = Len(frames)
    BY <1>1, <1>4, RunningFrame, ReplaceTop DEF SetTop
  <1>6. Activation(f, saved) \in Frame
    BY <1>3, ActivationType
  <1>. HIDE DEF saved, caller
  <1>7. /\ frames' \in Seq(Frame)
        /\ frames' # << >>
        /\ Len(frames') = Len(frames) + 1
        /\ frames'[Len(frames) + 1] = Activation(f, saved)
        /\ \A i \in 1..Len(frames) : frames'[i] = SetTop(caller)[i]
    BY <1>2, <1>5, <1>6, AppendProperties
  <1>. QED
    BY <1>2, <1>3, <1>4, <1>5, <1>7 DEF saved, caller

\* The struct a running activation leaves behind, and what its caller goes on
\* with, at a return.
LEMMA ReturnType ==
    ASSUME TypeOK, GenerateReturn
    PROVE  LET saved == SaveRegisters(state, Top.locals)
               rest == SubSeq(frames, 1, Len(frames) - 1)
               caller == rest[Len(rest)]
               resumed == IF caller.reload
                          THEN [caller EXCEPT !.locals = LoadRegisters(saved, caller.locals)]
                          ELSE caller
           IN  /\ mode = "run"
               /\ state' = saved /\ saved \in StateType
               /\ rest \in Seq(Frame)
               /\ Len(rest) = Len(frames) - 1
               /\ \A i \in 1..Len(rest) : rest[i] = frames[i]
               /\ rest = << >> => frames' = rest /\ mode' = "done"
               /\ rest # << >> =>
                    /\ mode' = "run"
                    /\ caller \in Frame
                    /\ resumed \in Frame
                    /\ LoadRegisters(saved, caller.locals) = Top.locals
                    /\ frames' = [rest EXCEPT ![Len(rest)] = resumed]
               /\ symtab' = symtab
  <1>. DEFINE saved == SaveRegisters(state, Top.locals)
              rest == SubSeq(frames, 1, Len(frames) - 1)
              caller == rest[Len(rest)]
              resumed == IF caller.reload
                         THEN [caller EXCEPT !.locals = LoadRegisters(saved, caller.locals)]
                         ELSE caller
  <1>1. mode = "run"
    BY DEF GenerateReturn, At
  <1>2. /\ state' = saved
        /\ rest = << >> => frames' = rest /\ mode' = "done"
        /\ rest # << >> =>
             frames' = [rest EXCEPT ![Len(rest)] = resumed] /\ mode' = mode
        /\ symtab' = symtab
    BY DEF GenerateReturn
  <1>3. saved \in StateType
    BY <1>1, RunningFrame, SaveType
  <1>4. /\ rest \in Seq(Frame)
        /\ Len(rest) = Len(frames) - 1
        /\ \A i \in 1..Len(rest) : rest[i] = frames[i]
    BY <1>1, RunningFrame, PopTop
  <1>5. Top.locals \in [Reg -> Val] /\ state \in StateType
    BY <1>1, RunningFrame
  <1>. HIDE DEF rest
  <1>6. ASSUME rest # << >>
        PROVE  /\ caller \in Frame
               /\ resumed \in Frame
               /\ LoadRegisters(saved, caller.locals) = Top.locals
    <2>1. caller \in Frame
      BY <1>4, <1>6, TopFrame
    <2>2. caller.locals \in [Reg -> Val]
      BY <2>1 DEF Frame
    <2>3. LoadRegisters(saved, caller.locals) = Top.locals
      BY <1>3, <1>5, <2>2, LoadIsMaterialize, RoundTrip
    <2>4. [caller EXCEPT !.locals = Top.locals] \in Frame
      BY <1>5, <2>1 DEF Frame
    <2>. QED
      BY <2>1, <2>3, <2>4
  <1>. QED
    BY <1>1, <1>2, <1>3, <1>4, <1>6 DEF rest

\* A running activation that stays the running one.
LEMMA StepType ==
    ASSUME TypeOK, mode = "run", NEW fr \in Frame, frames' = SetTop(fr)
    PROVE  /\ frames' \in Seq(Frame)
           /\ frames' # << >>
           /\ Len(frames') = Len(frames)
           /\ frames'[Len(frames')] = fr
           /\ \A i \in 1..Len(frames) :
                frames'[i] = IF i = Len(frames) THEN fr ELSE frames[i]
  BY RunningFrame, ReplaceTop DEF SetTop

\* What an instruction leaves in the running activation.
LEMMA InstructionType ==
    ASSUME TypeOK, GenerateInstruction
    PROVE  LET val == Alu[<<OperandToValue(Here.src), OperandToValue(Here.src2)>>]
               fr == [Top EXCEPT !.pc = Top.pc + 1,
                                 !.locals = WriteValueToRegister(Here.dst, val)]
           IN  /\ val \in Val
               /\ fr \in Frame
               /\ frames' = SetTop(fr)
               /\ WriteValueToRegister(Here.dst, val) \in [Reg -> Val]
               /\ Top.locals \in RegFile =>
                    WriteValueToRegister(Here.dst, val) \in RegFile
  <1>. DEFINE val == Alu[<<OperandToValue(Here.src), OperandToValue(Here.src2)>>]
  <1>1. At("alu") /\ mode = "run"
    BY DEF GenerateInstruction, At
  <1>2. Here \in Instr /\ Top.pc + 1 <= Len(Code[Top.fn])
    BY <1>1, RunningInstr DEF Op
  <1>3. Here.src \in Reg /\ Here.src2 \in Reg /\ Here.dst \in Reg
    BY <1>2 DEF Instr
  <1>4. Top \in Frame /\ Top.locals \in [Reg -> Val]
    BY <1>1, RunningFrame
  <1>5. Top.locals[Here.src] \in Val
    BY <1>3, <1>4
  <1>6. OperandToValue(Here.src) \in Val /\ OperandToValue(Here.src2) \in Val
    BY <1>3, <1>4, <1>5, ReadWrite DEF OperandToValue
  <1>7. val \in Val
    BY <1>6, SemanticsAssumption
  <1>. HIDE DEF val
  <1>8. /\ WriteValueToRegister(Here.dst, val) \in [Reg -> Val]
        /\ Top.locals \in RegFile => WriteValueToRegister(Here.dst, val) \in RegFile
    BY <1>3, <1>4, <1>7, ReadWrite DEF WriteValueToRegister
  <1>9. [Top EXCEPT !.pc = Top.pc + 1,
                    !.locals = WriteValueToRegister(Here.dst, val)] \in Frame
    <2>1. \A w \in [Reg -> Val] : \A pc \in Nat : pc <= Len(Code[Top.fn]) =>
            [Top EXCEPT !.pc = pc, !.locals = w] \in Frame
      BY <1>4 DEF Frame
    <2>2. Top.pc + 1 \in Nat
      BY <1>1, RunningFrame
    <2>. QED
      BY <1>2, <1>8, <2>1, <2>2
  <1>. QED
    BY <1>7, <1>8, <1>9 DEF GenerateInstruction, val

\* A branch or a jump goes to a position of the function.
LEMMA GotoType ==
    ASSUME TypeOK, GenerateBranch \/ GenerateJump
    PROVE  \E pc \in Nat : /\ Goto(pc)
                          /\ [Top EXCEPT !.pc = pc] \in Frame
                          /\ mode = "run"
  <1>1. ASSUME NEW pc \in Nat, pc <= Len(Code[Top.fn]), mode = "run"
        PROVE  [Top EXCEPT !.pc = pc] \in Frame
    BY <1>1, RunningFrame DEF Frame
  <1>2. CASE GenerateBranch
    <2>. DEFINE pc == IF OperandToValue(Here.src) \in TakenOn THEN Here.to ELSE Top.pc + 1
    <2>1. At("cbr") /\ mode = "run" /\ Goto(pc)
      BY <1>2 DEF GenerateBranch, At
    <2>2. pc \in Nat /\ pc <= Len(Code[Top.fn])
      BY <2>1, RunningInstr, RunningFrame DEF Op
    <2>. QED
      BY <1>1, <2>1, <2>2
  <1>3. CASE GenerateJump
    <2>1. At("jmp") /\ mode = "run" /\ Goto(Here.to)
      BY <1>3 DEF GenerateJump, At
    <2>2. Here.to \in Nat /\ Here.to <= Len(Code[Top.fn])
      BY <2>1, RunningInstr DEF Op
    <2>. QED
      BY <1>1, <2>1, <2>2
  <1>. QED
    BY <1>2, <1>3

\* The prologue leaves a table that resolves every lifted function.
LEMMA FillSymtabType ==
    ASSUME FillSymtab
    PROVE  /\ symtab' \in Symtab
           /\ \A f \in Fn : /\ Start[f] \in DOMAIN symtab'
                            /\ Start[symtab'[Start[f]]] = Start[f]
  BY DEF FillSymtab, Symtab

\* Calls and indirect transfers are the same code for a function and a flag.
LEMMA TransferOf ==
    ASSUME TypeOK, GenerateCall \/ GenerateIndirectBranch
    PROVE  \E op \in {"call", "tail", "jalr", "jr"}, f \in Fn, reload \in BOOLEAN :
              At(op) /\ Transfer(f, reload) /\ (~FunctionsNop => reload)
  <1>1. CASE GenerateCall
    <2>1. PICK op \in {"call", "tail"} : At(op)
      BY <1>1 DEF GenerateCall
    <2>2. Here \in Instr
      BY <2>1, RunningInstr DEF Op
    <2>3. Here.callee \in Fn /\ (~FunctionsNop) \in BOOLEAN
      BY <2>2, OptionAssumption DEF Instr
    <2>4. Transfer(Here.callee, ~FunctionsNop)
      BY <1>1 DEF GenerateCall
    <2>. HIDE DEF Here
    <2>. QED
      BY <2>1, <2>3, <2>4, Zenon
  <1>2. CASE GenerateIndirectBranch
    <2>1. PICK op \in {"jalr", "jr"} : At(op)
      BY <1>2 DEF GenerateIndirectBranch
    <2>2. symtab[LookupAddress] \in Fn
      BY <1>2 DEF GenerateIndirectBranch, TypeOK, Symtab
    <2>. QED
      BY <1>2, <2>1, <2>2 DEF GenerateIndirectBranch
  <1>. QED
    BY <1>1, <1>2

-----------------------------------------------------------------------------
(* The inductive invariant.  Beyond the type it says that the constants and *)
(* the table are in place, and that every waiting caller loads the struct   *)
(* again when its callee returns.                                           *)

ReloadsPending == ~FunctionsNop => \A i \in 1..Len(frames) : frames[i].reload

IInv == TypeOK /\ ConstRegsKept /\ SymtabComplete /\ ReloadsPending

\* The host's zeroed struct and empty stack satisfy the invariant.
LEMMA InitIInv == Init => IInv
  <1>. SUFFICES ASSUME Init
                PROVE  IInv
    OBVIOUS
  <1>1. frames = << >> /\ Len(frames) = 0 /\ frames \in Seq(Frame)
    BY EmptySeq DEF Init
  <1>2. symtab \in Symtab
    <2>1. symtab \in [{} -> Fn]
      BY DEF Init
    <2>2. {} \in SUBSET {Start[f] : f \in Fn}
      OBVIOUS
    <2>. QED
      BY <2>1, <2>2 DEF Symtab
  <1>. QED
    BY <1>1, <1>2 DEF Init, IInv, TypeOK, ConstRegsKept, SymtabComplete, ReloadsPending

\* HostCall: a fresh struct with the constants in place, one activation.
LEMMA HostCallStep ==
    ASSUME IInv, NEW f \in Fn, HostCall(f)
    PROVE  IInv'
  <1>1. state' \in StateType /\ HoldsConstants(state') /\ mode' = "run" /\ FillSymtab
    BY DEF HostCall
  <1>2. /\ frames' = <<Activation(f, state')>>
        /\ Activation(f, state') \in Frame
        /\ Activation(f, state').locals \in RegFile
        /\ Activation(f, state').reload
    BY <1>1, ActivationType DEF HostCall, HoldsConstants
  <1>. DEFINE act == Activation(f, state')
  <1>. HIDE DEF act
  <1>3. /\ frames' \in Seq(Frame)
        /\ frames' # << >>
        /\ \A i \in 1..Len(frames') : frames'[i] = act
    BY <1>2 DEF act
  <1>. QED
    BY <1>1, <1>2, <1>3, FillSymtabType
    DEF IInv, TypeOK, ConstRegsKept, SymtabComplete, ReloadsPending, act

\* A step of the running activation whose registers still hold the constants.
LEMMA LocalStep ==
    ASSUME IInv, mode = "run", NEW fr \in Frame, frames' = SetTop(fr),
           fr.locals \in RegFile, fr.reload = Top.reload,
           UNCHANGED <<state, symtab, mode>>
    PROVE  IInv'
  <1>1. TypeOK
    BY DEF IInv
  <1>2. /\ frames' \in Seq(Frame)
        /\ frames' # << >>
        /\ Len(frames') = Len(frames)
        /\ \A i \in 1..Len(frames) :
             frames'[i] = IF i = Len(frames) THEN fr ELSE frames[i]
    BY <1>1, StepType
  <1>3. frames # << >>
    BY <1>1, RunningFrame
  <1>. QED
    BY <1>2, <1>3 DEF IInv, TypeOK, ConstRegsKept, SymtabComplete, ReloadsPending, Top

\* The running registers hold the constants.
LEMMA TopConstants ==
    ASSUME IInv, mode = "run"
    PROVE  Top.locals \in RegFile /\ (~FunctionsNop => Top.reload)
  BY RunningFrame, TopFrame DEF IInv, ConstRegsKept, ReloadsPending, Top

\* A call or tail transfer starts a function on the registers just saved.
LEMMA TransferStep ==
    ASSUME IInv, GenerateCall \/ GenerateIndirectBranch
    PROVE  IInv'
  <1>1. PICK op \in {"call", "tail", "jalr", "jr"}, f \in Fn, reload \in BOOLEAN :
          At(op) /\ Transfer(f, reload) /\ (~FunctionsNop => reload)
    BY TransferOf DEF IInv
  <1>. DEFINE saved == SaveRegisters(state, Top.locals)
              caller == [Top EXCEPT !.pc = ResumeAt, !.reload = reload]
              act == Activation(f, saved)
  <1>2. TypeOK /\ mode = "run" /\ FillSymtab
    BY <1>1 DEF IInv, At, Transfer
  <1>3. /\ state' = saved /\ saved \in StateType
        /\ caller \in Frame
        /\ frames' \in Seq(Frame)
        /\ frames' # << >>
        /\ Len(frames') = Len(frames) + 1
        /\ frames'[Len(frames) + 1] = act
        /\ \A i \in 1..Len(frames) : frames'[i] = SetTop(caller)[i]
        /\ mode' = mode
    BY <1>1, <1>2, TransferType
  <1>4. /\ Top.locals \in RegFile
        /\ Top \in Frame
        /\ state \in StateType
        /\ frames \in Seq(Frame)
        /\ frames # << >>
        /\ Top.locals \in [Reg -> Val]
    BY <1>2, TopConstants, RunningFrame
  <1>5. /\ MaterializeRegisters(saved) = Top.locals
        /\ act.locals = Top.locals /\ act.reload
    BY <1>3, <1>4, RoundTrip, ActivationType
  <1>6. caller.locals = Top.locals /\ caller.reload = reload
    BY <1>4 DEF Frame
  <1>. HIDE DEF saved, caller, act
  <1>7. \A i \in 1..Len(frames) :
          frames'[i] = IF i = Len(frames) THEN caller ELSE frames[i]
    BY <1>3, <1>4, ReplaceTop DEF SetTop
  <1>8. Len(frames) \in Nat
    BY <1>4, TopFrame
  <1>9. ASSUME NEW i \in 1..Len(frames')
        PROVE  frames'[i].locals \in RegFile /\ (~FunctionsNop => frames'[i].reload)
    <2>1. CASE i = Len(frames) + 1
      BY <1>3, <1>4, <1>5, <2>1
    <2>2. CASE i = Len(frames)
      BY <1>1, <1>4, <1>6, <1>7, <1>8, <2>2
    <2>3. CASE i \in 1..(Len(frames) - 1)
      BY <1>7, <1>8, <2>3 DEF IInv, ConstRegsKept, ReloadsPending
    <2>. QED
      BY <1>3, <1>8, <2>1, <2>2, <2>3
  <1>10. HoldsConstants(state')
    BY <1>3, <1>4, <1>5 DEF HoldsConstants
  <1>. QED
    BY <1>2, <1>3, <1>9, <1>10, FillSymtabType
    DEF IInv, TypeOK, ConstRegsKept, SymtabComplete, ReloadsPending

\* A return reloads the caller's registers from the struct, or goes to the host.
LEMMA ReturnStep ==
    ASSUME IInv, GenerateReturn
    PROVE  IInv'
  <1>. DEFINE saved == SaveRegisters(state, Top.locals)
              rest == SubSeq(frames, 1, Len(frames) - 1)
              caller == rest[Len(rest)]
              resumed == IF caller.reload
                         THEN [caller EXCEPT !.locals = LoadRegisters(saved, caller.locals)]
                         ELSE caller
  <1>1. /\ mode = "run"
        /\ state' = saved /\ saved \in StateType
        /\ rest \in Seq(Frame)
        /\ Len(rest) = Len(frames) - 1
        /\ \A i \in 1..Len(rest) : rest[i] = frames[i]
        /\ rest = << >> => frames' = rest /\ mode' = "done"
        /\ rest # << >> =>
             /\ mode' = "run"
             /\ caller \in Frame
             /\ resumed \in Frame
             /\ LoadRegisters(saved, caller.locals) = Top.locals
             /\ frames' = [rest EXCEPT ![Len(rest)] = resumed]
        /\ symtab' = symtab
    BY ReturnType DEF IInv
  <1>2. /\ Top.locals \in RegFile
        /\ Top.locals \in [Reg -> Val]
        /\ state \in StateType
        /\ frames # << >> /\ Len(frames) \in Nat
    BY <1>1, TopConstants, RunningFrame, TopFrame DEF IInv
  <1>3. HoldsConstants(state')
    BY <1>1, <1>2, RoundTrip DEF HoldsConstants
  <1>4. \A i \in 1..Len(rest) :
          rest[i].locals \in RegFile /\ (~FunctionsNop => rest[i].reload)
    BY <1>1, <1>2 DEF IInv, ConstRegsKept, ReloadsPending
  <1>. HIDE DEF rest
  <1>5. CASE rest = << >>
    <2>1. Len(frames') = 0 /\ frames' \in Seq(Frame)
      BY <1>1, <1>5, EmptySeq
    <2>. QED
      BY <1>1, <1>3, <1>5, <2>1
      DEF IInv, TypeOK, ConstRegsKept, SymtabComplete, ReloadsPending
  <1>6. CASE rest # << >>
    <2>1. caller \in Frame /\ Len(rest) \in 1..Len(rest)
      BY <1>1, <1>6, TopFrame
    <2>2. resumed.locals \in RegFile /\ resumed.reload = caller.reload
      BY <1>1, <1>2, <1>4, <1>6, <2>1 DEF Frame
    <2>. HIDE DEF resumed, caller
    <2>3. /\ frames' \in Seq(Frame)
          /\ Len(frames') = Len(rest)
          /\ frames' # << >>
          /\ \A i \in 1..Len(rest) :
               frames'[i] = IF i = Len(rest) THEN resumed ELSE rest[i]
      BY <1>1, <1>6, ReplaceTop
    <2>4. \A i \in 1..Len(frames') :
            frames'[i].locals \in RegFile /\ (~FunctionsNop => frames'[i].reload)
      BY <1>4, <2>2, <2>3 DEF caller
    <2>. QED
      BY <1>1, <1>2, <1>3, <1>6, <2>3, <2>4
      DEF IInv, TypeOK, ConstRegsKept, SymtabComplete, ReloadsPending
  <1>. QED
    BY <1>5, <1>6

\* Every step keeps the invariant.
LEMMA NextIInv == IInv /\ [Next]_vars => IInv'
  <1>. SUFFICES ASSUME IInv, [Next]_vars
                PROVE  IInv'
    OBVIOUS
  <1>1. ASSUME NEW f \in Fn, HostCall(f)
        PROVE  IInv'
    BY <1>1, HostCallStep
  <1>2. CASE GenerateInstruction
    <2>. DEFINE val == Alu[<<OperandToValue(Here.src), OperandToValue(Here.src2)>>]
                fr == [Top EXCEPT !.pc = Top.pc + 1,
                                  !.locals = WriteValueToRegister(Here.dst, val)]
    <2>1. TypeOK /\ mode = "run" /\ UNCHANGED <<state, symtab, mode>>
      BY <1>2 DEF IInv, GenerateInstruction, At
    <2>2. /\ fr \in Frame
          /\ frames' = SetTop(fr)
          /\ WriteValueToRegister(Here.dst, val) \in RegFile
      BY <1>2, <2>1, InstructionType, TopConstants
    <2>3. fr.locals \in RegFile /\ fr.reload = Top.reload
      BY <2>1, <2>2, RunningFrame DEF Frame
    <2>. QED
      BY <2>1, <2>2, <2>3, LocalStep
  <1>3. CASE GenerateBranch \/ GenerateJump
    <2>1. PICK pc \in Nat : Goto(pc) /\ [Top EXCEPT !.pc = pc] \in Frame /\ mode = "run"
      BY <1>3, GotoType DEF IInv
    <2>2. UNCHANGED <<state, symtab, mode>>
      BY <1>3 DEF GenerateBranch, GenerateJump
    <2>3. /\ [Top EXCEPT !.pc = pc].locals \in RegFile
          /\ [Top EXCEPT !.pc = pc].reload = Top.reload
      BY <2>1, TopConstants, RunningFrame DEF IInv, Frame
    <2>. QED
      BY <2>1, <2>2, <2>3, LocalStep DEF Goto
  <1>4. CASE GenerateCall \/ GenerateIndirectBranch
    BY <1>4, TransferStep
  <1>5. CASE LookupFails
    <2>1. mode = "run" /\ mode' = "trap" /\ UNCHANGED <<state, frames, symtab>>
      BY <1>5 DEF LookupFails, At
    <2>2. frames # << >> /\ LookupAddress \notin DOMAIN symtab
      BY <1>5, <2>1 DEF LookupFails, IInv, TypeOK
    <2>3. \A f \in Fn : Start[f] # LookupAddress
      BY <2>2 DEF IInv, SymtabComplete
    <2>4. LookupAddress' = LookupAddress
      BY <2>1 DEF LookupAddress, OperandToValue, Here, Top
    <2>5. SymtabComplete'
      BY <2>1, <2>3, <2>4 DEF IInv, SymtabComplete
    <2>. QED
      BY <2>1, <2>2, <2>5 DEF IInv, TypeOK, ConstRegsKept, ReloadsPending
  <1>6. CASE GenerateReturn
    BY <1>6, ReturnStep
  <1>7. CASE UNCHANGED vars
    BY <1>7 DEF vars, IInv, TypeOK, ConstRegsKept, SymtabComplete, ReloadsPending,
                LookupAddress, OperandToValue, Here, Top
  <1>. QED
    BY <1>1, <1>2, <1>3, <1>4, <1>5, <1>6, <1>7 DEF Next

\* The invariant holds of every run.
LEMMA Invariance == Spec => []IInv
  BY InitIInv, NextIInv, PTL DEF Spec

\* Every reachable state of a lifted program is well typed: the running
\* activation is at a position of its function, and the struct and the
\* allocas have a value for every register.
THEOREM TypeCorrect == Spec => []TypeOK
  <1>1. IInv => TypeOK
    BY DEF IInv
  <1>. QED
    BY <1>1, Invariance, PTL

\* No write, call, return or copy takes its constant out of a constant register
\* (write_value_to_register, save_registers, load_registers).
THEOREM ConstantRegisters == Spec => []ConstRegsKept
  <1>1. IInv => ConstRegsKept
    BY DEF IInv
  <1>. QED
    BY <1>1, Invariance, PTL

\* bleach_symtab_lookup resolves every lifted function from the first
\* prologue on, also when functions share an address.
THEOREM SymtabResolves == Spec => []SymtabComplete
  <1>1. IInv => SymtabComplete
    BY DEF IInv
  <1>. QED
    BY <1>1, Invariance, PTL

-----------------------------------------------------------------------------
(* A lifted program implements the machine program: every step of          *)
(* LiftedExec is a step of Machine on the mapped state, for every program  *)
(* that is Faithful, whatever its size and the number of nested calls.     *)

(* The mapped stack.                                                       *)

\* Mapping keeps the stack's length and maps each frame.
LEMMA PositionsSeq ==
    ASSUME NEW fs \in Seq(Frame)
    PROVE  /\ Positions(fs) \in Seq(M!Position)
           /\ Len(Positions(fs)) = Len(fs)
           /\ \A i \in 1..Len(fs) : Positions(fs)[i] = Position(fs[i])
           /\ Positions(fs) = << >> <=> fs = << >>
  <1>1. Len(fs) \in Nat
    BY LenProperties
  <1>2. \A i \in 1..Len(fs) : Position(fs[i]) \in M!Position
    BY ElementOfSeq DEF Position, M!Position, Frame
  <1>3. Positions(fs) \in [1..Len(fs) -> M!Position]
    BY <1>2 DEF Positions
  <1>4. Positions(fs) \in Seq(M!Position)
    BY <1>1, <1>3, SeqDef
  <1>5. Len(Positions(fs)) = Len(fs)
    BY <1>1, <1>3, <1>4, LenProperties
  <1>6. Positions(fs) = << >> <=> fs = << >>
    BY <1>4, <1>5, EmptySeq
  <1>. QED
    BY <1>4, <1>5, <1>6 DEF Positions

\* A frame is mapped to a position of the machine program.
LEMMA PositionType ==
    ASSUME NEW fr \in Frame
    PROVE  Position(fr) \in M!Position
  BY DEF Position, M!Position, Frame

\* Replacing, pushing and popping an activation replaces, pushes and pops a
\* position.
LEMMA PositionsReplace ==
    ASSUME NEW fs \in Seq(Frame), fs # << >>, NEW fr \in Frame
    PROVE  Positions([fs EXCEPT ![Len(fs)] = fr])
             = [Positions(fs) EXCEPT ![Len(Positions(fs))] = Position(fr)]
  <1>. DEFINE t == [fs EXCEPT ![Len(fs)] = fr]
              p == Positions(fs)
              u == [p EXCEPT ![Len(p)] = Position(fr)]
  <1>1. /\ t \in Seq(Frame)
        /\ Len(t) = Len(fs)
        /\ \A i \in 1..Len(fs) : t[i] = IF i = Len(fs) THEN fr ELSE fs[i]
    BY ReplaceTop
  <1>2. /\ p \in Seq(M!Position)
        /\ Len(p) = Len(fs)
        /\ p # << >>
        /\ \A i \in 1..Len(fs) : p[i] = Position(fs[i])
    BY PositionsSeq
  <1>. HIDE DEF p
  <1>3. /\ u \in Seq(M!Position)
        /\ Len(u) = Len(p)
        /\ \A i \in 1..Len(p) : u[i] = IF i = Len(p) THEN Position(fr) ELSE p[i]
    BY <1>2, PositionType, ReplaceTop
  <1>. HIDE DEF t, u
  <1>4. /\ Positions(t) \in Seq(M!Position)
        /\ Len(Positions(t)) = Len(t)
        /\ \A i \in 1..Len(t) : Positions(t)[i] = Position(t[i])
    BY <1>1, PositionsSeq
  <1>5. Positions(t) = u
    BY <1>1, <1>2, <1>3, <1>4, SeqEqual
  <1>. QED
    BY <1>5 DEF t, u, p

\* Mapping commutes with a push.
LEMMA PositionsAppend ==
    ASSUME NEW fs \in Seq(Frame), NEW fr \in Frame
    PROVE  Positions(Append(fs, fr)) = Append(Positions(fs), Position(fr))
  <1>. DEFINE t == Append(fs, fr)
              p == Positions(fs)
              u == Append(p, Position(fr))
  <1>1. /\ t \in Seq(Frame)
        /\ Len(t) = Len(fs) + 1
        /\ \A i \in 1..Len(fs) : t[i] = fs[i]
        /\ t[Len(fs) + 1] = fr
    BY AppendProperties
  <1>2. /\ p \in Seq(M!Position)
        /\ Len(p) = Len(fs)
        /\ \A i \in 1..Len(fs) : p[i] = Position(fs[i])
    BY PositionsSeq
  <1>. HIDE DEF p
  <1>3. /\ u \in Seq(M!Position)
        /\ Len(u) = Len(p) + 1
        /\ \A i \in 1..Len(p) : u[i] = p[i]
        /\ u[Len(p) + 1] = Position(fr)
    BY <1>2, PositionType, AppendProperties
  <1>. HIDE DEF t, u
  <1>4. /\ Positions(t) \in Seq(M!Position)
        /\ Len(Positions(t)) = Len(t)
        /\ \A i \in 1..Len(t) : Positions(t)[i] = Position(t[i])
    BY <1>1, PositionsSeq
  <1>5. Len(fs) \in Nat
    BY LenProperties
  <1>6. \A i \in 1..Len(t) : Positions(t)[i] = u[i]
    BY <1>1, <1>2, <1>3, <1>4, <1>5
  <1>7. Positions(t) = u
    BY <1>1, <1>2, <1>3, <1>4, <1>6, SeqEqual
  <1>. QED
    BY <1>7 DEF t, u, p

\* Mapping commutes with a pop.
LEMMA PositionsPop ==
    ASSUME NEW fs \in Seq(Frame), fs # << >>
    PROVE  Positions(SubSeq(fs, 1, Len(fs) - 1))
             = SubSeq(Positions(fs), 1, Len(Positions(fs)) - 1)
  <1>. DEFINE t == SubSeq(fs, 1, Len(fs) - 1)
              p == Positions(fs)
              u == SubSeq(p, 1, Len(p) - 1)
  <1>1. /\ t \in Seq(Frame)
        /\ Len(t) = Len(fs) - 1
        /\ \A i \in 1..Len(t) : t[i] = fs[i]
    BY PopTop
  <1>2. /\ p \in Seq(M!Position)
        /\ Len(p) = Len(fs)
        /\ p # << >>
        /\ \A i \in 1..Len(fs) : p[i] = Position(fs[i])
    BY PositionsSeq
  <1>. HIDE DEF p
  <1>3. /\ u \in Seq(M!Position)
        /\ Len(u) = Len(p) - 1
        /\ \A i \in 1..Len(u) : u[i] = p[i]
    BY <1>2, PopTop
  <1>. HIDE DEF t, u
  <1>4. /\ Positions(t) \in Seq(M!Position)
        /\ Len(Positions(t)) = Len(t)
        /\ \A i \in 1..Len(t) : Positions(t)[i] = Position(t[i])
    BY <1>1, PositionsSeq
  <1>5. Len(fs) \in Nat \ {0}
    BY TopFrame
  <1>6. \A i \in 1..Len(t) : Positions(t)[i] = u[i]
    BY <1>1, <1>2, <1>3, <1>4, <1>5
  <1>7. Positions(t) = u
    BY <1>1, <1>2, <1>3, <1>4, <1>6, SeqEqual
  <1>. QED
    BY <1>7 DEF t, u, p

-----------------------------------------------------------------------------
(* The running position and its registers.                                 *)

\* The running frame is mapped to where the machine program runs.
LEMMA MappedTop ==
    ASSUME TypeOK, mode = "run"
    PROVE  /\ Positions(frames) # << >>
           /\ Len(Positions(frames)) = Len(frames)
           /\ M!Top = Position(Top)
           /\ M!Top.fn = Top.fn /\ M!Top.pc = Top.pc
           /\ MappedRegs = Top.locals
           /\ M!Here = Here
           /\ \A op \in Op : M!Running(op) <=> At(op)
  <1>1. frames \in Seq(Frame) /\ frames # << >> /\ Len(frames) \in 1..Len(frames)
    BY RunningFrame, TopFrame
  <1>2. Positions(frames) # << >> /\ Len(Positions(frames)) = Len(frames)
    BY <1>1, PositionsSeq
  <1>3. M!Top = Position(Top)
    BY <1>1, <1>2, PositionsSeq DEF M!Top, Top
  <1>4. M!Top.fn = Top.fn /\ M!Top.pc = Top.pc
    BY <1>3 DEF Position
  <1>5. MappedRegs = Top.locals
    BY DEF MappedRegs
  <1>6. M!Here = Here
    BY <1>4 DEF M!Here, Here
  <1>7. ASSUME NEW op \in Op
        PROVE  M!Running(op) <=> At(op)
    BY <1>2, <1>4 DEF M!Running, At, M!OpAt, OpAt
  <1>. QED
    BY <1>2, <1>3, <1>4, <1>5, <1>6, <1>7

\* A local step of the running activation moves the running position.
LEMMA MappedGoto ==
    ASSUME TypeOK, mode = "run", NEW fr \in Frame, frames' = SetTop(fr),
           fr.fn = Top.fn, mode' = "run"
    PROVE  /\ M!Goto(fr.pc)
           /\ MappedRegs' = fr.locals
  <1>1. frames \in Seq(Frame) /\ frames # << >>
    BY RunningFrame
  <1>2. Positions(frames)' =
          [Positions(frames) EXCEPT ![Len(Positions(frames))] = Position(fr)]
    BY <1>1, PositionsReplace DEF SetTop
  <1>3. Position(fr) = [fn |-> M!Top.fn, pc |-> fr.pc]
    BY MappedTop DEF Position
  <1>4. frames'[Len(frames')] = fr
    BY StepType
  <1>. QED
    BY <1>2, <1>3, <1>4 DEF M!Goto, M!At, MappedRegs, Top

-----------------------------------------------------------------------------
(* Initial states and steps.                                               *)

\* Register files, and reads and writes of them, are the same in both programs.
LEMMA MappedConstants ==
    /\ M!RegFile = RegFile
    /\ \A regs, r : M!ReadReg(regs, r) = ReadReg(regs, r)
    /\ \A regs, r, v : M!WriteReg(regs, r, v) = WriteReg(regs, r, v)
  BY DEF M!RegFile, RegFile, M!ReadReg, ReadReg, M!WriteReg, WriteReg

\* Initial states are mapped to initial states.
LEMMA InitRefines == Init => M!Init
  <1>. SUFFICES ASSUME Init
                PROVE  M!Init
    OBVIOUS
  <1>1. MappedRegs \in RegFile
    BY DEF Init, MappedRegs, HoldsConstants
  <1>2. frames = << >> /\ frames \in Seq(Frame) /\ mode = "done"
    BY EmptySeq DEF Init
  <1>3. Positions(frames) = << >>
    BY <1>2, PositionsSeq
  <1>. QED
    BY <1>1, <1>2, <1>3, MappedConstants DEF M!Init

\* The host's call is the start of the machine program.
LEMMA HostCallRefines ==
    ASSUME IInv, NEW f \in Fn, HostCall(f)
    PROVE  M!HostCall(f)
  <1>1. /\ mode = "done" /\ mode' = "run"
        /\ state' \in StateType /\ HoldsConstants(state')
        /\ frames' = <<Activation(f, state')>>
    BY DEF HostCall
  <1>2. /\ Activation(f, state') \in Frame
        /\ Position(Activation(f, state')) = [fn |-> f, pc |-> 1]
        /\ Activation(f, state').locals \in RegFile
    BY <1>1, ActivationType DEF HoldsConstants, Position
  <1>. DEFINE act == Activation(f, state')
  <1>. HIDE DEF act
  <1>3. /\ frames' = <<act>> /\ act \in Frame /\ Len(<<act>>) = 1
        /\ <<act>> \in Seq(Frame) /\ <<act>>[1] = act
    BY <1>1, <1>2 DEF act
  <1>4. MappedRegs' \in RegFile
    BY <1>1, <1>2, <1>3 DEF MappedRegs, Top, act
  <1>5. Positions(<<act>>) = <<[fn |-> f, pc |-> 1]>>
    BY <1>2, <1>3 DEF Positions, act
  <1>. QED
    BY <1>1, <1>3, <1>4, <1>5, MappedConstants DEF M!HostCall

\* A lifted instruction does what the instruction does.
LEMMA InstructionRefines ==
    ASSUME IInv, GenerateInstruction
    PROVE  M!Alu2
  <1>. DEFINE val == Alu[<<OperandToValue(Here.src), OperandToValue(Here.src2)>>]
              fr == [Top EXCEPT !.pc = Top.pc + 1,
                                !.locals = WriteValueToRegister(Here.dst, val)]
  <1>1. TypeOK /\ At("alu") /\ mode = "run" /\ mode' = "run"
    BY DEF IInv, GenerateInstruction, At
  <1>2. fr \in Frame /\ frames' = SetTop(fr)
    BY <1>1, InstructionType
  <1>3. /\ fr.fn = Top.fn /\ fr.pc = Top.pc + 1
        /\ fr.locals = WriteValueToRegister(Here.dst, val)
    BY <1>1, RunningFrame DEF Frame
  <1>. HIDE DEF fr
  <1>4. M!Goto(Top.pc + 1) /\ MappedRegs' = WriteValueToRegister(Here.dst, val)
    BY <1>1, <1>2, <1>3, MappedGoto
  <1>5. /\ M!Running("alu")
        /\ M!Here = Here /\ M!Top.pc = Top.pc /\ MappedRegs = Top.locals
    BY <1>1, MappedTop DEF Op
  <1>. QED
    BY <1>1, <1>4, <1>5, MappedConstants
    DEF M!Alu2, OperandToValue, WriteValueToRegister

\* A lifted conditional branch goes where the branch goes.
LEMMA BranchRefines ==
    ASSUME IInv, GenerateBranch
    PROVE  M!Cbr
  <1>. DEFINE pc == IF OperandToValue(Here.src) \in TakenOn THEN Here.to ELSE Top.pc + 1
              fr == [Top EXCEPT !.pc = pc]
  <1>1. /\ TypeOK /\ At("cbr") /\ mode = "run" /\ mode' = "run"
        /\ frames' = SetTop(fr)
    BY DEF IInv, GenerateBranch, At, Goto
  <1>2. pc \in Nat /\ pc <= Len(Code[Top.fn])
    BY <1>1, RunningInstr, RunningFrame DEF Op
  <1>3. /\ fr \in Frame /\ fr.fn = Top.fn /\ fr.pc = pc
        /\ fr.locals = Top.locals
    <2>. HIDE DEF pc
    <2>. QED
      BY <1>1, <1>2, RunningFrame DEF Frame
  <1>. HIDE DEF fr
  <1>4. M!Goto(pc) /\ MappedRegs' = Top.locals
    BY <1>1, <1>3, MappedGoto
  <1>5. /\ M!Running("cbr")
        /\ M!Here = Here /\ M!Top.pc = Top.pc /\ MappedRegs = Top.locals
    BY <1>1, MappedTop DEF Op
  <1>. QED
    BY <1>1, <1>4, <1>5, MappedConstants DEF M!Cbr, OperandToValue

\* A lifted jump, or fall-through, goes where the machine program goes.
LEMMA JumpRefines ==
    ASSUME IInv, GenerateJump
    PROVE  M!Jmp
  <1>. DEFINE fr == [Top EXCEPT !.pc = Here.to]
  <1>1. /\ TypeOK /\ At("jmp") /\ mode = "run" /\ mode' = "run"
        /\ frames' = SetTop(fr)
    BY DEF IInv, GenerateJump, At, Goto
  <1>2. Here.to \in Nat /\ Here.to <= Len(Code[Top.fn])
    BY <1>1, RunningInstr DEF Op
  <1>3. /\ fr \in Frame /\ fr.fn = Top.fn /\ fr.pc = Here.to
        /\ fr.locals = Top.locals
    <2>. HIDE DEF Here
    <2>. QED
      BY <1>1, <1>2, RunningFrame DEF Frame
  <1>. HIDE DEF fr
  <1>4. M!Goto(Here.to) /\ MappedRegs' = Top.locals
    BY <1>1, <1>3, MappedGoto
  <1>5. /\ M!Running("jmp")
        /\ M!Here = Here /\ MappedRegs = Top.locals
    BY <1>1, MappedTop DEF Op
  <1>. QED
    BY <1>1, <1>4, <1>5 DEF M!Jmp

\* A transfer pushes the callee on the caller's next position, and the
\* registers the callee starts with are the caller's.
LEMMA TransferRefines ==
    ASSUME IInv, NEW op \in {"call", "tail", "jalr", "jr"}, At(op),
           NEW f \in Fn, NEW reload \in BOOLEAN, Transfer(f, reload)
    PROVE  M!Push(f, ResumeAt) /\ MappedRegs' = MappedRegs /\ mode' = mode
  <1>. DEFINE saved == SaveRegisters(state, Top.locals)
              caller == [Top EXCEPT !.pc = ResumeAt, !.reload = reload]
              act == Activation(f, saved)
  <1>1. TypeOK /\ mode = "run"
    BY DEF IInv, At
  <1>2. /\ state' = saved /\ saved \in StateType
        /\ caller \in Frame
        /\ SetTop(caller) \in Seq(Frame)
        /\ frames' = Append(SetTop(caller), act)
        /\ Len(frames') = Len(frames) + 1
        /\ frames'[Len(frames) + 1] = act
        /\ mode' = mode
    BY <1>1, TransferType
  <1>3. frames \in Seq(Frame) /\ frames # << >> /\ state \in StateType
        /\ Top.locals \in [Reg -> Val]
    BY <1>1, RunningFrame
  <1>4. /\ act \in Frame /\ act.locals = MaterializeRegisters(saved)
        /\ Position(act) = [fn |-> f, pc |-> 1]
    BY <1>2, ActivationType DEF Position
  <1>5. MaterializeRegisters(saved) = Top.locals
    BY <1>3, RoundTrip
  <1>6. caller.fn = Top.fn /\ caller.pc = ResumeAt
    BY <1>1, RunningFrame DEF Frame
  <1>. HIDE DEF caller, act
  <1>7. Positions(SetTop(caller)) = M!At(ResumeAt)
    <2>. HIDE DEF ResumeAt
    <2>1. /\ Positions(SetTop(caller)) =
                [Positions(frames) EXCEPT ![Len(Positions(frames))] = Position(caller)]
      BY <1>2, <1>3, PositionsReplace DEF SetTop
    <2>2. M!Top.fn = Top.fn
      BY <1>1, MappedTop
    <2>3. Position(caller) = [fn |-> M!Top.fn, pc |-> ResumeAt]
      BY <1>6, <2>2 DEF Position
    <2>. QED
      BY <2>1, <2>3 DEF M!At
  <1>8. Positions(frames)' = Append(M!At(ResumeAt), [fn |-> f, pc |-> 1])
    BY <1>2, <1>4, <1>7, PositionsAppend
  <1>9. MappedRegs' = Top.locals /\ MappedRegs = Top.locals
    BY <1>1, <1>2, <1>4, <1>5 DEF MappedRegs, Top
  <1>. QED
    BY <1>2, <1>8, <1>9 DEF M!Push

\* Where a transfer continues, for the programs whose blocks fit.
LEMMA ResumeRefines ==
    ASSUME Faithful, TypeOK, NEW op \in {"call", "tail", "jalr", "jr"}, At(op)
    PROVE  /\ op \in {"call", "jalr"} => ResumeAt = Top.pc + 1
           /\ op \in {"tail", "jr"} => ResumeAt = 0
  <1>1. Top.fn \in Fn /\ Top.pc \in DOMAIN Code[Top.fn] /\ Code[Top.fn][Top.pc].op = op
    BY RunningInstr, RunningFrame DEF Op, At, Here
  <1>2. ResumeAt = IF EndsBlock(Top.fn, Top.pc) THEN 0 ELSE Top.pc + 1
    BY DEF ResumeAt
  <1>3. op \in {"call", "jalr"} => ~EndsBlock(Top.fn, Top.pc)
    BY <1>1 DEF Faithful, CallsContinue
  <1>4. op \in {"tail", "jr"} => EndsBlock(Top.fn, Top.pc)
    BY <1>1 DEF Faithful, TailsEndBlocks
  <1>. QED
    BY <1>2, <1>3, <1>4

\* A direct call or tail transfer reaches the machine program's callee.
LEMMA CallRefines ==
    ASSUME Faithful, IInv, GenerateCall
    PROVE  M!Direct
  <1>1. TypeOK
    BY DEF IInv
  <1>2. PICK op \in {"call", "tail"} : At(op)
    BY DEF GenerateCall
  <1>3. Here.callee \in Fn
    BY <1>1, <1>2, RunningInstr DEF Op, Instr
  <1>4. Transfer(Here.callee, ~FunctionsNop) /\ (~FunctionsNop) \in BOOLEAN
    BY OptionAssumption DEF GenerateCall
  <1>5. /\ M!Push(Here.callee, ResumeAt)
        /\ MappedRegs' = MappedRegs /\ mode' = mode
    BY <1>2, <1>3, <1>4, TransferRefines
  <1>6. /\ op = "call" => ResumeAt = Top.pc + 1
        /\ op = "tail" => ResumeAt = 0
    BY <1>1, <1>2, ResumeRefines
  <1>7. M!Running(op) /\ M!Here = Here /\ M!Top.pc = Top.pc
    BY <1>1, <1>2, MappedTop DEF Op, At
  <1>8. CASE op = "call"
    BY <1>5, <1>6, <1>7, <1>8 DEF M!Direct
  <1>9. CASE op = "tail"
    BY <1>5, <1>6, <1>7, <1>9 DEF M!Direct
  <1>. QED
    BY <1>8, <1>9

\* Without an offset the address looked up is the address the machine goes to.
LEMMA AddressRefines ==
    ASSUME Faithful, TypeOK, NEW op \in {"jalr", "jr"}, At(op)
    PROVE  M!Address = LookupAddress
  <1>1. /\ Top.fn \in Fn /\ Top.pc \in DOMAIN Code[Top.fn]
        /\ Here = Code[Top.fn][Top.pc] /\ Here.op = op
        /\ Here.src \in Reg
        /\ Top.locals \in [Reg -> Val]
        /\ mode = "run"
    BY RunningInstr, RunningFrame DEF Op, At, Here, Instr
  <1>2. LookupAddress \in Val
    <2>1. Top.locals[Here.src] \in Val
      BY <1>1
    <2>. QED
      BY <1>1, <2>1, ReadWrite DEF LookupAddress, OperandToValue
  <1>3. Alu[<<LookupAddress, Here.off>>] = LookupAddress
    BY <1>1, <1>2 DEF Faithful, OffsetsAreZero
  <1>4. M!Here = Here /\ MappedRegs = Top.locals
    BY <1>1, MappedTop
  <1>. QED
    BY <1>3, <1>4, MappedConstants DEF M!Address, LookupAddress, OperandToValue

\* An indirect transfer reaches the function at the address.
LEMMA IndirectRefines ==
    ASSUME Faithful, IInv, GenerateIndirectBranch
    PROVE  M!Indirect
  <1>. DEFINE f == symtab[LookupAddress]
  <1>1. TypeOK
    BY DEF IInv
  <1>2. PICK op \in {"jalr", "jr"} : At(op)
    BY DEF GenerateIndirectBranch
  <1>3. LookupAddress \in DOMAIN symtab /\ Transfer(f, TRUE)
    BY DEF GenerateIndirectBranch
  <1>4. frames # << >> /\ mode = "run"
    BY <1>1, <1>2, RunningFrame DEF At
  <1>5. f \in Fn /\ Start[f] = LookupAddress
    <2>1. PICK A \in SUBSET {Start[g] : g \in Fn} : symtab \in [A -> Fn]
      BY <1>1 DEF TypeOK, Symtab
    <2>2. PICK g \in Fn : Start[g] = LookupAddress
      BY <1>3, <2>1
    <2>. QED
      BY <1>3, <1>4, <2>1, <2>2 DEF IInv, SymtabComplete
  <1>. HIDE DEF f
  <1>6. /\ M!Push(f, ResumeAt)
        /\ MappedRegs' = MappedRegs /\ mode' = mode
    BY <1>2, <1>3, <1>5, TransferRefines
  <1>7. /\ op = "jalr" => ResumeAt = Top.pc + 1
        /\ op = "jr" => ResumeAt = 0
    BY <1>1, <1>2, ResumeRefines
  <1>8. M!Running(op) /\ M!Top.pc = Top.pc /\ M!Address = LookupAddress
    BY <1>1, <1>2, <1>4, MappedTop, AddressRefines DEF Op
  <1>9. CASE op = "jalr"
    BY <1>5, <1>6, <1>7, <1>8, <1>9 DEF M!Indirect
  <1>10. CASE op = "jr"
    BY <1>5, <1>6, <1>7, <1>8, <1>10 DEF M!Indirect
  <1>. QED
    BY <1>9, <1>10

\* An indirect transfer to no function fails in both programs.
LEMMA LookupFailsRefines ==
    ASSUME Faithful, IInv, LookupFails
    PROVE  M!Wild
  <1>1. TypeOK
    BY DEF IInv
  <1>2. PICK op \in {"jalr", "jr"} : At(op)
    BY DEF LookupFails
  <1>3. /\ mode = "run" /\ mode' = "trap"
        /\ LookupAddress \notin DOMAIN symtab
        /\ UNCHANGED <<state, frames, symtab>>
    BY <1>2 DEF LookupFails, At
  <1>4. \A f \in Fn : Start[f] # LookupAddress
    BY <1>1, <1>3, RunningFrame DEF IInv, SymtabComplete
  <1>5. M!Running(op) /\ M!Address = LookupAddress
    BY <1>1, <1>2, <1>3, MappedTop, AddressRefines DEF Op
  <1>6. MappedRegs' = MappedRegs /\ Positions(frames)' = Positions(frames)
    BY <1>3 DEF MappedRegs, Top
  <1>. QED
    BY <1>3, <1>4, <1>5, <1>6 DEF M!Wild

\* A return continues where the machine program continues.
LEMMA ReturnRefines ==
    ASSUME Faithful, IInv, GenerateReturn
    PROVE  M!Ret
  <1>. DEFINE saved == SaveRegisters(state, Top.locals)
              rest == SubSeq(frames, 1, Len(frames) - 1)
              caller == rest[Len(rest)]
              resumed == IF caller.reload
                         THEN [caller EXCEPT !.locals = LoadRegisters(saved, caller.locals)]
                         ELSE caller
  <1>1. TypeOK /\ At("ret")
    BY DEF IInv, GenerateReturn
  <1>2. /\ mode = "run"
        /\ state' = saved /\ saved \in StateType
        /\ rest \in Seq(Frame)
        /\ Len(rest) = Len(frames) - 1
        /\ \A i \in 1..Len(rest) : rest[i] = frames[i]
        /\ rest = << >> => frames' = rest /\ mode' = "done"
        /\ rest # << >> =>
             /\ mode' = "run"
             /\ caller \in Frame
             /\ resumed \in Frame
             /\ LoadRegisters(saved, caller.locals) = Top.locals
             /\ frames' = [rest EXCEPT ![Len(rest)] = resumed]
    BY <1>1, ReturnType
  <1>3. /\ frames \in Seq(Frame) /\ frames # << >> /\ Len(frames) \in Nat \ {0}
        /\ state \in StateType /\ Top.locals \in [Reg -> Val]
    BY <1>1, <1>2, RunningFrame, TopFrame
  <1>4. /\ M!Running("ret") /\ MappedRegs = Top.locals
        /\ Len(Positions(frames)) = Len(frames)
    BY <1>1, <1>2, MappedTop DEF Op
  <1>5. Positions(rest) = M!Pop
    BY <1>3, PositionsPop DEF M!Pop
  <1>6. MaterializeRegisters(saved) = Top.locals
    BY <1>3, RoundTrip
  <1>7. ~FunctionsNop
    BY DEF Faithful
  <1>. HIDE DEF rest, saved
  <1>8. CASE rest = << >>
    <2>1. Len(frames) = 1
      BY <1>2, <1>3, <1>8, EmptySeq
    <2>2. MappedRegs' = MappedRegs
      BY <1>2, <1>4, <1>6, <1>8 DEF MappedRegs
    <2>3. Positions(frames)' = M!Pop
      BY <1>2, <1>5, <1>8
    <2>. QED
      BY <1>2, <1>4, <1>8, <2>1, <2>2, <2>3 DEF M!Ret
  <1>9. CASE rest # << >>
    <2>1. Len(rest) \in 1..Len(rest) /\ Len(rest) \in Nat \ {0}
      BY <1>2, <1>9, TopFrame
    <2>2. caller.reload
      BY <1>2, <1>3, <1>7, <2>1 DEF IInv, ReloadsPending
    <2>3. /\ resumed.locals = Top.locals
          /\ Position(resumed) = Position(caller)
      BY <1>2, <1>9, <2>2 DEF Frame, Position
    <2>. HIDE DEF resumed, caller
    <2>4. /\ frames'[Len(frames')] = resumed
          /\ Len(frames') = Len(rest)
          /\ frames' \in Seq(Frame)
          /\ \A i \in 1..Len(rest) : frames'[i] = IF i = Len(rest) THEN resumed ELSE rest[i]
      BY <1>2, <1>9, ReplaceTop
    <2>5. Positions(frames') = Positions(rest)
      <3>1. \A i \in 1..Len(rest) : Position(frames'[i]) = Position(rest[i])
        BY <2>3, <2>4 DEF caller
      <3>. QED
        BY <2>4, <3>1 DEF Positions
    <2>6. MappedRegs' = MappedRegs
      BY <1>2, <1>4, <1>9, <2>3, <2>4 DEF MappedRegs, Top
    <2>7. Len(frames) # 1
      BY <1>2, <1>3, <2>1
    <2>. QED
      BY <1>2, <1>4, <1>5, <1>9, <2>5, <2>6, <2>7 DEF M!Ret
  <1>. QED
    BY <1>8, <1>9

\* Every step is mapped to a step of the machine program or to none.
LEMMA NextRefines ==
    ASSUME Faithful, IInv, [Next]_vars
    PROVE  [M!Next]_M!vars
  <1>1. ASSUME NEW f \in Fn, HostCall(f)
        PROVE  M!Next
    BY <1>1, HostCallRefines DEF M!Next
  <1>2. CASE GenerateInstruction
    BY <1>2, InstructionRefines DEF M!Next
  <1>3. CASE GenerateBranch
    BY <1>3, BranchRefines DEF M!Next
  <1>4. CASE GenerateJump
    BY <1>4, JumpRefines DEF M!Next
  <1>5. CASE GenerateCall
    BY <1>5, CallRefines DEF M!Next
  <1>6. CASE GenerateIndirectBranch
    BY <1>6, IndirectRefines DEF M!Next
  <1>7. CASE LookupFails
    BY <1>7, LookupFailsRefines DEF M!Next
  <1>8. CASE GenerateReturn
    BY <1>8, ReturnRefines DEF M!Next
  <1>9. CASE UNCHANGED vars
    BY <1>9 DEF vars, M!vars, MappedRegs, Top
  <1>. QED
    BY <1>1, <1>2, <1>3, <1>4, <1>5, <1>6, <1>7, <1>8, <1>9 DEF Next

\* The lifted program does what the machine program does, for every program in
\* which calls do not end their block, tail transfers do, indirect transfers add no
\* offset, and --assume-function-nop is off.
THEOREM Refinement ==
    ASSUME Faithful
    PROVE  Spec => Refines
  <1>1. Init => M!Init
    BY InitRefines
  <1>2. IInv /\ [Next]_vars => [M!Next]_M!vars
    BY NextRefines
  <1>. QED
    BY <1>1, <1>2, Invariance, PTL DEF Spec, Refines, M!Spec

=============================================================================
