---------------------------- MODULE LiftCFGProofs ----------------------------
(***************************************************************************)
(* For all machine functions: the lifter makes well-formed IR of them, and *)
(* the IR goes where the machine function goes.  Some of it holds for      *)
(* every function, some for those that are WellFormed, have LoadsFirst or  *)
(* have TransfersLast, as the theorems say.                                *)
(***************************************************************************)
EXTENDS LiftCFG, FiniteSetTheorems, SequenceTheorems, TLAPS

-----------------------------------------------------------------------------
(* The clone of the function *)

Instrs(n) == src[n].instrs
Size(n) == Len(src[n].instrs)
MovedBlock(n) == replace_uses_of_blocks(clone_basic_block(n))

\* What the assumption says of a function.
LEMMA FunctionIs ==
    ASSUME src \in Functions
    PROVE  /\ Len(src) \in Nat \ {0} /\ DOMAIN src = 1..Len(src)
           /\ \A n \in 1..Len(src) :
                /\ Instrs(n) \in Seq([op : Op, ref : Nat])
                /\ Size(n) \in Nat /\ DOMAIN Instrs(n) = 1..Size(n)
                /\ \A k \in 1..Size(n) : Instrs(n)[k].op \in Op /\ Instrs(n)[k].ref \in 0..Len(src)
                /\ src[n].succs \in Seq(Nat) /\ DOMAIN src[n].succs = 1..Len(src[n].succs)
                /\ \A s \in DOMAIN src[n].succs : src[n].succs[s] \in 1..Len(src)
<1>1. /\ src \in Seq([instrs : Seq([op : Op, ref : Nat]), succs : Seq(Nat)]) /\ src # << >>
      /\ \A n \in DOMAIN src :
            /\ \A k \in DOMAIN src[n].instrs : src[n].instrs[k].ref \in 0..Len(src)
            /\ \A s \in DOMAIN src[n].succs : src[n].succs[s] \in DOMAIN src
  BY FunctionAssumption
<1>2. Len(src) \in Nat \ {0} /\ DOMAIN src = 1..Len(src)
  BY <1>1
<1>3. ASSUME NEW n \in 1..Len(src)
      PROVE  /\ Instrs(n) \in Seq([op : Op, ref : Nat])
             /\ Size(n) \in Nat /\ DOMAIN Instrs(n) = 1..Size(n)
             /\ \A k \in 1..Size(n) : Instrs(n)[k].op \in Op /\ Instrs(n)[k].ref \in 0..Len(src)
             /\ src[n].succs \in Seq(Nat) /\ DOMAIN src[n].succs = 1..Len(src[n].succs)
             /\ \A s \in DOMAIN src[n].succs : src[n].succs[s] \in 1..Len(src)
  <2>1. Instrs(n) \in Seq([op : Op, ref : Nat]) /\ src[n].succs \in Seq(Nat)
    <3>1. src[n] \in [instrs : Seq([op : Op, ref : Nat]), succs : Seq(Nat)]
      BY <1>1, ElementOfSeq
    <3> QED
      BY <3>1 DEF Instrs
  <2>2. /\ Size(n) \in Nat /\ DOMAIN Instrs(n) = 1..Size(n)
        /\ DOMAIN src[n].succs = 1..Len(src[n].succs)
        /\ \A k \in 1..Size(n) : Instrs(n)[k] \in [op : Op, ref : Nat]
    <3>1. Instrs(n) = src[n].instrs /\ Size(n) = Len(Instrs(n))
      BY DEF Size, Instrs
    <3> HIDE DEF Instrs, Size
    <3> QED
      BY <2>1, <3>1, LenProperties, ElementOfSeq
  <2> QED
    BY <1>1, <1>2, <2>1, <2>2 DEF Instrs
<1> QED
  BY <1>2, <1>3

\* A block after both steps: operands name the same blocks, of the clone if the
\* block branches to itself or lists them as successors.
LEMMA MovedIs ==
    ASSUME src \in Functions, NEW n \in 1..Len(src)
    PROVE  /\ Len(MovedBlock(n).instrs) = Size(n) /\ DOMAIN MovedBlock(n).instrs = 1..Size(n)
           /\ \A k \in 1..Size(n) :
                LET i == MovedBlock(n).instrs[k]
                IN  /\ i.op = Instrs(n)[k].op /\ i.ref.block = Instrs(n)[k].ref
                    /\ i.ref.func \in {"src", "dst"}
                    /\ i.ref.func = "dst" => i.ref.block \in 1..Len(src)
                    /\ (isBranch(Instrs(n)[k]) /\ Instrs(n)[k].ref = n)
                          \/ (\E s \in DOMAIN src[n].succs : src[n].succs[s] = Instrs(n)[k].ref)
                       => i.ref.func = "dst"
<1> DEFINE c == clone_basic_block(n)
           m == MovedBlock(n)
           Listed(ref) == \E s \in DOMAIN c.succs : c.succs[s] = ref
<1>1. /\ DOMAIN Instrs(n) = 1..Size(n) /\ Size(n) \in Nat
      /\ \A k \in 1..Size(n) : Instrs(n)[k].ref \in 0..Len(src)
      /\ \A s \in DOMAIN src[n].succs : src[n].succs[s] \in 1..Len(src)
  BY FunctionIs
<1>2. /\ DOMAIN c.instrs = 1..Size(n) /\ DOMAIN c.succs = DOMAIN src[n].succs
      /\ \A k \in 1..Size(n) :
            /\ c.instrs[k].op = Instrs(n)[k].op
            /\ c.instrs[k].ref =
                In(IF isBranch(Instrs(n)[k]) /\ Instrs(n)[k].ref = n THEN "dst" ELSE "src", Instrs(n)[k].ref)
            /\ c.instrs[k] = [op |-> c.instrs[k].op, ref |-> c.instrs[k].ref]
      /\ \A s \in DOMAIN c.succs : c.succs[s] = In("src", src[n].succs[s])
  BY <1>1 DEF clone_basic_block, Instrs
<1> HIDE DEF c
<1>3. /\ DOMAIN m.instrs = DOMAIN c.instrs
      /\ \A k \in DOMAIN c.instrs :
            m.instrs[k] = [c.instrs[k] EXCEPT !.ref =
                IF Listed(c.instrs[k].ref) THEN In("dst", c.instrs[k].ref.block) ELSE c.instrs[k].ref]
  BY DEF MovedBlock, replace_uses_of_blocks, c
<1> HIDE DEF m
<1>4. ASSUME NEW k \in 1..Size(n)
      PROVE  /\ m.instrs[k].op = Instrs(n)[k].op /\ m.instrs[k].ref.block = Instrs(n)[k].ref
             /\ m.instrs[k].ref.func \in {"src", "dst"}
             /\ m.instrs[k].ref.func = "dst" => m.instrs[k].ref.block \in 1..Len(src)
             /\ (isBranch(Instrs(n)[k]) /\ Instrs(n)[k].ref = n)
                  \/ (\E s \in DOMAIN src[n].succs : src[n].succs[s] = Instrs(n)[k].ref)
                => m.instrs[k].ref.func = "dst"
  <2> DEFINE self == isBranch(Instrs(n)[k]) /\ Instrs(n)[k].ref = n
             r == c.instrs[k].ref
  <2>1. r = [func |-> IF self THEN "dst" ELSE "src", block |-> Instrs(n)[k].ref]
    BY <1>2 DEF In
  <2>2. /\ m.instrs[k].op = Instrs(n)[k].op
        /\ m.instrs[k].ref = IF Listed(r) THEN [func |-> "dst", block |-> r.block] ELSE r
    <3>1. /\ k \in DOMAIN c.instrs /\ c.instrs[k].op = Instrs(n)[k].op
          /\ c.instrs[k] = [op |-> c.instrs[k].op, ref |-> r]
      BY <1>2
    <3>2. m.instrs[k] = [c.instrs[k] EXCEPT !.ref =
                IF Listed(r) THEN In("dst", r.block) ELSE r]
      BY <1>3, <3>1
    <3> HIDE DEF Listed, r
    <3> QED
      BY <3>1, <3>2 DEF In
  <2>3. Listed(r) => \E s \in DOMAIN src[n].succs : src[n].succs[s] = Instrs(n)[k].ref
    <3> SUFFICES ASSUME NEW s \in DOMAIN c.succs, c.succs[s] = r
                 PROVE  src[n].succs[s] = Instrs(n)[k].ref /\ s \in DOMAIN src[n].succs
      OBVIOUS
    <3>1. c.succs[s] = [func |-> "src", block |-> src[n].succs[s]] /\ s \in DOMAIN src[n].succs
      BY <1>2 DEF In
    <3> HIDE DEF self, r
    <3>2. r.block = Instrs(n)[k].ref
      BY <2>1
    <3> QED
      BY <3>1, <3>2
  <2>4. (\E s \in DOMAIN src[n].succs : src[n].succs[s] = Instrs(n)[k].ref) /\ ~self => Listed(r)
    BY <1>2, <2>1 DEF In
  <2> HIDE DEF Listed, r
  <2> QED
    BY <1>1, <2>1, <2>2, <2>3, <2>4
<1>5. Len(m.instrs) = Size(n)
  BY <1>1, <1>2, <1>3
<1> QED
  BY <1>2, <1>3, <1>4, <1>5 DEF m

Phases == {"clone", "retarget", "fill", "save", "erase", "done", "rejected"}

\* The clone has a block for each that was visited; those that were visited
\* again have operands and successors in the clone.
ClonedBlocks == UNION {{clone_basic_block(n), MovedBlock(n)} : n \in 1..Len(src)}
Retargeted(n) == phase # "clone" /\ (phase = "retarget" => n < at.block)
CloneInv ==
    /\ src \in Functions /\ phase \in Phases
    /\ at = [block |-> at.block, inst |-> at.inst]
    /\ at.block \in 1..(Len(src) + 1) /\ at.inst \in Nat \ {0}
    /\ phase \in {"clone", "retarget", "fill"} => at.block <= Len(src)
    /\ phase \in {"clone", "retarget"} => at.inst = 1
    /\ phase = "fill" => at.inst <= Size(at.block) + 1
    /\ dst \in Seq(ClonedBlocks)
    /\ Len(dst) = IF phase = "clone" THEN at.block - 1 ELSE Len(src)
    /\ \A n \in 1..Len(dst) :
        dst[n] = IF Retargeted(n) THEN MovedBlock(n) ELSE clone_basic_block(n)

\* Both depend on the source function only.
LEMMA SameBlocks ==
    ASSUME src' = src
    PROVE  /\ \A n : MovedBlock(n)' = MovedBlock(n) /\ clone_basic_block(n)' = clone_basic_block(n)
           /\ \A n : Size(n)' = Size(n) /\ Instrs(n)' = Instrs(n)
<1>1. \A n : clone_basic_block(n)' = clone_basic_block(n)
  BY DEF clone_basic_block, isBranch, In
<1> QED
  BY <1>1 DEF MovedBlock, replace_uses_of_blocks, In, Size, Instrs

\* So does the set of blocks a clone may have.
LEMMA SameClonedBlocks ==
    ASSUME src' = src
    PROVE  ClonedBlocks' = ClonedBlocks
<1>1. \A n : MovedBlock(n)' = MovedBlock(n) /\ clone_basic_block(n)' = clone_basic_block(n)
  BY SameBlocks
<1> QED
  BY <1>1 DEF ClonedBlocks

\* The next block is cloned.
LEMMA CloneBlockKeeps ==
    ASSUME CloneInv, CloneBlock PROVE CloneInv'
<1>1. /\ phase = "clone" /\ dst' = Append(dst, clone_basic_block(at.block)) /\ src' = src
      /\ IF at.block < Len(src)
         THEN at' = [at EXCEPT !.block = @ + 1] /\ phase' = phase
         ELSE at' = [block |-> 1, inst |-> 1] /\ phase' = "retarget"
  BY DEF CloneBlock
<1>2. /\ Len(src) \in Nat \ {0} /\ at.block \in 1..Len(src) /\ at.inst = 1
      /\ at = [block |-> at.block, inst |-> at.inst]
      /\ Len(dst) = at.block - 1 /\ dst \in Seq(ClonedBlocks)
      /\ \A n \in 1..Len(dst) : dst[n] = clone_basic_block(n)
  BY <1>1, FunctionIs DEF CloneInv, Retargeted
<1>3. /\ dst' \in Seq(ClonedBlocks) /\ Len(dst') = at.block
      /\ \A n \in 1..at.block : dst'[n] = clone_basic_block(n)
  <2> DEFINE c == clone_basic_block(at.block)
  <2>1. c \in ClonedBlocks
    BY <1>2 DEF ClonedBlocks
  <2>2. dst' = Append(dst, c)
    BY <1>1
  <2> HIDE DEF c
  <2>3. /\ dst' \in Seq(ClonedBlocks)
        /\ Len(dst') = Len(dst) + 1 /\ \A n \in 1..Len(dst) : dst'[n] = dst[n]
        /\ dst'[Len(dst) + 1] = c
    BY <1>2, <2>1, <2>2, AppendProperties
  <2> QED
    BY <1>2, <2>3 DEF c
<1>4. /\ \A n : MovedBlock(n)' = MovedBlock(n) /\ clone_basic_block(n)' = clone_basic_block(n)
      /\ ClonedBlocks' = ClonedBlocks
  BY <1>1, SameBlocks, SameClonedBlocks
<1>5. CASE at.block < Len(src)
  <2>1. /\ at'.block = at.block + 1 /\ at'.inst = 1 /\ at' = [block |-> at.block + 1, inst |-> 1]
        /\ phase' = "clone"
    BY <1>1, <1>2, <1>5
  <2>2. \A n : ~Retargeted(n)'
    BY <2>1 DEF Retargeted
  <2> QED
    BY <1>1, <1>2, <1>3, <1>4, <1>5, <2>1, <2>2 DEF CloneInv, Phases
<1>6. CASE at.block = Len(src)
  <2>1. at'.block = 1 /\ at'.inst = 1 /\ at' = [block |-> 1, inst |-> 1] /\ phase' = "retarget"
    BY <1>1, <1>6
  <2>2. \A n \in 1..Len(src) : ~Retargeted(n)'
    BY <2>1 DEF Retargeted
  <2> QED
    BY <1>1, <1>2, <1>3, <1>4, <1>6, <2>1, <2>2 DEF CloneInv, Phases
<1> QED
  BY <1>2, <1>5, <1>6

\* The branches of the next clone are moved.
LEMMA RetargetBlockKeeps ==
    ASSUME CloneInv, RetargetBlock PROVE CloneInv'
<1>1. /\ phase = "retarget" /\ src' = src
      /\ dst' = [dst EXCEPT ![at.block] = replace_uses_of_blocks(dst[at.block])]
      /\ IF at.block < Len(dst)
         THEN at' = [at EXCEPT !.block = @ + 1] /\ phase' = phase
         ELSE at' = [block |-> 1, inst |-> 1] /\ phase' = "fill"
  BY DEF RetargetBlock
<1>2. /\ Len(src) \in Nat \ {0} /\ at.block \in 1..Len(src) /\ at.inst = 1
      /\ at = [block |-> at.block, inst |-> at.inst]
      /\ Len(dst) = Len(src) /\ dst \in Seq(ClonedBlocks)
      /\ \A n \in 1..Len(dst) : dst[n] = IF n < at.block THEN MovedBlock(n) ELSE clone_basic_block(n)
  BY <1>1, FunctionIs DEF CloneInv, Retargeted
<1>3. replace_uses_of_blocks(dst[at.block]) = MovedBlock(at.block)
  BY <1>2 DEF MovedBlock
<1>4. /\ dst' \in Seq(ClonedBlocks) /\ Len(dst') = Len(src)
      /\ \A n \in 1..Len(src) :
            dst'[n] = IF n < at.block + 1 THEN MovedBlock(n) ELSE clone_basic_block(n)
  <2>1. MovedBlock(at.block) \in ClonedBlocks
    BY <1>2 DEF ClonedBlocks
  <2>2. dst' = [dst EXCEPT ![at.block] = MovedBlock(at.block)]
    BY <1>1, <1>3
  <2> HIDE DEF MovedBlock, clone_basic_block
  <2>3. /\ dst' \in Seq(ClonedBlocks) /\ Len(dst') = Len(dst)
        /\ \A n \in 1..Len(dst) : dst'[n] = IF n = at.block THEN MovedBlock(at.block) ELSE dst[n]
    BY <1>2, <2>1, <2>2, ExceptSeq
  <2> QED
    BY <1>2, <2>3
<1>5. \A n : /\ MovedBlock(n)' = MovedBlock(n) /\ clone_basic_block(n)' = clone_basic_block(n)
             /\ Size(n)' = Size(n) /\ ClonedBlocks' = ClonedBlocks
  BY <1>1, SameBlocks, SameClonedBlocks
<1>6. CASE at.block < Len(src)
  BY <1>1, <1>2, <1>4, <1>5, <1>6 DEF CloneInv, Retargeted, Phases
<1>7. CASE at.block = Len(src)
  <2>1. Size(1) \in Nat
    <3>1. src \in Functions /\ 1 \in 1..Len(src)
      BY <1>2 DEF CloneInv
    <3> QED
      BY <3>1, FunctionIs
  <2> QED
    BY <1>1, <1>2, <1>4, <1>5, <1>7, <2>1 DEF CloneInv, Retargeted, Phases
<1> QED
  BY <1>2, <1>6, <1>7

\* From then on the clone stays as it is.
LEMMA FillKeepsClone ==
    ASSUME CloneInv, UNCHANGED <<src, dst>>, phase \in Phases \ {"clone", "retarget"},
           phase' \in Phases \ {"clone", "retarget"},
           at' = [block |-> at'.block, inst |-> at'.inst],
           at'.block \in 1..(Len(src) + 1), at'.inst \in Nat \ {0},
           phase' = "fill" => at'.block <= Len(src) /\ at'.inst <= Size(at'.block) + 1
    PROVE  CloneInv'
<1>1. \A n : /\ MovedBlock(n)' = MovedBlock(n) /\ clone_basic_block(n)' = clone_basic_block(n)
             /\ Size(n)' = Size(n) /\ ClonedBlocks' = ClonedBlocks
  BY SameBlocks, SameClonedBlocks
<1>2. \A n : Retargeted(n) /\ Retargeted(n)'
  BY DEF Retargeted, Phases
<1>3. \A n \in 1..Len(dst) : dst[n] = MovedBlock(n)
  BY <1>2 DEF CloneInv
<1> QED
  BY <1>1, <1>2, <1>3 DEF CloneInv, Phases

\* The instruction that is lifted is one of the source function, and its operand
\* is a block of the clone if it lists it.
LEMMA InstIs ==
    ASSUME CloneInv, phase = "fill"
    PROVE  /\ at.block \in 1..Len(src) /\ Len(dst) = Len(src) /\ Len(src) \in Nat \ {0}
           /\ MBB = MovedBlock(at.block) /\ Len(MBB.instrs) = Size(at.block) /\ Size(at.block) \in Nat
           /\ MBB.instrs = << >> <=> Size(at.block) = 0
           /\ \A k \in 1..Size(at.block) :
                LET i == MBB.instrs[k]
                IN  /\ i.op = Instrs(at.block)[k].op /\ i.op \in Op
                    /\ i.ref.block = Instrs(at.block)[k].ref /\ i.ref.block \in 0..Len(src)
                    /\ i.ref.func \in {"src", "dst"}
                    /\ Known(i.ref) => i.ref.block \in 1..Len(src)
<1>1. /\ at.block \in 1..Len(src) /\ Len(dst) = Len(src) /\ Len(src) \in Nat \ {0} /\ src \in Functions
      /\ dst[at.block] = MovedBlock(at.block)
  BY FunctionIs DEF CloneInv, Retargeted
<1>2. MBB = MovedBlock(at.block)
  BY <1>1 DEF MBB
<1>3. /\ Len(MBB.instrs) = Size(at.block) /\ Size(at.block) \in Nat
      /\ DOMAIN MBB.instrs = 1..Size(at.block)
      /\ \A k \in 1..Size(at.block) : Instrs(at.block)[k].op \in Op /\ Instrs(at.block)[k].ref \in 0..Len(src)
  BY <1>1, <1>2, FunctionIs, MovedIs
<1>4. MBB.instrs = << >> <=> Size(at.block) = 0
  <2>1. MBB.instrs = << >> => Len(MBB.instrs) = 0
    BY EmptySeq
  <2>2. MBB.instrs = [k \in 1..Size(at.block) |-> MBB.instrs[k]]
    BY <1>2, <1>3 DEF MovedBlock, replace_uses_of_blocks
  <2>3. Size(at.block) = 0 => MBB.instrs = << >>
    BY <2>2
  <2> QED
    BY <1>3, <2>1, <2>3
<1>5. ASSUME NEW k \in 1..Size(at.block)
      PROVE  LET i == MBB.instrs[k]
             IN  /\ i.op = Instrs(at.block)[k].op /\ i.op \in Op
                 /\ i.ref.block = Instrs(at.block)[k].ref /\ i.ref.block \in 0..Len(src)
                 /\ i.ref.func \in {"src", "dst"}
                 /\ Known(i.ref) => i.ref.block \in 1..Len(src)
  BY <1>1, <1>2, <1>3, MovedIs DEF Known
<1> QED
  BY <1>1, <1>2, <1>3, <1>4, <1>5

-----------------------------------------------------------------------------
(* Pieces of basic blocks *)

Items == [kind : ItemKind, of : Nat \X Nat, to : Seq(Nat)]

\* Its items belong to blocks of the source function, and go to basic blocks
\* that exist.
Placed(bb, blocks, bbs) ==
    \A k \in 1..Len(bb) :
        bb[k].of[1] \in 1..blocks /\ \A t \in DOMAIN bb[k].to : bb[k].to[t] \in 1..bbs

\* What is inserted after what is there.
LEMMA InsertIs ==
    ASSUME ir \in Seq(Seq(Items)), at.block \in 1..Len(ir), ip \in 1..Len(ir),
           NEW loads \in Seq(Items), NEW code \in Seq(Items)
    PROVE  /\ Insert(loads, code) \in Seq(Seq(Items))
           /\ Len(Insert(loads, code)) = Len(ir)
           /\ \A n \in 1..Len(ir) :
                Insert(loads, code)[n] =
                    (ir[n] \o (IF n = at.block THEN loads ELSE << >>)) \o (IF n = ip THEN code ELSE << >>)
<1> DEFINE l == [ir EXCEPT ![at.block] = ir[at.block] \o loads]
           c == [l EXCEPT ![ip] = l[ip] \o code]
<1>1. ir[at.block] \o loads \in Seq(Items)
  BY ElementOfSeq, ConcatProperties
<1>2. /\ l \in Seq(Seq(Items)) /\ Len(l) = Len(ir)
      /\ \A n \in 1..Len(ir) : l[n] = ir[n] \o (IF n = at.block THEN loads ELSE << >>)
  <2>1. /\ l \in Seq(Seq(Items)) /\ Len(l) = Len(ir)
        /\ \A n \in 1..Len(ir) : l[n] = IF n = at.block THEN ir[at.block] \o loads ELSE ir[n]
    BY <1>1, ExceptSeq
  <2>2. \A n \in 1..Len(ir) : ir[n] \o << >> = ir[n]
    BY ElementOfSeq, ConcatEmptySeq
  <2> HIDE DEF l
  <2> QED
    BY <2>1, <2>2
<1>3. Insert(loads, code) = c
  BY DEF Insert
<1> HIDE DEF l
<1>4. l[ip] \o code \in Seq(Items)
  BY <1>2, ElementOfSeq, ConcatProperties
<1>5. /\ c \in Seq(Seq(Items)) /\ Len(c) = Len(ir)
      /\ \A n \in 1..Len(ir) : c[n] = l[n] \o (IF n = ip THEN code ELSE << >>)
  <2>1. /\ c \in Seq(Seq(Items)) /\ Len(c) = Len(l)
        /\ \A n \in 1..Len(l) : c[n] = IF n = ip THEN l[ip] \o code ELSE l[n]
    BY <1>2, <1>4, ExceptSeq
  <2>2. \A n \in 1..Len(l) : l[n] \o << >> = l[n]
    BY <1>2, ElementOfSeq, ConcatEmptySeq
  <2> HIDE DEF c
  <2> QED
    BY <1>2, <2>1, <2>2
<1> QED
  BY <1>2, <1>3, <1>5

\* Two pieces whose targets exist.
LEMMA PlacedConcat ==
    ASSUME NEW s \in Seq(Items), NEW t \in Seq(Items), NEW m \in Nat, NEW n \in Nat,
           Placed(s, m, n), Placed(t, m, n)
    PROVE  Placed(s \o t, m, n)
<1>1. /\ Len(s \o t) = Len(s) + Len(t)
      /\ \A i \in 1 .. Len(s) + Len(t) : (s \o t)[i] = IF i <= Len(s) THEN s[i] ELSE t[i - Len(s)]
      /\ Len(s) \in Nat /\ Len(t) \in Nat
  BY ConcatProperties
<1>2. \A i \in 1..(Len(s) + Len(t)) : i <= Len(s) \/ i - Len(s) \in 1..Len(t)
  BY <1>1
<1> DEFINE u == s \o t
<1> HIDE DEF u
<1> QED
  BY <1>1, <1>2 DEF Placed, u

\* Nothing goes nowhere.
LEMMA PlacedEmpty == \A m, n \in Nat : Placed(<< >>, m, n)
  BY DEF Placed

Term(bb) == \E k \in 1..Len(bb) : IsTerminator(bb[k])

\* The registers are stored before a transfer and loaded after it.
Around(bb) ==
    \A k \in 1..Len(bb) :
        /\ bb[k].kind \in {"xfer", "musttail"} => k > 1 /\ bb[k - 1].kind = "save"
        /\ bb[k].kind = "musttail" \/ (bb[k].kind = "xfer" /\ ~FunctionsNop) =>
            k < Len(bb) /\ bb[k + 1].kind = "reload"

\* The jump that was lifted with the conditional branch before it.
Absorbed ==
    is_branch(Inst) /\ Inst.op = "jmp" /\ at.inst > 1 /\ MBB.instrs[at.inst - 1].op = "cbr"

\* What an instruction other than a conditional branch adds to the IR.
Grown(loads, code) ==
    /\ loads \in Seq(Items) /\ code \in Seq(Items)
    /\ ir' = Insert(loads, code)
    /\ Placed(loads, Len(src), Len(src)) /\ Placed(code, Len(src), Len(src))
    /\ \A k \in 1..Len(loads) : loads[k].kind = "load" /\ loads[k].of = <<at.block, at.inst>>
    /\ \A k \in 1..Len(code) : /\ code[k].kind \notin {"load", "condbr", "prologue"}
                               /\ code[k].of = <<at.block, at.inst>>
    /\ Len(loads) > 0 => Inst.op \in {"plain", "cbr", "jmp", "jalr", "jr", "brind"}
    /\ Len(loads) > 0 /\ Inst.op \in {"cbr", "jmp"} => Inst.ref.block = 0
    /\ (\E k \in 1..Len(code) : code[k].kind = "sem") => Len(loads) > 0
    /\ \A k \in 1..Len(code) : IsTerminator(code[k]) => k = Len(code) /\ Inst.op \in {"jmp", "ret"}
    /\ \A k \in 1..Len(code) : IsTerminator(code[k]) =>
            code[k].to = IF Inst.op = "jmp" THEN <<Inst.ref.block>> ELSE << >>
    /\ (is_branch(Inst) \/ is_return(Inst)) /\ ~Absorbed => Term(code)
    /\ IF Absorbed THEN Len(loads) = 0 /\ Len(code) = 0 ELSE Len(code) > 0
    /\ Around(code)

\* An item of the instruction that is lifted.
LEMMA ItemIs ==
    ASSUME CloneInv, phase = "fill", NEW kind \in ItemKind, NEW to \in Seq(Nat),
           \A t \in DOMAIN to : to[t] \in 1..Len(src)
    PROVE  /\ Item(kind, to) \in Items /\ Item(kind, to).kind = kind
           /\ Item(kind, to).of = <<at.block, at.inst>> /\ Item(kind, to).to = to
           /\ at.block \in 1..Len(src)
           /\ Item(kind, to).of[1] \in 1..Len(src)
<1>1. at.block \in 1..Len(src) /\ at.inst \in Nat /\ Len(src) \in Nat
  BY InstIs DEF CloneInv
<1> QED
  BY <1>1 DEF Item, Items

\* Short pieces.
LEMMA OneItem ==
    ASSUME NEW x \in Items
    PROVE  /\ <<x>> \in Seq(Items) /\ Len(<<x>>) = 1 /\ <<x>>[1] = x
  OBVIOUS

\* Two items in a row.
LEMMA TwoItems ==
    ASSUME NEW x \in Items, NEW y \in Items
    PROVE  <<x, y>> \in Seq(Items) /\ Len(<<x, y>>) = 2 /\ <<x, y>>[1] = x /\ <<x, y>>[2] = y
  OBVIOUS

\* An item that goes nowhere.
LEMMA PlainItemIs ==
    ASSUME CloneInv, phase = "fill", NEW kind \in ItemKind
    PROVE  /\ Item(kind, << >>) \in Items /\ Item(kind, << >>).kind = kind
           /\ Item(kind, << >>).of = <<at.block, at.inst>> /\ Item(kind, << >>).to = << >>
<1>1. << >> \in Seq(Nat) /\ DOMAIN << >> = {}
  OBVIOUS
<1> QED
  BY <1>1, ItemIs

\* The copies around a call.
LEMMA TransferIs ==
    ASSUME CloneInv, phase = "fill", NEW kind \in {"xfer", "musttail"}, NEW reload \in BOOLEAN
    PROVE  LET c == Transfer(Item(kind, << >>), reload)
           IN  /\ c \in Seq(Items) /\ Len(c) = IF reload THEN 3 ELSE 2
               /\ c[1].kind = "save" /\ c[2].kind = kind /\ (reload => c[3].kind = "reload")
               /\ \A k \in 1..Len(c) : c[k].of = <<at.block, at.inst>> /\ c[k].to = << >>
<1> DEFINE save == Item("save", << >>)
           call == Item(kind, << >>)
           rel == Item("reload", << >>)
           c == Transfer(call, reload)
<1>1. /\ save \in Items /\ save.kind = "save" /\ call \in Items /\ call.kind = kind
      /\ rel \in Items /\ rel.kind = "reload"
      /\ \A x \in {save, call, rel} : x.of = <<at.block, at.inst>> /\ x.to = << >>
  <2>1. kind \in ItemKind /\ "save" \in ItemKind /\ "reload" \in ItemKind
    BY DEF ItemKind
  <2> QED
    BY <2>1, PlainItemIs
<1>2. c = <<save, call>> \o (IF reload THEN <<rel>> ELSE << >>)
  BY DEF Transfer
<1> HIDE DEF save, call, rel, c
<1>3. <<save, call>> \in Seq(Items) /\ Len(<<save, call>>) = 2
      /\ <<save, call>>[1] = save /\ <<save, call>>[2] = call
  BY <1>1, TwoItems
<1> DEFINE Is == /\ c \in Seq(Items) /\ Len(c) = IF reload THEN 3 ELSE 2
                 /\ c[1].kind = "save" /\ c[2].kind = kind /\ (reload => c[3].kind = "reload")
                 /\ \A k \in 1..Len(c) : c[k].of = <<at.block, at.inst>> /\ c[k].to = << >>
<1>4. ASSUME reload PROVE Is
  <2>1. <<rel>> \in Seq(Items) /\ Len(<<rel>>) = 1 /\ <<rel>>[1] = rel
    BY <1>1, OneItem
  <2>2. c = <<save, call>> \o <<rel>>
    BY <1>2, <1>4
  <2>3. /\ c \in Seq(Items) /\ Len(c) = 3 /\ c[1] = save /\ c[2] = call /\ c[3] = rel
    BY <1>3, <2>1, <2>2, ConcatProperties
  <2> QED
    BY <1>1, <1>4, <2>3
<1>5. ASSUME ~reload PROVE Is
  <2>1. c = <<save, call>>
    BY <1>2, <1>3, <1>5, ConcatEmptySeq
  <2>2. /\ c \in Seq(Items) /\ Len(c) = 2 /\ c[1] = save /\ c[2] = call
    BY <1>3, <2>1
  <2> QED
    BY <1>1, <1>5, <2>2
<1>6. Is
  BY <1>4, <1>5
<1> QED
  BY <1>6 DEF c, call

\* What each of the steps adds.
LEMMA PlainGrows ==
    ASSUME CloneInv, GeneratePlain PROVE \E loads, code : Grown(loads, code)
<1> DEFINE load == Item("load", << >>)
           sem == Item("sem", << >>)
           loads == <<load>>
           code == <<sem>>
<1>1. /\ phase = "fill" /\ at.inst <= Len(MBB.instrs)
      /\ ~is_return(Inst) /\ ~is_indirect_branch(Inst) /\ ~is_branch(Inst) /\ ~is_call(Inst)
      /\ ir' = Insert(loads, code)
  BY DEF GeneratePlain, Filling
<1>2. /\ load \in Items /\ load.kind = "load" /\ load.of = <<at.block, at.inst>> /\ load.to = << >>
      /\ sem \in Items /\ sem.kind = "sem" /\ sem.of = <<at.block, at.inst>> /\ sem.to = << >>
  BY <1>1, PlainItemIs DEF ItemKind
<1>3. at.block \in 1..Len(src) /\ at.inst \in 1..Size(at.block) /\ Inst.op \in Op
  BY <1>1, InstIs DEF CloneInv, Inst
<1>4. Inst.op \in {"plain", "cbr", "jmp"} /\ (Inst.op \in {"cbr", "jmp"} => Inst.ref.block = 0)
  BY <1>1, <1>3 DEF Op, is_return, is_indirect_branch, is_branch, is_call, HasMBB
<1> HIDE DEF load, sem
<1>5. /\ loads \in Seq(Items) /\ Len(loads) = 1 /\ loads[1] = load
      /\ code \in Seq(Items) /\ Len(code) = 1 /\ code[1] = sem
  BY <1>2, OneItem
<1>6. DOMAIN << >> = {}
  OBVIOUS
<1> HIDE DEF loads, code
<1>7. Placed(loads, Len(src), Len(src)) /\ Placed(code, Len(src), Len(src)) /\ Around(code)
  BY <1>2, <1>3, <1>5, <1>6 DEF Placed, Around
<1>8. ~Absorbed
  BY <1>1 DEF Absorbed
<1>9. Grown(loads, code)
  BY <1>1, <1>2, <1>4, <1>5, <1>7, <1>8 DEF Grown, IsTerminator
<1> QED
  BY <1>9

\* A return is a terminator.
LEMMA ReturnGrows ==
    ASSUME CloneInv, GenerateReturn PROVE \E loads, code : Grown(loads, code)
<1> DEFINE ret == Item("ret", << >>)
           code == <<ret>>
<1>1. /\ phase = "fill" /\ at.inst <= Len(MBB.instrs) /\ Inst.op = "ret"
      /\ ir' = Insert(<< >>, code)
  BY DEF GenerateReturn, Filling, is_return
<1>2. ret \in Items /\ ret.kind = "ret" /\ ret.of = <<at.block, at.inst>> /\ ret.to = << >>
  BY <1>1, PlainItemIs DEF ItemKind
<1>3. at.block \in 1..Len(src)
  BY <1>1, InstIs
<1> HIDE DEF ret
<1>4. /\ code \in Seq(Items) /\ Len(code) = 1 /\ code[1] = ret
      /\ << >> \in Seq(Items) /\ Len(<< >>) = 0 /\ DOMAIN << >> = {}
  BY <1>2, OneItem, EmptySeq
<1> HIDE DEF code
<1>5. Placed(<< >>, Len(src), Len(src)) /\ Placed(code, Len(src), Len(src)) /\ Around(code)
  BY <1>2, <1>3, <1>4 DEF Placed, Around
<1>6. ~Absorbed
  BY <1>1 DEF Absorbed
<1>7. Grown(<< >>, code)
  <2>1. Term(code)
    BY <1>2, <1>4 DEF Term, IsTerminator
  <2> QED
    BY <1>1, <1>2, <1>4, <1>5, <1>6, <2>1 DEF Grown
<1> QED
  BY <1>7

\* A jump is one too, unless it was lifted with the branch before it.
LEMMA JumpGrows ==
    ASSUME CloneInv, GenerateJump, phase' # "rejected",
           ir \in Seq(Seq(Items)), at.block \in 1..Len(ir), ip \in 1..Len(ir)
    PROVE  \E loads, code : Grown(loads, code)
<1> DEFINE br == Item("br", <<Inst.ref.block>>)
           code == <<br>>
<1>1. phase = "fill" /\ at.inst <= Len(MBB.instrs) /\ is_branch(Inst) /\ ~isConditionalBranch(Inst)
  BY DEF GenerateJump, Filling
<1>2. at.inst \in 1..Size(at.block) /\ at.block \in 1..Len(src)
  BY <1>1, InstIs DEF CloneInv
<1>3. Inst.op = "jmp" /\ Inst.ref.block # 0 /\ (Known(Inst.ref) => Inst.ref.block \in 1..Len(src))
  BY <1>1, <1>2, InstIs DEF Inst, is_branch, isConditionalBranch, HasMBB
<1>4. << >> \in Seq(Items) /\ Len(<< >>) = 0
  BY EmptySeq
<1>5. CASE Absorbed
  <2>1. ir' = ir
    BY <1>1, <1>5 DEF GenerateJump, Absorbed, isConditionalBranch
  <2>2. \A n \in 1..Len(ir) : (ir[n] \o << >>) \o << >> = ir[n]
    BY ElementOfSeq, ConcatEmptySeq
  <2>3. Insert(<< >>, << >>) = ir
    <3> DEFINE new == Insert(<< >>, << >>)
    <3>1. /\ new \in Seq(Seq(Items)) /\ Len(new) = Len(ir)
          /\ \A n \in 1..Len(ir) :
                new[n] = (ir[n] \o (IF n = at.block THEN << >> ELSE << >>))
                            \o (IF n = ip THEN << >> ELSE << >>)
      BY <1>4, InsertIs
    <3> HIDE DEF new
    <3>2. \A n \in 1..Len(ir) : new[n] = ir[n]
      BY <2>2, <3>1
    <3>3. new = ir
      BY <3>1, <3>2, SeqEqual
    <3> QED
      BY <3>3 DEF new
  <2>4. Placed(<< >>, Len(src), Len(src)) /\ Around(<< >>)
    BY <1>4 DEF Placed, Around
  <2>5. Grown(<< >>, << >>)
    BY <1>4, <1>5, <2>1, <2>3, <2>4 DEF Grown
  <2> QED
    BY <2>5
<1>6. CASE ~Absorbed
  <2>1. Known(Inst.ref) /\ ir' = Insert(<< >>, code)
    BY <1>1, <1>3, <1>6 DEF GenerateJump, Absorbed, isConditionalBranch, Reject
  <2>2. <<Inst.ref.block>> \in Seq(Nat) /\ \A t \in DOMAIN <<Inst.ref.block>> :
                <<Inst.ref.block>>[t] \in 1..Len(src)
    <3>1. Inst.ref.block \in 1..Len(src)
      BY <1>3, <2>1
    <3> QED
      BY <3>1
  <2>3. /\ br \in Items /\ br.kind = "br" /\ br.of = <<at.block, at.inst>>
        /\ br.to = <<Inst.ref.block>>
        /\ \A t \in DOMAIN br.to : br.to[t] \in 1..Len(src)
    <3> DEFINE to == <<Inst.ref.block>>
    <3> HIDE DEF to
    <3>1. "br" \in ItemKind /\ to \in Seq(Nat) /\ \A t \in DOMAIN to : to[t] \in 1..Len(src)
      BY <2>2 DEF ItemKind, to
    <3>2. /\ Item("br", to) \in Items /\ Item("br", to).kind = "br"
          /\ Item("br", to).of = <<at.block, at.inst>> /\ Item("br", to).to = to
      BY <1>1, <3>1, ItemIs
    <3> QED
      BY <3>1, <3>2 DEF to
  <2> HIDE DEF br
  <2>4. code \in Seq(Items) /\ Len(code) = 1 /\ code[1] = br
    BY <2>3, OneItem
  <2> HIDE DEF code
  <2>5. Placed(<< >>, Len(src), Len(src)) /\ Placed(code, Len(src), Len(src)) /\ Around(code)
    BY <1>2, <1>4, <2>3, <2>4 DEF Placed, Around
  <2>6. Grown(<< >>, code)
    <3>1. Term(code)
      BY <2>3, <2>4 DEF Term, IsTerminator
    <3> QED
      BY <1>3, <1>4, <1>6, <2>1, <2>3, <2>4, <2>5, <3>1 DEF Grown
  <2> QED
    BY <2>6
<1> QED
  BY <1>5, <1>6

\* A call comes with its copies.
LEMMA CallGrows ==
    ASSUME CloneInv, GenerateCall PROVE \E loads, code : Grown(loads, code)
<1> DEFINE code == Transfer(Item("xfer", << >>), ~FunctionsNop)
<1>1. /\ phase = "fill" /\ at.inst <= Len(MBB.instrs) /\ Inst.op \in {"call", "tail"}
      /\ ir' = Insert(<< >>, code)
  BY DEF GenerateCall, Filling, is_call, is_indirect_branch
<1>2. at.block \in 1..Len(src) /\ FunctionsNop \in BOOLEAN
  BY <1>1, InstIs, FunctionAssumption
<1>3. /\ code \in Seq(Items) /\ Len(code) = IF ~FunctionsNop THEN 3 ELSE 2
      /\ code[1].kind = "save" /\ code[2].kind = "xfer" /\ (~FunctionsNop => code[3].kind = "reload")
      /\ \A k \in 1..Len(code) : code[k].of = <<at.block, at.inst>> /\ code[k].to = << >>
  BY <1>1, <1>2, TransferIs
<1> HIDE DEF code
<1>4. << >> \in Seq(Items) /\ Len(<< >>) = 0 /\ DOMAIN << >> = {}
  BY EmptySeq
<1>5. Placed(<< >>, Len(src), Len(src)) /\ Placed(code, Len(src), Len(src)) /\ Around(code)
  BY <1>2, <1>3, <1>4 DEF Placed, Around
<1>6. ~Absorbed /\ ~is_branch(Inst) /\ ~is_return(Inst)
  BY <1>1 DEF Absorbed, is_branch, is_return
<1>7. Grown(<< >>, code)
  <2>1. \A k \in 1..Len(code) : code[k].kind \in {"save", "xfer", "reload"}
    BY <1>3
  <2> QED
    BY <1>1, <1>3, <1>4, <1>5, <1>6, <2>1 DEF Grown, IsTerminator
<1> QED
  BY <1>7

\* An indirect branch loads its operand and is a call with its copies.
LEMMA IndirectGrows ==
    ASSUME CloneInv, GenerateIndirectBranch PROVE \E loads, code : Grown(loads, code)
<1> DEFINE load == Item("load", << >>)
           sem == Item("sem", << >>)
           t == Transfer(Item("musttail", << >>), TRUE)
           loads == <<load>>
           code == <<sem>> \o t
<1>1. /\ phase = "fill" /\ at.inst <= Len(MBB.instrs) /\ Inst.op \in {"jalr", "jr", "brind"}
      /\ ir' = Insert(loads, code)
  BY DEF GenerateIndirectBranch, Filling, is_indirect_branch
<1>2. /\ load \in Items /\ load.kind = "load" /\ load.of = <<at.block, at.inst>> /\ load.to = << >>
      /\ sem \in Items /\ sem.kind = "sem" /\ sem.of = <<at.block, at.inst>> /\ sem.to = << >>
  BY <1>1, PlainItemIs DEF ItemKind
<1>3. at.block \in 1..Len(src)
  BY <1>1, InstIs
<1>4. /\ t \in Seq(Items) /\ Len(t) = 3
      /\ t[1].kind = "save" /\ t[2].kind = "musttail" /\ t[3].kind = "reload"
      /\ \A k \in 1..3 : t[k].of = <<at.block, at.inst>> /\ t[k].to = << >>
  BY <1>1, TransferIs
<1> HIDE DEF load, sem, t
<1>5. /\ loads \in Seq(Items) /\ Len(loads) = 1 /\ loads[1] = load
      /\ <<sem>> \in Seq(Items) /\ Len(<<sem>>) = 1 /\ <<sem>>[1] = sem
  BY <1>2, OneItem
<1>6. /\ code \in Seq(Items) /\ Len(code) = 4 /\ code[1] = sem
      /\ code[2] = t[1] /\ code[3] = t[2] /\ code[4] = t[3]
  <2> DEFINE s == <<sem>>
  <2>1. s \in Seq(Items) /\ Len(s) = 1 /\ s[1] = sem
    BY <1>5
  <2> HIDE DEF s
  <2>2. /\ s \o t \in Seq(Items) /\ Len(s \o t) = 4
        /\ \A i \in 1..4 : (s \o t)[i] = IF i <= 1 THEN s[i] ELSE t[i - 1]
    <3>1. s \in Seq(Items) /\ t \in Seq(Items)
      BY <1>4, <2>1
    <3>2. /\ s \o t \in Seq(Items) /\ Len(s \o t) = Len(s) + Len(t)
          /\ \A i \in 1 .. Len(s) + Len(t) : (s \o t)[i] = IF i <= Len(s) THEN s[i] ELSE t[i - Len(s)]
      BY <3>1, ConcatProperties
    <3> QED
      BY <1>4, <2>1, <3>2
  <2>3. code = s \o t
    BY DEF s
  <2> HIDE DEF code
  <2> QED
    BY <2>1, <2>2, <2>3
<1>7. DOMAIN << >> = {}
  OBVIOUS
<1> HIDE DEF loads, code
<1>8. Placed(loads, Len(src), Len(src)) /\ Placed(code, Len(src), Len(src)) /\ Around(code)
  <2>1. \A k \in 1..4 : k = 1 \/ k = 2 \/ k = 3 \/ k = 4
    OBVIOUS
  <2>2. \A k \in 1..4 : code[k].of = <<at.block, at.inst>> /\ code[k].to = << >>
    BY <1>2, <1>4, <1>6, <2>1
  <2>3. Placed(code, Len(src), Len(src))
    BY <1>3, <1>6, <1>7, <2>2 DEF Placed
  <2>4. Around(code)
    BY <1>2, <1>4, <1>6, <2>1 DEF Around
  <2> QED
    BY <1>2, <1>3, <1>5, <1>7, <2>3, <2>4 DEF Placed
<1>9. ~Absorbed /\ ~is_branch(Inst) /\ ~is_return(Inst)
  BY <1>1 DEF Absorbed, is_branch, is_return
<1>10. \A k \in 1..Len(code) : code[k].kind \in {"sem", "save", "musttail", "reload"}
                               /\ code[k].of = <<at.block, at.inst>>
  BY <1>2, <1>4, <1>6
<1>11. Grown(loads, code)
  BY <1>1, <1>2, <1>5, <1>6, <1>8, <1>9, <1>10 DEF Grown, IsTerminator
<1> QED
  BY <1>11

-----------------------------------------------------------------------------
(* The IR grows: basic blocks are appended to, and one may be added *)

Adds(loads, code) ==
    /\ loads \in Seq(Items) /\ code \in Seq(Items)
    /\ ir' \in Seq(Seq(Items)) /\ Len(ir') \in {Len(ir), Len(ir) + 1}
    /\ Placed(loads, Len(src), Len(ir')) /\ Placed(code, Len(src), Len(ir'))
    /\ \A n \in 1..Len(ir) :
        ir'[n] = (ir[n] \o (IF n = at.block THEN loads ELSE << >>)) \o (IF n = ip THEN code ELSE << >>)
    /\ \A n \in 1..Len(ir') : n > Len(ir) => ir'[n] = << >>

\* Basic blocks: those of the clone, and later those that are added; nothing
\* in them until all branches are moved.
IrInv ==
    /\ ir \in Seq(Seq(Items)) /\ Len(dst) <= Len(ir)
    /\ phase \in {"clone", "retarget"} =>
        ip = 1 /\ Len(ir) = Len(dst) /\ \A n \in 1..Len(ir) : ir[n] = << >>
    /\ phase = "fill" => ip \in 1..Len(ir)
    /\ ip \in 1..(Len(ir) + 1)
    /\ \A n \in 1..Len(ir) : Placed(ir[n], Len(src), Len(ir))

\* What the invariants say of the IR.
LEMMA IrIs ==
    ASSUME CloneInv, IrInv
    PROVE  /\ Len(ir) \in Nat /\ Len(src) \in Nat \ {0} /\ Len(dst) \in Nat
           /\ \A n \in 1..Len(ir) : ir[n] \in Seq(Items) /\ Len(ir[n]) \in Nat
           /\ phase = "fill" => at.block \in 1..Len(ir) /\ ip \in 1..Len(ir) /\ Len(src) <= Len(ir)
<1>1. /\ Len(src) \in Nat \ {0} /\ Len(ir) \in Nat /\ Len(dst) \in Nat
  BY FunctionIs DEF CloneInv, IrInv
<1>2. \A n \in 1..Len(ir) : ir[n] \in Seq(Items) /\ Len(ir[n]) \in Nat
  BY ElementOfSeq, LenProperties DEF IrInv
<1>3. phase = "fill" => Len(dst) = Len(src) /\ at.block \in 1..Len(src)
  BY InstIs
<1> QED
  BY <1>1, <1>2, <1>3 DEF IrInv

\* Basic blocks are added, never removed.
LEMMA PlacedFurther ==
    ASSUME NEW bb, NEW m \in Nat, NEW n \in Nat, NEW o \in Nat, n <= o, Placed(bb, m, n)
    PROVE  Placed(bb, m, o)
<1>1. \A x \in 1..n : x \in 1..o
  OBVIOUS
<1> QED
  BY <1>1 DEF Placed

\* All but conditional branches append to basic blocks.
LEMMA GrownAdds ==
    ASSUME CloneInv, IrInv, phase = "fill", NEW loads, NEW code, Grown(loads, code)
    PROVE  Adds(loads, code) /\ Len(ir') = Len(ir)
<1>1. /\ loads \in Seq(Items) /\ code \in Seq(Items) /\ ir' = Insert(loads, code)
      /\ Placed(loads, Len(src), Len(src)) /\ Placed(code, Len(src), Len(src))
  BY DEF Grown
<1>2. /\ ir \in Seq(Seq(Items)) /\ at.block \in 1..Len(ir) /\ ip \in 1..Len(ir)
      /\ Len(src) \in Nat /\ Len(ir) \in Nat /\ Len(src) <= Len(ir)
  BY IrIs DEF IrInv
<1>3. /\ ir' \in Seq(Seq(Items)) /\ Len(ir') = Len(ir)
      /\ \A n \in 1..Len(ir) :
            ir'[n] = (ir[n] \o (IF n = at.block THEN loads ELSE << >>)) \o (IF n = ip THEN code ELSE << >>)
  BY <1>1, <1>2, InsertIs
<1>4. Placed(loads, Len(src), Len(ir')) /\ Placed(code, Len(src), Len(ir'))
  BY <1>1, <1>2, <1>3, PlacedFurther
<1>5. \A n \in 1..Len(ir') : ~(n > Len(ir))
  BY <1>2, <1>3
<1> QED
  BY <1>1, <1>3, <1>4, <1>5 DEF Adds

\* Appended pieces that go to existing basic blocks keep the invariant.
LEMMA AddsKeeps ==
    ASSUME CloneInv, IrInv, phase = "fill", UNCHANGED <<src, dst>>,
           phase' \in Phases \ {"clone", "retarget"},
           NEW loads, NEW code, Adds(loads, code),
           ip' \in 1..(Len(ir') + 1), phase' = "fill" => ip' \in 1..Len(ir')
    PROVE  IrInv'
<1>1. /\ loads \in Seq(Items) /\ code \in Seq(Items)
      /\ ir' \in Seq(Seq(Items)) /\ Len(ir') \in {Len(ir), Len(ir) + 1}
      /\ Placed(loads, Len(src), Len(ir')) /\ Placed(code, Len(src), Len(ir'))
      /\ \A n \in 1..Len(ir) :
            ir'[n] = (ir[n] \o (IF n = at.block THEN loads ELSE << >>)) \o (IF n = ip THEN code ELSE << >>)
      /\ \A n \in 1..Len(ir') : n > Len(ir) => ir'[n] = << >>
  BY DEF Adds
<1>2. /\ Len(ir) \in Nat /\ Len(src) \in Nat /\ Len(dst) \in Nat
      /\ \A n \in 1..Len(ir) : ir[n] \in Seq(Items) /\ Placed(ir[n], Len(src), Len(ir))
      /\ Len(dst) <= Len(ir)
  BY IrIs DEF IrInv
<1>3. Len(ir') \in Nat /\ Len(ir) <= Len(ir') /\ Len(dst) <= Len(ir')
  BY <1>1, <1>2
<1>4. << >> \in Seq(Items) /\ Placed(<< >>, Len(src), Len(ir'))
  BY <1>2, <1>3, PlacedEmpty
<1>5. ASSUME NEW n \in 1..Len(ir') PROVE Placed(ir'[n], Len(src), Len(ir'))
  <2>1. CASE n > Len(ir)
    BY <1>1, <1>4, <2>1
  <2>2. CASE n <= Len(ir)
    <3> DEFINE s == IF n = at.block THEN loads ELSE << >>
               t == IF n = ip THEN code ELSE << >>
               u == ir[n]
               v == u \o s
    <3>1. /\ s \in Seq(Items) /\ Placed(s, Len(src), Len(ir'))
          /\ t \in Seq(Items) /\ Placed(t, Len(src), Len(ir'))
      BY <1>1, <1>4
    <3>2. n \in 1..Len(ir)
      BY <1>2, <1>3, <2>2
    <3>3. u \in Seq(Items) /\ Placed(u, Len(src), Len(ir))
      BY <1>2, <3>2
    <3>4. ir'[n] = v \o t
      BY <1>1, <3>2
    <3> HIDE DEF s, t, u
    <3>5. Placed(u, Len(src), Len(ir'))
      BY <1>2, <1>3, <3>3, PlacedFurther
    <3>6. v \in Seq(Items) /\ Placed(v, Len(src), Len(ir'))
      BY <1>2, <1>3, <3>1, <3>3, <3>5, PlacedConcat, ConcatProperties
    <3> HIDE DEF v
    <3> QED
      BY <1>2, <1>3, <3>1, <3>4, <3>6, PlacedConcat
  <2> QED
    BY <1>2, <1>3, <2>1, <2>2
<1> QED
  BY <1>1, <1>3, <1>5 DEF IrInv, Placed
\* What a conditional branch adds, and where the builder goes.
Next1 == MBB.instrs[at.inst + 1]
Branches(loads, code) ==
    /\ Adds(loads, code) /\ ip' \in 1..Len(ir')
    /\ Len(loads) = 1 /\ loads[1].kind = "load" /\ loads[1].of = <<at.block, at.inst>>
    /\ Len(code) = 2 /\ code[1].kind = "sem" /\ code[2].kind = "condbr"
    /\ code[1].of = <<at.block, at.inst>> /\ code[2].of = <<at.block, at.inst>>
    /\ code[2].to = <<Inst.ref.block, ip'>>
    /\ IF at.inst = Size(at.block)
       THEN at.block < Len(src) /\ ip' = at.block + 1 /\ Len(ir') = Len(ir)
       ELSE IF isUnconditionalBranch(Next1) THEN ip' \in 1..Len(src) /\ Len(ir') = Len(ir)
       ELSE ip' = Len(ir) + 1 /\ Len(ir') = Len(ir) + 1

\* The next basic block, the target of the branch that follows, or a new one.
LEMMA FalseBlockIs ==
    ASSUME CloneInv, IrInv, phase = "fill", at.inst \in 1..Size(at.block), Known(if_false_block)
    PROVE  IF at.inst = Size(at.block)
           THEN at.block < Len(src) /\ if_false_block.block = at.block + 1
           ELSE IF isUnconditionalBranch(Next1) THEN if_false_block.block \in 1..Len(src)
           ELSE if_false_block.block = Len(ir) + 1
<1>1. /\ Len(MBB.instrs) = Size(at.block) /\ Size(at.block) \in Nat /\ Len(dst) = Len(src)
      /\ at.block \in 1..Len(src) /\ Len(src) \in Nat
  BY InstIs
<1>2. CASE at.inst = Size(at.block)
  <2>1. if_false_block = In(IF at.block < Len(dst) THEN "dst" ELSE "end", at.block + 1)
    BY <1>1, <1>2 DEF if_false_block
  <2>2. if_false_block.block = at.block + 1
    BY <2>1 DEF In
  <2>3. at.block < Len(dst)
    BY <2>1 DEF In, Known
  <2> QED
    BY <1>1, <1>2, <2>2, <2>3
<1>3. CASE at.inst < Size(at.block)
  <2>1. if_false_block = IF isUnconditionalBranch(Next1) THEN Next1.ref ELSE In("dst", Len(ir) + 1)
    BY <1>1, <1>3 DEF if_false_block, Next1
  <2>2. at.inst + 1 \in 1..Size(at.block)
    BY <1>1, <1>3
  <2>3. Known(Next1.ref) => Next1.ref.block \in 1..Len(src)
    BY <2>2, InstIs DEF Next1
  <2>4. CASE isUnconditionalBranch(Next1)
    BY <1>3, <2>1, <2>3, <2>4
  <2>5. CASE ~isUnconditionalBranch(Next1)
    <3>1. if_false_block.block = Len(ir) + 1
      BY <2>1, <2>5 DEF In
    <3> QED
      BY <1>3, <2>5, <3>1
  <2> QED
    BY <2>4, <2>5
<1> QED
  BY <1>1, <1>2, <1>3

\* A conditional branch appends to basic blocks, and may add one.
LEMMA BranchAdds ==
    ASSUME CloneInv, IrInv, GenerateBranch, phase' # "rejected"
    PROVE  \E loads, code : Branches(loads, code)
<1> DEFINE f == if_false_block.block
           to == <<Inst.ref.block, f>>
           load == Item("load", << >>)
           sem == Item("sem", << >>)
           cond == Item("condbr", to)
           loads == <<load>>
           code == <<sem, cond>>
           lifted == Insert(loads, code)
<1>1. /\ phase = "fill" /\ at.inst <= Len(MBB.instrs) /\ Inst.op = "cbr"
      /\ Known(Inst.ref) /\ Known(if_false_block)
      /\ ir' = IF f > Len(ir) THEN Append(lifted, << >>) ELSE lifted
      /\ ip' = f
  BY DEF GenerateBranch, Filling, isConditionalBranch, Reject
<1>2. at.inst \in 1..Size(at.block) /\ at.block \in 1..Len(src)
  BY <1>1, InstIs DEF CloneInv
<1>3. IF at.inst = Size(at.block) THEN at.block < Len(src) /\ f = at.block + 1
      ELSE IF isUnconditionalBranch(Next1) THEN f \in 1..Len(src)
      ELSE f = Len(ir) + 1
  BY <1>1, <1>2, FalseBlockIs
<1>4. Inst.ref.block \in 1..Len(src)
  BY <1>1, <1>2, InstIs DEF Inst
<1>5. /\ Len(ir) \in Nat /\ Len(src) \in Nat /\ Len(src) <= Len(ir) /\ ir \in Seq(Seq(Items))
      /\ at.block \in 1..Len(ir) /\ ip \in 1..Len(ir)
  BY <1>1, IrIs DEF IrInv
<1> HIDE DEF f
<1>6. f \in 1..(Len(ir) + 1)
  BY <1>2, <1>3, <1>5
<1>7. /\ to \in Seq(Nat) /\ to \in Seq(1..(Len(ir) + 1)) /\ DOMAIN to = {1, 2}
      /\ to[1] = Inst.ref.block /\ to[2] = f
  BY <1>4, <1>5, <1>6
<1> HIDE DEF to
<1>8. /\ load \in Items /\ load.kind = "load" /\ load.of = <<at.block, at.inst>> /\ load.to = << >>
      /\ sem \in Items /\ sem.kind = "sem" /\ sem.of = <<at.block, at.inst>> /\ sem.to = << >>
  BY <1>1, PlainItemIs DEF ItemKind
<1>9. cond \in Items /\ cond.kind = "condbr" /\ cond.of = <<at.block, at.inst>> /\ cond.to = to
  <2>1. at.block \in Nat /\ at.inst \in Nat
    BY <1>2, <1>5 DEF CloneInv
  <2> QED
    BY <1>7, <2>1 DEF Item, Items, ItemKind
<1> HIDE DEF load, sem, cond
<1>10. /\ loads \in Seq(Items) /\ Len(loads) = 1 /\ loads[1] = load
       /\ code \in Seq(Items) /\ Len(code) = 2 /\ code[1] = sem /\ code[2] = cond
  BY <1>8, <1>9, OneItem, TwoItems
<1> HIDE DEF loads, code
<1>11. /\ lifted \in Seq(Seq(Items)) /\ Len(lifted) = Len(ir)
       /\ \A n \in 1..Len(ir) :
            lifted[n] = (ir[n] \o (IF n = at.block THEN loads ELSE << >>)) \o (IF n = ip THEN code ELSE << >>)
  BY <1>5, <1>10, InsertIs
<1> HIDE DEF lifted
<1>12. /\ ir' \in Seq(Seq(Items)) /\ Len(ir') = IF f > Len(ir) THEN Len(ir) + 1 ELSE Len(ir)
       /\ \A n \in 1..Len(ir) : ir'[n] = lifted[n]
       /\ \A n \in 1..Len(ir') : n > Len(ir) => ir'[n] = << >>
  <2>1. CASE f > Len(ir)
    <3>1. << >> \in Seq(Items)
      BY EmptySeq
    <3>2. /\ ir' \in Seq(Seq(Items)) /\ Len(ir') = Len(ir) + 1
          /\ \A n \in 1..Len(ir) : ir'[n] = lifted[n]
          /\ ir'[Len(ir) + 1] = << >>
      BY <1>1, <1>11, <2>1, <3>1, AppendProperties
    <3>3. \A m \in Nat : \A n \in 1..(m + 1) : n > m => n = m + 1
      OBVIOUS
    <3>4. Len(ir) \in Nat
      BY <1>5
    <3>5. \A n \in 1..(Len(ir) + 1) : n > Len(ir) => n = Len(ir) + 1
      BY <3>3, <3>4
    <3> QED
      BY <2>1, <3>2, <3>5
  <2>2. CASE ~(f > Len(ir))
    <3>1. ir' = lifted
      BY <1>1, <2>2
    <3>2. \A n \in 1..Len(ir) : ~(n > Len(ir))
      BY <1>5
    <3> QED
      BY <1>11, <2>2, <3>1, <3>2
  <2> QED
    BY <2>1, <2>2
<1>13. ip' \in 1..Len(ir') /\ Len(ir') \in {Len(ir), Len(ir) + 1}
  BY <1>1, <1>5, <1>6, <1>12
<1>14. Placed(loads, Len(src), Len(ir')) /\ Placed(code, Len(src), Len(ir'))
  <2>1. Inst.ref.block \in 1..Len(ir') /\ f \in 1..Len(ir') /\ DOMAIN << >> = {}
    <3>1. \A x, y, z \in Nat : \A r \in 1..x : x <= y /\ z \in {y, y + 1} => r \in 1..z
      OBVIOUS
    <3>2. Len(src) \in Nat /\ Len(ir) \in Nat /\ Len(ir') \in Nat /\ Len(src) <= Len(ir)
      BY <1>5, <1>12
    <3>3. Inst.ref.block \in 1..Len(ir')
      BY <1>4, <1>13, <3>1, <3>2
    <3>4. f = ip'
      BY <1>1
    <3> QED
      BY <1>13, <3>3, <3>4
  <2>2. Placed(loads, Len(src), Len(ir'))
    BY <1>2, <1>8, <1>10, <2>1 DEF Placed
  <2>3. \A t \in DOMAIN cond.to : cond.to[t] \in 1..Len(ir')
    BY <1>7, <1>9, <2>1
  <2>4. Placed(code, Len(src), Len(ir'))
    BY <1>2, <1>8, <1>9, <1>10, <2>1, <2>3 DEF Placed
  <2> QED
    BY <2>2, <2>4
<1>15. Adds(loads, code)
  BY <1>10, <1>11, <1>12, <1>13, <1>14 DEF Adds
<1>16. IF at.inst = Size(at.block)
       THEN at.block < Len(src) /\ ip' = at.block + 1 /\ Len(ir') = Len(ir)
       ELSE IF isUnconditionalBranch(Next1) THEN ip' \in 1..Len(src) /\ Len(ir') = Len(ir)
       ELSE ip' = Len(ir) + 1 /\ Len(ir') = Len(ir) + 1
  <2>1. ip' = f /\ Len(ir') = IF f > Len(ir) THEN Len(ir) + 1 ELSE Len(ir)
    BY <1>1, <1>12
  <2>2. /\ \A x, y, n \in Nat : x <= y /\ n \in 1..x => ~(n > y)
        /\ \A x, y, b \in Nat : x <= y /\ b < x => ~(b + 1 > y)
        /\ \A y \in Nat : y + 1 > y
    OBVIOUS
  <2>3. Len(ir) \in Nat /\ Len(src) \in Nat /\ Len(src) <= Len(ir) /\ at.block \in Nat
    BY <1>2, <1>5
  <2> QED
    BY <1>3, <2>1, <2>2, <2>3
<1>17. code[2].to = <<Inst.ref.block, ip'>>
  BY <1>1, <1>9, <1>10 DEF to
<1>18. Branches(loads, code)
  BY <1>8, <1>9, <1>10, <1>13, <1>15, <1>16, <1>17 DEF Branches
<1> QED
  BY <1>18

\* What the end of a block adds.
Finishes(code) ==
    /\ Adds(<< >>, code) /\ Len(ir') = Len(ir)
    /\ Size(at.block) > 0 /\ at.inst = Size(at.block) + 1
    /\ \A k \in 1..Len(code) : code[k].of = <<at.block, at.inst>>
    /\ LET last == MBB.instrs[Size(at.block)]
       IN  IF is_branch(last) \/ is_return(last) THEN Len(code) = 0
           ELSE IF is_call(last) THEN Len(code) = 1 /\ code[1].kind = "ret" /\ code[1].to = << >>
           ELSE /\ Len(code) = 1 /\ code[1].kind = "br" /\ code[1].to = <<at.block + 1>>
                /\ at.block < Len(src)

\* The end of a block appends its closing code.
LEMMA FinishAdds ==
    ASSUME CloneInv, IrInv, FinishBlock, phase' # "rejected"
    PROVE  \E code : Finishes(code)
<1> DEFINE last == MBB.instrs[Size(at.block)]
           code == ClosingCode(last)
<1>1. /\ phase = "fill" /\ at.inst > Len(MBB.instrs) /\ Len(MBB.instrs) = Size(at.block)
      /\ Len(dst) = Len(src) /\ at.block \in 1..Len(src) /\ Len(src) \in Nat /\ Size(at.block) \in Nat
      /\ MBB.instrs = << >> <=> Size(at.block) = 0
  BY InstIs DEF FinishBlock
<1>2. /\ MBB.instrs # << >> /\ ir' = Insert(<< >>, code)
      /\ ~(at.block = Len(dst) /\ ~is_branch(last) /\ ~is_return(last) /\ ~is_call(last))
  BY <1>1 DEF FinishBlock, Reject
<1>3. Size(at.block) > 0 /\ at.inst = Size(at.block) + 1
  BY <1>1, <1>2 DEF CloneInv
<1>4. /\ Len(ir) \in Nat /\ Len(src) <= Len(ir) /\ ir \in Seq(Seq(Items))
      /\ at.block \in 1..Len(ir) /\ ip \in 1..Len(ir)
  BY <1>1, IrIs DEF IrInv
<1>5. /\ << >> \in Seq(Items) /\ Len(<< >>) = 0 /\ DOMAIN << >> = {}
      /\ Placed(<< >>, Len(src), Len(ir))
  BY <1>1, <1>4, EmptySeq, PlacedEmpty
<1> DEFINE Is == /\ code \in Seq(Items) /\ Placed(code, Len(src), Len(ir))
                 /\ \A k \in 1..Len(code) : code[k].of = <<at.block, at.inst>>
                 /\ IF is_branch(last) \/ is_return(last) THEN Len(code) = 0
                    ELSE IF is_call(last) THEN Len(code) = 1 /\ code[1].kind = "ret" /\ code[1].to = << >>
                    ELSE /\ Len(code) = 1 /\ code[1].kind = "br" /\ code[1].to = <<at.block + 1>>
                         /\ at.block < Len(src)
<1>6. ASSUME is_branch(last) \/ is_return(last) PROVE Is
  <2>1. code = << >>
    BY <1>6 DEF ClosingCode
  <2> HIDE DEF code
  <2> QED
    BY <1>5, <1>6, <2>1
<1>7. ASSUME ~(is_branch(last) \/ is_return(last)), is_call(last) PROVE Is
  <2> DEFINE ret == Item("ret", << >>)
  <2>1. code = <<ret>>
    BY <1>7 DEF ClosingCode
  <2>2. ret \in Items /\ ret.kind = "ret" /\ ret.of = <<at.block, at.inst>> /\ ret.to = << >>
    BY <1>1, PlainItemIs DEF ItemKind
  <2> HIDE DEF ret, code
  <2>3. code \in Seq(Items) /\ Len(code) = 1 /\ code[1] = ret
    BY <2>1, <2>2, OneItem
  <2>4. Placed(code, Len(src), Len(ir))
    BY <1>1, <1>5, <2>2, <2>3 DEF Placed
  <2> QED
    BY <1>7, <2>2, <2>3, <2>4
<1>8. ASSUME ~(is_branch(last) \/ is_return(last)), ~is_call(last) PROVE Is
  <2> DEFINE to == <<at.block + 1>>
             br == Item("br", to)
  <2>1. code = <<br>>
    BY <1>8 DEF ClosingCode
  <2>2. at.block < Len(src) /\ at.block + 1 \in 1..Len(ir) /\ at.block + 1 \in 1..Len(src)
    <3>1. at.block # Len(src) /\ at.block \in 1..Len(src)
      BY <1>1, <1>2, <1>8
    <3>2. \A m, o \in Nat : \A b \in 1..m :
            m <= o /\ b # m => b < m /\ b + 1 \in 1..o /\ b + 1 \in 1..m
      OBVIOUS
    <3> QED
      BY <1>1, <1>4, <3>1, <3>2
  <2>3. /\ to \in Seq(Nat) /\ \A t \in DOMAIN to : to[t] \in 1..Len(ir)
        /\ \A t \in DOMAIN to : to[t] \in 1..Len(src)
    BY <2>2
  <2> HIDE DEF to
  <2>4. br \in Items /\ br.kind = "br" /\ br.of = <<at.block, at.inst>> /\ br.to = to
    <3>1. "br" \in ItemKind
      BY DEF ItemKind
    <3> QED
      BY <1>1, <2>3, <3>1, ItemIs
  <2> HIDE DEF br, code
  <2>5. code \in Seq(Items) /\ Len(code) = 1 /\ code[1] = br
    BY <2>1, <2>4, OneItem
  <2>6. Placed(code, Len(src), Len(ir))
    BY <1>1, <2>3, <2>4, <2>5 DEF Placed
  <2> QED
    BY <1>8, <2>2, <2>4, <2>5, <2>6 DEF to
<1>9. Is
  BY <1>6, <1>7, <1>8
<1> HIDE DEF code
<1>10. Adds(<< >>, code) /\ Len(ir') = Len(ir)
  <2>1. /\ ir' \in Seq(Seq(Items)) /\ Len(ir') = Len(ir)
        /\ \A n \in 1..Len(ir) :
            ir'[n] = (ir[n] \o (IF n = at.block THEN << >> ELSE << >>)) \o (IF n = ip THEN code ELSE << >>)
    BY <1>2, <1>4, <1>5, <1>9, InsertIs
  <2>2. \A m \in Nat : \A n \in 1..m : ~(n > m)
    OBVIOUS
  <2>3. \A n \in 1..Len(ir') : ~(n > Len(ir))
    BY <1>4, <2>1, <2>2
  <2> QED
    BY <1>5, <1>9, <2>1, <2>3 DEF Adds
<1>11. Finishes(code)
  BY <1>3, <1>9, <1>10 DEF Finishes
<1> QED
  BY <1>11
-----------------------------------------------------------------------------
(* The steps *)

Grows == /\ Filling /\ Advance /\ UNCHANGED <<src, dst, phase, ip>>
         /\ \E loads, code : Grown(loads, code)

\* The steps, those that only append taken together.
LEMMA Steps ==
    ASSUME CloneInv, IrInv, Next
    PROVE  \/ CloneBlock \/ RetargetBlock \/ Grows
           \/ (phase = "fill" /\ Reject)
           \/ (GenerateBranch /\ phase' # "rejected")
           \/ (FinishBlock /\ phase' # "rejected")
           \/ SaveRegistersBeforeReturn \/ EraseRedundantBranches
<1>1. CASE GeneratePlain
  BY <1>1, PlainGrows DEF GeneratePlain, Grows
<1>2. CASE GenerateReturn
  BY <1>2, ReturnGrows DEF GenerateReturn, Grows
<1>3. CASE GenerateCall
  BY <1>3, CallGrows DEF GenerateCall, Grows
<1>4. CASE GenerateIndirectBranch
  BY <1>4, IndirectGrows DEF GenerateIndirectBranch, Grows
<1>5. CASE GenerateJump
  <2>1. /\ phase = "fill" /\ Filling
        /\ Reject \/ (Advance /\ UNCHANGED <<src, dst, phase, ip>>)
    BY <1>5 DEF GenerateJump, Filling
  <2>2. CASE Reject
    BY <2>1, <2>2
  <2>3. CASE Advance /\ UNCHANGED <<src, dst, phase, ip>>
    <3>1. \E loads, code : Grown(loads, code)
      BY <1>5, <2>1, <2>3, IrIs, JumpGrows DEF IrInv
    <3> QED
      BY <2>1, <2>3, <3>1 DEF Grows
  <2> QED
    BY <2>1, <2>2, <2>3
<1>6. CASE GenerateBranch
  BY <1>6 DEF GenerateBranch, Filling, Reject
<1>7. CASE FinishBlock
  BY <1>7 DEF FinishBlock, Reject
<1> QED
  BY <1>1, <1>2, <1>3, <1>4, <1>5, <1>6, <1>7 DEF Next

\* A set of numbers that is not empty has a least one.  If it had none, with a
\* lower bound the next number would be one too: adding one would map the
\* finite set of lower bounds into those but zero.
LEMMA LeastNumber ==
    ASSUME NEW S \in SUBSET Nat, S # {}
    PROVE  \E t \in S : \A u \in S : t <= u
<1> SUFFICES ASSUME \A t \in S : \E u \in S : u < t PROVE FALSE
  OBVIOUS
<1> DEFINE B == {b \in Nat : \A s \in S : b <= s}
           f == [b \in B |-> b + 1]
<1>1. 0 \in B /\ \A b \in B : b + 1 \in B \ {0}
  <2>1. 0 \in B
    OBVIOUS
  <2>2. ASSUME NEW b \in B PROVE b + 1 \in B \ {0}
    <3>1. b \notin S
      OBVIOUS
    <3>2. \A s \in S : b + 1 <= s
      BY <3>1
    <3> QED
      BY <3>2
  <2> QED
    BY <2>1, <2>2
<1>2. IsFiniteSet(B)
  <2>1. PICK s \in S : TRUE
    OBVIOUS
  <2>2. B \in SUBSET (0..s) /\ 0 \in Int /\ s \in Int
    OBVIOUS
  <2> HIDE DEF B
  <2>3. IsFiniteSet(0..s)
    BY <2>2, FS_Interval
  <2> QED
    BY <2>2, <2>3, FS_Subset
<1>3. f \in [B -> B \ {0}] /\ \A b, c \in B : f[b] = f[c] => b = c
  BY <1>1
<1> HIDE DEF B, f
<1>4. IsFiniteSet(B \ {0}) /\ Cardinality(B \ {0}) = Cardinality(B) - 1
  BY <1>1, <1>2, FS_RemoveElement
<1>5. Cardinality(B) \in Nat
  BY <1>2, FS_CardinalityType
<1>6. Cardinality(B \ {0}) < Cardinality(B)
  BY <1>4, <1>5
<1>7. \E b, c \in B : b # c /\ f[b] = f[c]
  BY <1>2, <1>3, <1>4, <1>6, FS_PigeonHole
<1> QED
  BY <1>3, <1>7

\* The first item of a kind.
LEMMA FirstIs ==
    ASSUME NEW kind, NEW bb \in Seq(Items), Has(kind, bb)
    PROVE  /\ First(kind, bb) \in 1..Len(bb) /\ bb[First(kind, bb)].kind = kind
           /\ \A j \in 1..(First(kind, bb) - 1) : bb[j].kind # kind
<1> DEFINE S == {k \in 1..Len(bb) : bb[k].kind = kind}
<1>1. Len(bb) \in Nat /\ DOMAIN bb = 1..Len(bb)
  BY LenProperties
<1>2. S # {} /\ S \in SUBSET Nat
  BY <1>1 DEF Has
<1>3. PICK t \in S : \A u \in S : t <= u
  BY <1>2, LeastNumber
<1>4. t \in DOMAIN bb /\ bb[t].kind = kind
  BY <1>1, <1>3
<1>5. \A j \in 1..(t - 1) : bb[j].kind # kind
  <2> SUFFICES ASSUME NEW j \in 1..(t - 1), bb[j].kind = kind PROVE FALSE
    OBVIOUS
  <2>1. t \in 1..Len(bb)
    BY <1>3
  <2>2. j \in S /\ ~(t <= j)
    BY <1>1, <2>1
  <2> QED
    BY <1>3, <2>2
<1> HIDE DEF S
<1> QED
  BY <1>1, <1>4, <1>5 DEF First

\* A basic block with the copy before its return, and one that is cut.
SavedBlock(bb) ==
    IF ~Has("ret", bb) THEN bb
    ELSE LET k == First("ret", bb)
             save == [kind |-> "save", of |-> bb[k].of, to |-> << >>]
         IN  SubSeq(bb, 1, k - 1) \o <<save>> \o SubSeq(bb, k, Len(bb))
ErasedBlock(bb) == IF Has("condbr", bb) THEN SubSeq(bb, 1, First("condbr", bb)) ELSE bb

\* One item more, before the return.
LEMMA SavedBlockIs ==
    ASSUME NEW bb \in Seq(Items), Has("ret", bb)
    PROVE  LET k == First("ret", bb)
               sb == SavedBlock(bb)
           IN  /\ sb \in Seq(Items) /\ Len(sb) = Len(bb) + 1
               /\ \A i \in 1..(k - 1) : sb[i] = bb[i]
               /\ sb[k].kind = "save" /\ sb[k].of = bb[k].of /\ sb[k].to = << >>
               /\ \A i \in (k + 1)..(Len(bb) + 1) : sb[i] = bb[i - 1]
<1> DEFINE k == First("ret", bb)
           save == [kind |-> "save", of |-> bb[k].of, to |-> << >>]
           before == SubSeq(bb, 1, k - 1)
           after == SubSeq(bb, k, Len(bb))
           s == <<save>>
           sb == SavedBlock(bb)
<1>1. k \in 1..Len(bb) /\ Len(bb) \in Nat /\ \A i \in 1..Len(bb) : bb[i] \in Items
  BY FirstIs, LenProperties, ElementOfSeq
<1>2. sb = (before \o s) \o after
  BY DEF SavedBlock
<1> HIDE DEF k, sb
<1>3. save \in Items /\ save.kind = "save" /\ save.of = bb[k].of /\ save.to = << >>
  <2>1. bb[k] \in Items
    BY <1>1
  <2> QED
    BY <2>1 DEF Items, ItemKind
<1> HIDE DEF save
<1>4. s \in Seq(Items) /\ Len(s) = 1 /\ s[1] = save
  BY <1>3, OneItem
<1> HIDE DEF s
<1>5. /\ before \in Seq(Items) /\ Len(before) = k - 1
      /\ \A i \in 1..(k - 1) : before[i] = bb[i]
  <2>1. 1 \in Int /\ k - 1 \in Int /\ \A i \in 1..(k - 1) : bb[i] \in Items
    BY <1>1
  <2>2. /\ before \in Seq(Items)
        /\ Len(before) = IF 1 <= k - 1 THEN (k - 1) - 1 + 1 ELSE 0
        /\ \A i \in 1..((k - 1) - 1 + 1) : before[i] = bb[1 + i - 1]
    BY <2>1, SubSeqProperties
  <2> HIDE DEF before
  <2> QED
    BY <1>1, <2>2
<1>6. /\ after \in Seq(Items) /\ Len(after) = Len(bb) - k + 1
      /\ \A i \in 1..(Len(bb) - k + 1) : after[i] = bb[k + i - 1]
  <2>1. k \in Int /\ Len(bb) \in Int /\ \A i \in k..Len(bb) : bb[i] \in Items
    BY <1>1
  <2>2. /\ after \in Seq(Items)
        /\ Len(after) = IF k <= Len(bb) THEN Len(bb) - k + 1 ELSE 0
        /\ \A i \in 1..(Len(bb) - k + 1) : after[i] = bb[k + i - 1]
    BY <2>1, SubSeqProperties
  <2> HIDE DEF after
  <2> QED
    BY <1>1, <2>2
<1> HIDE DEF before, after
<1> DEFINE b == before \o s
<1>7. /\ b \in Seq(Items) /\ Len(b) = k
      /\ \A i \in 1..k : b[i] = IF i <= k - 1 THEN before[i] ELSE s[i - (k - 1)]
  <2>1. /\ b \in Seq(Items) /\ Len(b) = Len(before) + Len(s)
        /\ \A i \in 1 .. Len(before) + Len(s) : b[i] = IF i <= Len(before) THEN before[i] ELSE s[i - Len(before)]
    BY <1>4, <1>5, ConcatProperties
  <2> HIDE DEF b
  <2>2. Len(before) + Len(s) = k
    BY <1>1, <1>4, <1>5
  <2> QED
    BY <1>5, <2>1, <2>2
<1>8. sb = b \o after
  BY <1>2
<1> HIDE DEF b
<1>9. /\ sb \in Seq(Items) /\ Len(sb) = Len(bb) + 1
      /\ \A i \in 1..(Len(bb) + 1) : sb[i] = IF i <= k THEN b[i] ELSE after[i - k]
  <2>1. /\ sb \in Seq(Items) /\ Len(sb) = Len(b) + Len(after)
        /\ \A i \in 1 .. Len(b) + Len(after) : sb[i] = IF i <= Len(b) THEN b[i] ELSE after[i - Len(b)]
    BY <1>6, <1>7, <1>8, ConcatProperties
  <2>2. Len(b) + Len(after) = Len(bb) + 1
    BY <1>1, <1>6, <1>7
  <2> QED
    BY <1>7, <2>1, <2>2
<1>10. \A i \in 1..(k - 1) : sb[i] = bb[i]
  <2> SUFFICES ASSUME NEW i \in 1..(k - 1) PROVE sb[i] = bb[i]
    OBVIOUS
  <2>1. i \in 1..(Len(bb) + 1) /\ i <= k /\ i \in 1..k /\ i <= k - 1
    BY <1>1
  <2> QED
    BY <1>5, <1>7, <1>9, <2>1
<1>11. sb[k] = save
  <2>1. k \in 1..(Len(bb) + 1) /\ k \in 1..k /\ ~(k <= k - 1) /\ k - (k - 1) = 1
    BY <1>1
  <2> QED
    BY <1>4, <1>7, <1>9, <2>1
<1>12. \A i \in (k + 1)..(Len(bb) + 1) : sb[i] = bb[i - 1]
  <2> SUFFICES ASSUME NEW i \in (k + 1)..(Len(bb) + 1) PROVE sb[i] = bb[i - 1]
    OBVIOUS
  <2>1. /\ i \in 1..(Len(bb) + 1) /\ ~(i <= k) /\ i - k \in 1..(Len(bb) - k + 1)
        /\ k + (i - k) - 1 = i - 1
    BY <1>1
  <2> QED
    BY <1>6, <1>9, <2>1
<1>13. sb[k].kind = "save" /\ sb[k].of = bb[k].of /\ sb[k].to = << >>
  BY <1>3, <1>11
<1> QED
  BY <1>9, <1>10, <1>12, <1>13 DEF k, sb

\* The items up to the conditional branch.
LEMMA ErasedBlockIs ==
    ASSUME NEW bb \in Seq(Items), Has("condbr", bb)
    PROVE  LET k == First("condbr", bb)
           IN  /\ ErasedBlock(bb) \in Seq(Items) /\ Len(ErasedBlock(bb)) = k
               /\ \A i \in 1..k : ErasedBlock(bb)[i] = bb[i]
<1> DEFINE k == First("condbr", bb)
           cut == SubSeq(bb, 1, k)
<1>1. k \in 1..Len(bb) /\ Len(bb) \in Nat /\ \A i \in 1..Len(bb) : bb[i] \in Items
  BY FirstIs, LenProperties, ElementOfSeq
<1>2. ErasedBlock(bb) = cut
  BY DEF ErasedBlock
<1> HIDE DEF k
<1>3. 1 \in Int /\ k \in Int /\ \A i \in 1..k : bb[i] \in Items
  BY <1>1
<1>4. /\ cut \in Seq(Items) /\ Len(cut) = IF 1 <= k THEN k - 1 + 1 ELSE 0
      /\ \A i \in 1..(k - 1 + 1) : cut[i] = bb[1 + i - 1]
  BY <1>3, SubSeqProperties
<1> HIDE DEF cut
<1>5. cut \in Seq(Items) /\ Len(cut) = k /\ \A i \in 1..k : cut[i] = bb[i]
  BY <1>1, <1>4
<1> QED
  BY <1>2, <1>5 DEF k
\* What the two passes over the basic blocks leave.
LEMMA PassesAre ==
    ASSUME ir \in Seq(Seq(Items)), Len(ir) \in Nat
    PROVE  /\ SaveRegistersBeforeReturn =>
                /\ ir' \in Seq(Seq(Items)) /\ Len(ir') = Len(ir)
                /\ \A n \in 1..Len(ir) : ir'[n] = SavedBlock(ir[n])
           /\ EraseRedundantBranches =>
                /\ ir' \in Seq(Seq(Items)) /\ Len(ir') = Len(ir)
                /\ \A n \in 1..Len(ir) : ir'[n] = ErasedBlock(ir[n])
<1>1. DOMAIN ir = 1..Len(ir) /\ \A n \in 1..Len(ir) : ir[n] \in Seq(Items)
  BY LenProperties, ElementOfSeq
<1>2. ASSUME SaveRegistersBeforeReturn
      PROVE  /\ ir' \in Seq(Seq(Items)) /\ Len(ir') = Len(ir)
             /\ \A n \in 1..Len(ir) : ir'[n] = SavedBlock(ir[n])
  <2>1. ir' = [n \in 1..Len(ir) |-> SavedBlock(ir[n])]
    BY <1>1, <1>2 DEF SaveRegistersBeforeReturn, SavedBlock
  <2>2. \A n \in 1..Len(ir) : SavedBlock(ir[n]) \in Seq(Items)
    <3> SUFFICES ASSUME NEW n \in 1..Len(ir) PROVE SavedBlock(ir[n]) \in Seq(Items)
      OBVIOUS
    <3>1. CASE Has("ret", ir[n])
      BY <1>1, <3>1, SavedBlockIs
    <3>2. CASE ~Has("ret", ir[n])
      BY <1>1, <3>2 DEF SavedBlock
    <3> QED
      BY <3>1, <3>2
  <2> HIDE DEF SavedBlock
  <2> QED
    BY <2>1, <2>2
<1>3. ASSUME EraseRedundantBranches
      PROVE  /\ ir' \in Seq(Seq(Items)) /\ Len(ir') = Len(ir)
             /\ \A n \in 1..Len(ir) : ir'[n] = ErasedBlock(ir[n])
  <2>1. ir' = [n \in 1..Len(ir) |-> ErasedBlock(ir[n])]
    BY <1>1, <1>3 DEF EraseRedundantBranches, ErasedBlock
  <2>2. \A n \in 1..Len(ir) : ErasedBlock(ir[n]) \in Seq(Items)
    <3> SUFFICES ASSUME NEW n \in 1..Len(ir) PROVE ErasedBlock(ir[n]) \in Seq(Items)
      OBVIOUS
    <3>1. CASE Has("condbr", ir[n])
      BY <1>1, <3>1, ErasedBlockIs
    <3>2. CASE ~Has("condbr", ir[n])
      BY <1>1, <3>2 DEF ErasedBlock
    <3> QED
      BY <3>1, <3>2
  <2> HIDE DEF ErasedBlock
  <2> QED
    BY <2>1, <2>2
<1> QED
  BY <1>2, <1>3

\* Neither adds a target.
LEMMA PassesPlace ==
    ASSUME NEW bb \in Seq(Items), NEW m \in Nat, NEW o \in Nat, Placed(bb, m, o)
    PROVE  Placed(SavedBlock(bb), m, o) /\ Placed(ErasedBlock(bb), m, o)
<1>1. Len(bb) \in Nat /\ DOMAIN << >> = {}
  BY LenProperties
<1>2. Placed(SavedBlock(bb), m, o)
  <2>1. CASE Has("ret", bb)
    <3> DEFINE k == First("ret", bb)
               sb == SavedBlock(bb)
    <3>1. k \in 1..Len(bb)
      BY <2>1, FirstIs
    <3>2. /\ Len(sb) = Len(bb) + 1
          /\ \A i \in 1..(k - 1) : sb[i] = bb[i]
          /\ sb[k].of = bb[k].of /\ sb[k].to = << >>
          /\ \A i \in (k + 1)..(Len(bb) + 1) : sb[i] = bb[i - 1]
      BY <2>1, SavedBlockIs
    <3> HIDE DEF k, sb
    <3>3. ASSUME NEW i \in 1..(Len(bb) + 1)
          PROVE  sb[i].of[1] \in 1..m /\ \A t \in DOMAIN sb[i].to : sb[i].to[t] \in 1..o
      <4>1. i \in 1..(k - 1) \/ i = k \/ (i \in (k + 1)..(Len(bb) + 1) /\ i - 1 \in 1..Len(bb))
        BY <1>1, <3>1
      <4>2. i \in 1..(k - 1) => i \in 1..Len(bb)
        BY <1>1, <3>1
      <4> QED
        BY <1>1, <3>1, <3>2, <4>1, <4>2 DEF Placed
    <3>4. Placed(sb, m, o)
      BY <3>2, <3>3 DEF Placed
    <3> QED
      BY <3>4 DEF sb
  <2>2. CASE ~Has("ret", bb)
    BY <2>2 DEF SavedBlock
  <2> QED
    BY <2>1, <2>2
<1>3. Placed(ErasedBlock(bb), m, o)
  <2>1. CASE Has("condbr", bb)
    <3> DEFINE k == First("condbr", bb)
               eb == ErasedBlock(bb)
    <3>1. k \in 1..Len(bb) /\ \A i \in 1..k : i \in 1..Len(bb)
      BY <1>1, <2>1, FirstIs
    <3>2. Len(eb) = k /\ \A i \in 1..k : eb[i] = bb[i]
      BY <2>1, ErasedBlockIs
    <3> HIDE DEF k, eb
    <3>3. Placed(eb, m, o)
      BY <3>1, <3>2 DEF Placed
    <3> QED
      BY <3>3 DEF eb
  <2>2. CASE ~Has("condbr", bb)
    BY <2>2 DEF ErasedBlock
  <2> QED
    BY <2>1, <2>2
<1> QED
  BY <1>2, <1>3

\* All steps keep the clone, the types and the targets.
LEMMA PassKeeps ==
    ASSUME CloneInv, IrInv, SaveRegistersBeforeReturn \/ EraseRedundantBranches
    PROVE  CloneInv' /\ IrInv'
<1>1. /\ phase \in {"save", "erase"} /\ phase' \in {"erase", "done"} /\ UNCHANGED <<src, dst, at, ip>>
  BY DEF SaveRegistersBeforeReturn, EraseRedundantBranches
<1>2. /\ phase \in Phases \ {"clone", "retarget"} /\ phase' \in Phases \ {"clone", "retarget"}
      /\ phase' # "fill"
  BY <1>1 DEF Phases
<1>3. CloneInv'
  <2>1. at' = at /\ src' = src
    BY <1>1
  <2>2. /\ at' = [block |-> at'.block, inst |-> at'.inst]
        /\ at'.block \in 1..(Len(src) + 1) /\ at'.inst \in Nat \ {0}
    BY <2>1 DEF CloneInv
  <2> QED
    BY <1>1, <1>2, <2>2, FillKeepsClone
<1>4. /\ Len(ir) \in Nat /\ Len(src) \in Nat /\ ir \in Seq(Seq(Items))
      /\ \A n \in 1..Len(ir) : ir[n] \in Seq(Items) /\ Placed(ir[n], Len(src), Len(ir))
  BY IrIs DEF IrInv
<1>5. /\ ir' \in Seq(Seq(Items)) /\ Len(ir') = Len(ir)
      /\ \A n \in 1..Len(ir) : ir'[n] \in {SavedBlock(ir[n]), ErasedBlock(ir[n])}
  BY <1>4, PassesAre
<1>6. \A n \in 1..Len(ir) : Placed(ir'[n], Len(src), Len(ir))
  BY <1>4, <1>5, PassesPlace
<1>7. \A n \in 1..Len(ir') : Placed(ir'[n], Len(src'), Len(ir'))
  BY <1>1, <1>5, <1>6
<1>8. IrInv'
  <2>1. \A n \in 1..Len(ir') : Placed(ir[n], Len(src), Len(ir))'
    BY <1>7 DEF Placed
  <2>2. Len(dst') <= Len(ir') /\ ip' \in 1..(Len(ir') + 1)
    BY <1>1, <1>5 DEF IrInv
  <2>3. phase' \notin {"clone", "retarget", "fill"}
    BY <1>1
  <2> QED
    BY <1>5, <2>1, <2>2, <2>3 DEF IrInv
<1> QED
  BY <1>3, <1>8

\* The steps of filling keep the invariants.
LEMMA FillKeeps ==
    ASSUME CloneInv, IrInv,
           \/ Grows
           \/ (phase = "fill" /\ Reject)
           \/ (GenerateBranch /\ phase' # "rejected")
           \/ (FinishBlock /\ phase' # "rejected")
    PROVE  CloneInv' /\ IrInv'
<1> DEFINE Here == /\ at.block \in 1..Len(src) /\ at.inst \in Nat \ {0} /\ Len(src) \in Nat
                   /\ at = [block |-> at.block, inst |-> at.inst]
                   /\ Len(MBB.instrs) = Size(at.block) /\ Size(at.block) \in Nat
                   /\ Len(dst) = Len(src)
<1>1. phase = "fill" => Here
  BY InstIs DEF CloneInv
<1> HIDE DEF Here
<1>2. ASSUME Grows PROVE CloneInv' /\ IrInv'
  <2>1. /\ phase = "fill" /\ at.inst <= Len(MBB.instrs) /\ at' = [at EXCEPT !.inst = @ + 1]
        /\ UNCHANGED <<src, dst, phase, ip>>
    BY <1>2 DEF Grows, Filling, Advance
  <2>2. Here
    BY <1>1, <2>1
  <2>3. /\ at'.block = at.block /\ at'.inst = at.inst + 1
        /\ at' = [block |-> at'.block, inst |-> at'.inst]
        /\ at.inst + 1 \in Nat \ {0} /\ at.inst + 1 <= Size(at.block) + 1
        /\ at.block \in 1..(Len(src) + 1) /\ at.block <= Len(src)
    BY <2>1, <2>2 DEF Here
  <2>4. phase' = "fill" /\ "fill" \in Phases \ {"clone", "retarget"}
    BY <2>1 DEF Phases
  <2>5. CloneInv'
    BY <2>1, <2>3, <2>4, FillKeepsClone
  <2>6. PICK loads, code : Adds(loads, code) /\ Len(ir') = Len(ir)
    BY <1>2, <2>1, GrownAdds DEF Grows
  <2>7. ip' \in 1..Len(ir') /\ ip' \in 1..(Len(ir') + 1)
    BY <2>1, <2>6 DEF IrInv
  <2> QED
    BY <2>1, <2>4, <2>5, <2>6, <2>7, AddsKeeps
<1>3. ASSUME phase = "fill", Reject PROVE CloneInv' /\ IrInv'
  <2>1. phase' = "rejected" /\ UNCHANGED <<src, dst, ir, at, ip>>
    BY <1>3 DEF Reject
  <2>2. /\ phase \in Phases \ {"clone", "retarget"} /\ phase' \in Phases \ {"clone", "retarget"}
        /\ phase' # "fill"
    BY <1>3, <2>1 DEF Phases
  <2>3. /\ at' = [block |-> at'.block, inst |-> at'.inst]
        /\ at'.block \in 1..(Len(src) + 1) /\ at'.inst \in Nat \ {0}
    <3>1. at' = at
      BY <2>1
    <3> QED
      BY <3>1 DEF CloneInv
  <2>4. CloneInv'
    BY <2>1, <2>2, <2>3, FillKeepsClone
  <2>5. IrInv'
    BY <2>1 DEF IrInv, Placed
  <2> QED
    BY <2>4, <2>5
<1>4. ASSUME GenerateBranch, phase' # "rejected" PROVE CloneInv' /\ IrInv'
  <2>1. /\ phase = "fill" /\ at.inst <= Len(MBB.instrs) /\ at' = [at EXCEPT !.inst = @ + 1]
        /\ UNCHANGED <<src, dst, phase>>
    BY <1>4 DEF GenerateBranch, Filling, Advance, Reject
  <2>2. Here
    BY <1>1, <2>1
  <2>3. /\ at'.block = at.block /\ at'.inst = at.inst + 1
        /\ at' = [block |-> at'.block, inst |-> at'.inst]
        /\ at.inst + 1 \in Nat \ {0} /\ at.inst + 1 <= Size(at.block) + 1
        /\ at.block \in 1..(Len(src) + 1) /\ at.block <= Len(src)
    BY <2>1, <2>2 DEF Here
  <2>4. phase' = "fill" /\ "fill" \in Phases \ {"clone", "retarget"}
    BY <2>1 DEF Phases
  <2>5. CloneInv'
    BY <2>1, <2>3, <2>4, FillKeepsClone
  <2>6. PICK loads, code : Adds(loads, code) /\ ip' \in 1..Len(ir')
    BY <1>4, BranchAdds DEF Branches
  <2>7. ip' \in 1..(Len(ir') + 1)
    BY <2>6
  <2> QED
    BY <2>1, <2>4, <2>5, <2>6, <2>7, AddsKeeps
<1>5. ASSUME FinishBlock, phase' # "rejected" PROVE CloneInv' /\ IrInv'
  <2>1. /\ phase = "fill" /\ at' = [block |-> at.block + 1, inst |-> 1] /\ ip' = at.block + 1
        /\ phase' = IF at.block = Len(dst) THEN "save" ELSE phase
        /\ UNCHANGED <<src, dst>>
    BY <1>5 DEF FinishBlock, Reject
  <2>2. Here
    BY <1>1, <2>1
  <2>3. /\ at'.block = at.block + 1 /\ at'.inst = 1 /\ at' = [block |-> at'.block, inst |-> at'.inst]
        /\ at.block + 1 \in 1..(Len(src) + 1)
    BY <2>1, <2>2 DEF Here
  <2>4. /\ phase' \in Phases \ {"clone", "retarget"}
        /\ phase' = "fill" => at.block + 1 \in 1..Len(src)
    BY <2>1, <2>2 DEF Phases, Here
  <2>5. phase' = "fill" => at'.block <= Len(src) /\ at'.inst <= Size(at'.block) + 1
    <3>1. src \in Functions
      BY DEF CloneInv
    <3>2. phase' = "fill" => Size(at.block + 1) \in Nat
      BY <2>4, <3>1, FunctionIs
    <3> QED
      BY <2>2, <2>3, <2>4, <3>2
  <2>6. CloneInv'
    BY <2>1, <2>3, <2>4, <2>5, FillKeepsClone DEF Phases
  <2>7. PICK code : Adds(<< >>, code) /\ Len(ir') = Len(ir)
    BY <1>5, FinishAdds DEF Finishes
  <2>8. Len(src) <= Len(ir') /\ Len(ir') \in Nat
    BY <2>1, <2>7, IrIs
  <2>9. ip' \in 1..(Len(ir') + 1) /\ (phase' = "fill" => ip' \in 1..Len(ir'))
    BY <2>1, <2>2, <2>4, <2>8 DEF Here
  <2> QED
    BY <2>1, <2>4, <2>6, <2>7, <2>9, AddsKeeps
<1> QED
  BY <1>2, <1>3, <1>4, <1>5
\* Cloning adds an empty basic block.
LEMMA CloneIrKeeps ==
    ASSUME CloneInv, IrInv, CloneBlock PROVE IrInv'
<1>1. /\ phase = "clone" /\ src' = src /\ ip' = ip
      /\ dst' = Append(dst, clone_basic_block(at.block)) /\ ir' = Append(ir, << >>)
      /\ phase' \in {"clone", "retarget"}
  BY DEF CloneBlock
<1>2. ir \in Seq(Seq(Items)) /\ Len(ir) = Len(dst) /\ \A n \in 1..Len(ir) : ir[n] = << >>
  BY <1>1 DEF IrInv
<1>3. Len(ir) \in Nat /\ Len(src) \in Nat
  BY IrIs
<1>4. Len(dst') = Len(dst) + 1
  <2> DEFINE c == clone_basic_block(at.block)
  <2>1. dst \in Seq(ClonedBlocks \cup {c}) /\ c \in ClonedBlocks \cup {c} /\ dst' = Append(dst, c)
    BY <1>1 DEF CloneInv
  <2> HIDE DEF c
  <2> QED
    BY <2>1, AppendProperties
<1>5. /\ ir' \in Seq(Seq(Items)) /\ Len(ir') = Len(ir) + 1
      /\ \A n \in 1..(Len(ir) + 1) : ir'[n] = << >>
  <2>1. << >> \in Seq(Items)
    BY EmptySeq
  <2>2. /\ ir' \in Seq(Seq(Items)) /\ Len(ir') = Len(ir) + 1
        /\ \A n \in 1..Len(ir) : ir'[n] = ir[n] /\ ir'[Len(ir) + 1] = << >>
    BY <1>1, <1>2, <2>1, AppendProperties
  <2>3. \A m \in Nat : \A n \in 1..(m + 1) : n \in 1..m \/ n = m + 1
    OBVIOUS
  <2>4. ir'[Len(ir) + 1] = << >>
    BY <1>1, <1>2, <2>1, AppendProperties
  <2> QED
    BY <1>2, <1>3, <2>2, <2>3, <2>4
<1>6. \A n \in 1..Len(ir') : Placed(ir[n], Len(src), Len(ir))'
  <2>1. \A n \in 1..Len(ir') : Len(ir'[n]) = 0
    BY <1>5, EmptySeq
  <2> QED
    BY <2>1 DEF Placed
<1>7. ip' \in 1..(Len(ir') + 1) /\ ip' = 1
  BY <1>1, <1>3, <1>5 DEF IrInv
<1> QED
  BY <1>1, <1>2, <1>3, <1>4, <1>5, <1>6, <1>7 DEF IrInv

\* Moving branches ends with the prologue.
LEMMA RetargetIrKeeps ==
    ASSUME CloneInv, IrInv, RetargetBlock PROVE IrInv'
<1> DEFINE item == [kind |-> "prologue", of |-> <<1, 0>>, to |-> << >>]
           first == <<item>>
<1>1. /\ phase = "retarget" /\ src' = src /\ ip' = ip
      /\ dst' = [dst EXCEPT ![at.block] = replace_uses_of_blocks(dst[at.block])]
      /\ IF at.block < Len(dst) THEN phase' = phase /\ ir' = ir
         ELSE phase' = "fill" /\ ir' = [ir EXCEPT ![1] = first]
  BY DEF RetargetBlock
<1>2. /\ ir \in Seq(Seq(Items)) /\ Len(ir) = Len(dst) /\ \A n \in 1..Len(ir) : ir[n] = << >>
      /\ ip = 1 /\ Len(dst) = Len(src) /\ Len(src) \in Nat \ {0}
      /\ \A n \in 1..Len(ir) : Placed(ir[n], Len(src), Len(ir))
  BY <1>1, IrIs DEF IrInv, CloneInv
<1>3. Len(dst') = Len(dst)
  <2> DEFINE e == replace_uses_of_blocks(dst[at.block])
  <2>1. dst \in Seq(ClonedBlocks \cup {e}) /\ e \in ClonedBlocks \cup {e} /\ at.block \in 1..Len(dst)
    BY <1>1, <1>2 DEF CloneInv
  <2>2. dst' = [dst EXCEPT ![at.block] = e]
    BY <1>1
  <2> HIDE DEF e
  <2> QED
    BY <2>1, <2>2, ExceptSeq
<1>4. ASSUME ir' = ir, phase' = "retarget" PROVE IrInv'
  BY <1>1, <1>2, <1>3, <1>4 DEF IrInv, Placed
<1>5. ASSUME phase' = "fill", ir' = [ir EXCEPT ![1] = first] PROVE IrInv'
  <2>1. item \in Items /\ item.of[1] = 1 /\ item.to = << >>
    BY DEF Items, ItemKind
  <2> HIDE DEF item
  <2>2. first \in Seq(Items) /\ Len(first) = 1 /\ first[1] = item
    BY <2>1, OneItem
  <2> HIDE DEF first
  <2>3. 1 \in 1..Len(ir)
    BY <1>2
  <2>4. /\ ir' \in Seq(Seq(Items)) /\ Len(ir') = Len(ir)
        /\ \A n \in 1..Len(ir) : ir'[n] = IF n = 1 THEN first ELSE ir[n]
    BY <1>2, <1>5, <2>2, <2>3, ExceptSeq
  <2>5. DOMAIN << >> = {}
    OBVIOUS
  <2>6. Placed(first, Len(src), Len(ir))
    BY <1>2, <2>1, <2>2, <2>3, <2>5 DEF Placed
  <2>7. \A n \in 1..Len(ir) : Placed(ir'[n], Len(src), Len(ir))
    BY <1>2, <2>4, <2>6
  <2>8. \A n \in 1..Len(ir') : Placed(ir[n], Len(src), Len(ir))'
    BY <1>1, <2>4, <2>7 DEF Placed
  <2>9. ip' \in 1..Len(ir') /\ ip' \in 1..(Len(ir') + 1)
    BY <1>1, <1>2, <2>4
  <2> QED
    BY <1>2, <1>3, <1>5, <2>4, <2>8, <2>9 DEF IrInv
<1> QED
  BY <1>1, <1>4, <1>5

\* What every lifting keeps, whatever the function is.
GeneralInv == CloneInv /\ IrInv

\* Nothing is cloned at first.
LEMMA GeneralInvInit == Init => GeneralInv
<1> SUFFICES ASSUME Init PROVE GeneralInv
  OBVIOUS
<1>1. /\ src \in Functions /\ dst = << >> /\ ir = << >> /\ phase = "clone" /\ ip = 1
      /\ at = [block |-> 1, inst |-> 1]
  BY DEF Init
<1>2. Len(src) \in Nat \ {0} /\ Len(dst) = 0 /\ Len(ir) = 0
  BY <1>1, FunctionIs, EmptySeq
<1>3. dst \in Seq(ClonedBlocks) /\ ir \in Seq(Seq(Items))
  BY <1>1, EmptySeq
<1>4. CloneInv
  BY <1>1, <1>2, <1>3 DEF CloneInv, Phases
<1>5. IrInv
  BY <1>1, <1>2, <1>3 DEF IrInv
<1> QED
  BY <1>4, <1>5 DEF GeneralInv

\* One case for each step.
LEMMA GeneralInvNext == GeneralInv /\ [Next]_vars => GeneralInv'
<1> SUFFICES ASSUME CloneInv, IrInv, [Next]_vars PROVE CloneInv' /\ IrInv'
  BY DEF GeneralInv
<1>1. CASE Next
  <2>1. CASE CloneBlock
    BY <2>1, CloneBlockKeeps, CloneIrKeeps
  <2>2. CASE RetargetBlock
    BY <2>2, RetargetBlockKeeps, RetargetIrKeeps
  <2>3. CASE \/ Grows
             \/ (phase = "fill" /\ Reject)
             \/ (GenerateBranch /\ phase' # "rejected")
             \/ (FinishBlock /\ phase' # "rejected")
    BY <2>3, FillKeeps
  <2>4. CASE SaveRegistersBeforeReturn \/ EraseRedundantBranches
    BY <2>4, PassKeeps
  <2> QED
    BY <1>1, <2>1, <2>2, <2>3, <2>4, Steps
<1>2. CASE UNCHANGED vars
  <2>1. \A n : /\ MovedBlock(n)' = MovedBlock(n) /\ clone_basic_block(n)' = clone_basic_block(n)
               /\ Size(n)' = Size(n) /\ ClonedBlocks' = ClonedBlocks
    BY <1>2, SameBlocks, SameClonedBlocks DEF vars
  <2>2. CloneInv'
    BY <1>2, <2>1 DEF vars, CloneInv, Retargeted
  <2>3. IrInv'
    BY <1>2 DEF vars, IrInv, Placed
  <2> QED
    BY <2>2, <2>3
<1> QED
  BY <1>1, <1>2

\* For every function.
LEMMA GeneralInvHolds == Spec => []GeneralInv
  BY GeneralInvInit, GeneralInvNext, PTL DEF Spec

\* For every machine function, with branches that go anywhere: the basic blocks that
\* the lifter branches to exist, and the insertion point is one of them
\* (lifter.cpp:633-782, 1246-1255).
THEOREM LiftTypeOK == Spec => []TypeOK
<1>1. GeneralInv => TypeOK
  <2> SUFFICES ASSUME CloneInv, IrInv PROVE TypeOK
    BY DEF GeneralInv
  <2>1. /\ Len(ir) \in Nat /\ Len(src) \in Nat \ {0} /\ Len(dst) \in Nat
        /\ \A n \in 1..Len(ir) : ir[n] \in Seq(Items)
    BY IrIs
  <2>2. at \in [block : 1..(Len(src) + 1), inst : Nat \ {0}]
    BY DEF CloneInv
  <2>3. Len(dst) <= Len(src) /\ Len(dst) <= Len(ir)
    BY <2>1 DEF CloneInv, IrInv
  <2>4. DOMAIN ir = 1..Len(ir) /\ \A n \in 1..Len(ir) : DOMAIN ir[n] = 1..Len(ir[n])
    BY <2>1, LenProperties DEF IrInv
  <2>5. ASSUME NEW n \in 1..Len(ir), NEW k \in 1..Len(ir[n])
        PROVE  /\ ir[n][k].kind \in ItemKind /\ ir[n][k].of \in (1..Len(src)) \X Nat
               /\ \A t \in DOMAIN ir[n][k].to : ir[n][k].to[t] \in 1..Len(ir)
    <3>1. ir[n][k] \in Items
      BY <2>1, ElementOfSeq
    <3>2. /\ ir[n][k].of[1] \in 1..Len(src)
          /\ \A t \in DOMAIN ir[n][k].to : ir[n][k].to[t] \in 1..Len(ir)
      BY DEF IrInv, Placed
    <3> DEFINE x == ir[n][k]
    <3> HIDE DEF x
    <3>3. x \in Items => x.kind \in ItemKind /\ x.of \in Nat \X Nat
      BY DEF Items
    <3>4. \A p \in Nat \X Nat : p[1] \in 1..Len(src) => p \in (1..Len(src)) \X Nat
      OBVIOUS
    <3> QED
      BY <3>1, <3>2, <3>3, <3>4 DEF x
  <2> QED
    BY <2>2, <2>3, <2>4, <2>5 DEF TypeOK, CloneInv, IrInv, Phases
<1> QED
  BY <1>1, GeneralInvHolds, PTL
-----------------------------------------------------------------------------
(* Functions that are well-formed are not rejected *)

OpAt(k) == Instrs(at.block)[k].op

\* The instructions of the block that is filled.
LEMMA WellFormedIs ==
    ASSUME CloneInv, phase = "fill", WellFormed(src)
    PROVE  /\ Size(at.block) \in Nat \ {0}
           /\ \A k \in 1..Size(at.block) :
                /\ MBB.instrs[k].op = OpAt(k) /\ OpAt(k) \in Op
                /\ OpAt(k) \in {"jmp", "ret"} => k = Size(at.block)
                /\ OpAt(k) \in {"cbr", "jmp"} => Known(MBB.instrs[k].ref) /\ HasMBB(MBB.instrs[k])
                /\ OpAt(k) = "cbr" /\ k < Size(at.block) => OpAt(k + 1) \notin {"tail", "brind"}
           /\ at.block = Len(src) =>
                OpAt(Size(at.block)) \in {"jmp", "ret", "call", "tail", "jalr", "jr"}
<1> DEFINE n == at.block
<1>1. /\ src \in Functions /\ n \in 1..Len(src) /\ MBB = MovedBlock(n)
      /\ DOMAIN src = 1..Len(src) /\ Size(n) \in Nat /\ DOMAIN Instrs(n) = 1..Size(n)
      /\ Instrs(n) = src[n].instrs /\ Instrs(n) \in Seq([op : Op, ref : Nat])
      /\ \A s \in DOMAIN src[n].succs : src[n].succs[s] \in 1..Len(src)
  BY InstIs, FunctionIs DEF CloneInv, Instrs
<1>2. /\ Instrs(n) # << >>
      /\ \A k \in 1..Size(n) :
            /\ OpAt(k) \in {"jmp", "ret"} => k = Size(n)
            /\ OpAt(k) \in {"cbr", "jmp"} =>
                    Instrs(n)[k].ref = n \/ \E s \in DOMAIN src[n].succs : src[n].succs[s] = Instrs(n)[k].ref
            /\ OpAt(k) = "cbr" /\ k < Size(n) => OpAt(k + 1) \notin {"tail", "brind"}
      /\ n = Len(src) => OpAt(Size(n)) \in {"jmp", "ret", "call", "tail", "jalr", "jr"}
  <2>1. Size(n) = Len(Instrs(n)) /\ \A k : OpAt(k) = Instrs(n)[k].op
    BY DEF OpAt, Size, Instrs
  <2>2. /\ Instrs(n) # << >>
        /\ \A k \in DOMAIN Instrs(n) :
            /\ Instrs(n)[k].op \in {"jmp", "ret"} => k = Len(Instrs(n))
            /\ Instrs(n)[k].op \in {"cbr", "jmp"} =>
                    Instrs(n)[k].ref = n \/ \E s \in DOMAIN src[n].succs : src[n].succs[s] = Instrs(n)[k].ref
            /\ Instrs(n)[k].op = "cbr" /\ k < Len(Instrs(n)) => Instrs(n)[k + 1].op \notin {"tail", "brind"}
    <3>1. \A m \in DOMAIN src :
            /\ src[m].instrs # << >>
            /\ \A k \in DOMAIN src[m].instrs :
                /\ src[m].instrs[k].op \in {"jmp", "ret"} => k = Len(src[m].instrs)
                /\ src[m].instrs[k].op \in {"cbr", "jmp"} =>
                    src[m].instrs[k].ref = m
                        \/ \E s \in DOMAIN src[m].succs : src[m].succs[s] = src[m].instrs[k].ref
                /\ src[m].instrs[k].op = "cbr" /\ k < Len(src[m].instrs) =>
                    src[m].instrs[k + 1].op \notin {"tail", "brind"}
      BY DEF WellFormed
    <3> HIDE DEF n
    <3>2. n \in DOMAIN src /\ Instrs(n) = src[n].instrs
      BY <1>1
    <3> HIDE DEF Instrs
    <3> QED
      BY <3>1, <3>2
  <2>3. src[Len(src)].instrs[Len(src[Len(src)].instrs)].op \in {"jmp", "ret", "call", "tail", "jalr", "jr"}
    BY DEF WellFormed
  <2> HIDE DEF n
  <2>4. n = Len(src) => Instrs(n)[Len(Instrs(n))].op \in {"jmp", "ret", "call", "tail", "jalr", "jr"}
    BY <2>3 DEF Instrs
  <2> QED
    BY <1>1, <2>1, <2>2, <2>4
<1>3. Size(n) # 0
  <2>1. Len(Instrs(n)) = Size(n)
    BY DEF Size, Instrs
  <2> QED
    BY <1>1, <1>2, <2>1, EmptySeq
<1>4. ASSUME NEW k \in 1..Size(n)
      PROVE  /\ MBB.instrs[k].op = OpAt(k) /\ OpAt(k) \in Op
             /\ OpAt(k) \in {"cbr", "jmp"} => Known(MBB.instrs[k].ref) /\ HasMBB(MBB.instrs[k])
  <2>1. MBB.instrs[k].op = OpAt(k) /\ OpAt(k) \in Op /\ MBB.instrs[k].ref.block = Instrs(n)[k].ref
    BY InstIs DEF OpAt
  <2>2. ASSUME OpAt(k) \in {"cbr", "jmp"}
        PROVE  Known(MBB.instrs[k].ref) /\ HasMBB(MBB.instrs[k])
    <3>1. Instrs(n)[k].ref = n \/ \E s \in DOMAIN src[n].succs : src[n].succs[s] = Instrs(n)[k].ref
      BY <1>2, <2>2
    <3>2. isBranch(Instrs(n)[k])
      BY <2>2 DEF isBranch, OpAt
    <3>3. MBB.instrs[k].ref.func = "dst"
      BY <1>1, <3>1, <3>2, MovedIs
    <3>4. Instrs(n)[k].ref \in 1..Len(src)
      BY <1>1, <3>1
    <3> QED
      BY <2>1, <3>3, <3>4 DEF Known, HasMBB
  <2> QED
    BY <2>1, <2>2
<1> QED
  BY <1>1, <1>2, <1>3, <1>4

\* No step on a well-formed function is a rejection.
LEMMA WellFormedStays ==
    ASSUME CloneInv, WellFormed(src), phase # "rejected", [Next]_vars
    PROVE  phase' # "rejected"
<1> SUFFICES ASSUME phase = "fill", Next, phase' = "rejected" PROVE FALSE
  BY DEF Next, vars, CloneBlock, RetargetBlock, SaveRegistersBeforeReturn, EraseRedundantBranches,
         GeneratePlain, GenerateReturn, GenerateJump, GenerateBranch, GenerateCall,
         GenerateIndirectBranch, FinishBlock, Filling
<1>1. /\ at.inst \in Nat \ {0} /\ Len(MBB.instrs) = Size(at.block) /\ Size(at.block) \in Nat \ {0}
      /\ Len(dst) = Len(src) /\ at.block \in 1..Len(src) /\ Len(src) \in Nat
      /\ MBB.instrs # << >>
  BY InstIs, WellFormedIs DEF CloneInv
<1>2. at.inst <= Len(MBB.instrs) => at.inst \in 1..Size(at.block) /\ Inst = MBB.instrs[at.inst]
  BY <1>1 DEF Inst
<1>3. CASE GenerateJump
  <2>1. at.inst <= Len(MBB.instrs) /\ is_branch(Inst) /\ ~Known(Inst.ref)
    BY <1>3 DEF GenerateJump, Filling
  <2> QED
    BY <1>2, <2>1, WellFormedIs DEF is_branch
<1>4. CASE GenerateBranch
  <2>1. at.inst <= Len(MBB.instrs) /\ Inst.op = "cbr" /\ ~(Known(Inst.ref) /\ Known(if_false_block))
    BY <1>4 DEF GenerateBranch, Filling, isConditionalBranch
  <2>2. OpAt(at.inst) = "cbr" /\ Known(Inst.ref)
    BY <1>2, <2>1, WellFormedIs
  <2>3. CASE at.inst = Size(at.block)
    <3>1. at.block < Len(dst)
      <4>1. at.block # Len(src)
        BY <2>2, <2>3, WellFormedIs
      <4> QED
        BY <1>1, <4>1
    <3>2. if_false_block = In("dst", at.block + 1)
      BY <1>1, <2>3, <3>1 DEF if_false_block
    <3> QED
      BY <2>1, <2>2, <3>2 DEF Known, In
  <2>4. CASE at.inst < Size(at.block)
    <3>1. at.inst + 1 \in 1..Size(at.block)
      BY <1>1, <2>4
    <3>2. /\ Next1.op = OpAt(at.inst + 1) /\ OpAt(at.inst + 1) \notin {"tail", "brind"}
          /\ OpAt(at.inst + 1) = "jmp" => Known(Next1.ref)
      BY <1>2, <2>1, <2>2, <2>4, <3>1, WellFormedIs DEF Next1
    <3>3. if_false_block = IF isUnconditionalBranch(Next1) THEN Next1.ref ELSE In("dst", Len(ir) + 1)
      BY <1>1, <2>4 DEF if_false_block, Next1
    <3>4. Known(if_false_block)
      BY <3>2, <3>3 DEF isUnconditionalBranch, Known, In
    <3> QED
      BY <2>1, <2>2, <3>4
  <2> QED
    BY <1>1, <1>2, <2>1, <2>3, <2>4
<1>5. CASE FinishBlock
  <2> DEFINE last == MBB.instrs[Len(MBB.instrs)]
  <2>1. at.block = Len(src) /\ ~is_branch(last) /\ ~is_return(last) /\ ~is_call(last)
    BY <1>1, <1>5 DEF FinishBlock
  <2>2. /\ last.op \in {"jmp", "ret", "call", "tail", "jalr", "jr"}
        /\ last.op = "jmp" => HasMBB(last)
    BY <1>1, <2>1, WellFormedIs
  <2> QED
    BY <2>1, <2>2 DEF is_branch, is_return, is_call
<1> QED
  BY <1>3, <1>4, <1>5 DEF Next, CloneBlock, RetargetBlock, SaveRegistersBeforeReturn,
         EraseRedundantBranches, GeneratePlain, GenerateReturn, GenerateCall,
         GenerateIndirectBranch

\* A well-formed function is lifted to the end: no branch operand is left in the
\* source function, every conditional branch finds the block it falls through to, and
\* no block is empty (lifter.cpp:41-129, 642-782, 1225-1256).
THEOREM LiftNeverRejects ==
    ASSUME \A mf \in Functions : WellFormed(mf)
    PROVE  Spec => []NeverRejects
<1>1. Init => NeverRejects
  BY DEF Init, NeverRejects
<1>2. GeneralInv /\ NeverRejects /\ [Next]_vars => NeverRejects'
  BY WellFormedStays DEF GeneralInv, CloneInv, NeverRejects
<1> QED
  BY <1>1, <1>2, GeneralInvHolds, PTL DEF Spec
-----------------------------------------------------------------------------
(* The shape of basic blocks *)

\* After the first terminator, which is a conditional branch then, there are only
\* the loads of operands.
Shaped(bb) ==
    \A k \in 1..Len(bb) : IsTerminator(bb[k]) =>
        \A j \in (k + 1)..Len(bb) : bb[k].kind = "condbr" /\ bb[j].kind = "load"
OnlyCond(bb) == \A k \in 1..Len(bb) : IsTerminator(bb[k]) => bb[k].kind = "condbr"
RetSaved(bb) == \A k \in 1..Len(bb) : bb[k].kind = "ret" => k > 1 /\ bb[k - 1].kind = "save"
Loaded(bb) ==
    \A k \in 1..Len(bb) : bb[k].kind = "sem" =>
        \E j \in 1..(k - 1) : bb[j].kind = "load" /\ bb[j].of = bb[k].of

\* The elements of two pieces in a row.
LEMMA Joins ==
    ASSUME NEW s \in Seq(Items), NEW t \in Seq(Items)
    PROVE  /\ s \o t \in Seq(Items) /\ Len(s) \in Nat /\ Len(t) \in Nat
           /\ Len(s \o t) = Len(s) + Len(t)
           /\ \A i \in 1..Len(s) : (s \o t)[i] = s[i] /\ i \in 1..(Len(s) + Len(t))
           /\ \A i \in 1..Len(t) : (s \o t)[Len(s) + i] = t[i] /\ Len(s) + i \in 1..(Len(s) + Len(t))
           /\ \A i \in 1..(Len(s) + Len(t)) :
                i \in 1..Len(s) \/ (\E j \in 1..Len(t) : i = Len(s) + j)
<1> DEFINE u == s \o t
<1>1. /\ u \in Seq(Items) /\ Len(u) = Len(s) + Len(t)
      /\ \A i \in 1 .. Len(s) + Len(t) : u[i] = IF i <= Len(s) THEN s[i] ELSE t[i - Len(s)]
      /\ Len(s) \in Nat /\ Len(t) \in Nat
  BY ConcatProperties, LenProperties
<1> HIDE DEF u
<1>2. \A x, y \in Nat :
        /\ \A i \in 1..x : i \in 1..(x + y) /\ i <= x
        /\ \A i \in 1..y : x + i \in 1..(x + y) /\ ~(x + i <= x) /\ (x + i) - x = i
        /\ \A i \in 1..(x + y) : i \in 1..x \/ (i - x \in 1..y /\ i = x + (i - x))
  OBVIOUS
<1>3. \A i \in 1..(Len(s) + Len(t)) : i \in 1..Len(s) \/ (\E j \in 1..Len(t) : i = Len(s) + j)
  BY <1>1, <1>2
<1>4. /\ \A i \in 1..Len(s) : u[i] = s[i] /\ i \in 1..(Len(s) + Len(t))
      /\ \A i \in 1..Len(t) : u[Len(s) + i] = t[i] /\ Len(s) + i \in 1..(Len(s) + Len(t))
  <2>1. ASSUME NEW i \in 1..Len(s) PROVE u[i] = s[i] /\ i \in 1..(Len(s) + Len(t))
    <3>1. i \in 1..(Len(s) + Len(t)) /\ i <= Len(s)
      BY <1>1, <1>2
    <3> QED
      BY <1>1, <3>1
  <2>2. ASSUME NEW i \in 1..Len(t)
        PROVE  u[Len(s) + i] = t[i] /\ Len(s) + i \in 1..(Len(s) + Len(t))
    <3> DEFINE k == Len(s) + i
    <3>1. k \in 1..(Len(s) + Len(t)) /\ ~(k <= Len(s)) /\ k - Len(s) = i
      BY <1>1, <1>2
    <3> HIDE DEF k
    <3>2. u[k] = t[i]
      BY <1>1, <3>1
    <3> QED
      BY <3>1, <3>2 DEF k
  <2> QED
    BY <2>1, <2>2
<1> QED
  BY <1>1, <1>3, <1>4 DEF u

\* Terminators of two pieces in a row.
LEMMA JoinsTerm ==
    ASSUME NEW s \in Seq(Items), NEW t \in Seq(Items)
    PROVE  /\ Term(s \o t) <=> (Term(s) \/ Term(t))
           /\ OnlyCond(s) /\ OnlyCond(t) => OnlyCond(s \o t)
<1> DEFINE u == s \o t
<1>1. /\ Len(u) = Len(s) + Len(t)
      /\ \A i \in 1..Len(s) : u[i] = s[i] /\ i \in 1..(Len(s) + Len(t))
      /\ \A i \in 1..Len(t) : u[Len(s) + i] = t[i] /\ Len(s) + i \in 1..(Len(s) + Len(t))
      /\ \A i \in 1..(Len(s) + Len(t)) : i \in 1..Len(s) \/ (\E j \in 1..Len(t) : i = Len(s) + j)
  BY Joins
<1> HIDE DEF u
<1>2. Term(u) => Term(s) \/ Term(t)
  <2> SUFFICES ASSUME NEW k \in 1..(Len(s) + Len(t)), IsTerminator(u[k]) PROVE Term(s) \/ Term(t)
    BY <1>1 DEF Term
  <2> QED
    BY <1>1 DEF Term
<1>3. Term(s) \/ Term(t) => Term(u)
  BY <1>1 DEF Term
<1>4. OnlyCond(s) /\ OnlyCond(t) => OnlyCond(u)
  <2> SUFFICES ASSUME OnlyCond(s), OnlyCond(t), NEW k \in 1..(Len(s) + Len(t)), IsTerminator(u[k])
               PROVE  u[k].kind = "condbr"
    BY <1>1 DEF OnlyCond
  <2>1. CASE k \in 1..Len(s)
    BY <1>1, <2>1 DEF OnlyCond
  <2>2. CASE \E j \in 1..Len(t) : k = Len(s) + j
    BY <1>1, <2>2 DEF OnlyCond
  <2> QED
    BY <1>1, <2>1, <2>2
<1> QED
  BY <1>2, <1>3, <1>4 DEF u

\* Copies stay around their transfers.
LEMMA JoinsAround ==
    ASSUME NEW s \in Seq(Items), NEW t \in Seq(Items), Around(s), Around(t)
    PROVE  Around(s \o t)
<1> DEFINE u == s \o t
<1>1. /\ Len(u) = Len(s) + Len(t) /\ Len(s) \in Nat /\ Len(t) \in Nat
      /\ \A i \in 1..Len(s) : u[i] = s[i]
      /\ \A i \in 1..Len(t) : u[Len(s) + i] = t[i]
      /\ \A i \in 1..(Len(s) + Len(t)) : i \in 1..Len(s) \/ (\E j \in 1..Len(t) : i = Len(s) + j)
  BY Joins
<1> HIDE DEF u
<1> DEFINE Calls(x) == x.kind = "musttail" \/ (x.kind = "xfer" /\ ~FunctionsNop)
<1>2. ASSUME NEW k \in 1..Len(s)
      PROVE  /\ u[k].kind \in {"xfer", "musttail"} => k > 1 /\ u[k - 1].kind = "save"
             /\ Calls(u[k]) => k < Len(u) /\ u[k + 1].kind = "reload"
  <2>1. k > 1 => k - 1 \in 1..Len(s)
    BY <1>1
  <2>2. k < Len(s) => k + 1 \in 1..Len(s) /\ k < Len(u)
    BY <1>1
  <2>3. u[k] = s[k] /\ (k > 1 => u[k - 1] = s[k - 1]) /\ (k < Len(s) => u[k + 1] = s[k + 1])
    BY <1>1, <2>1, <2>2
  <2> QED
    BY <2>2, <2>3 DEF Around
<1>3. ASSUME NEW i \in 1..Len(t)
      PROVE  LET k == Len(s) + i
             IN  /\ u[k].kind \in {"xfer", "musttail"} => k > 1 /\ u[k - 1].kind = "save"
                 /\ Calls(u[k]) => k < Len(u) /\ u[k + 1].kind = "reload"
  <2> DEFINE k == Len(s) + i
  <2>1. /\ i > 1 => i - 1 \in 1..Len(t) /\ k - 1 = Len(s) + (i - 1) /\ k > 1
        /\ i < Len(t) => i + 1 \in 1..Len(t) /\ k + 1 = Len(s) + (i + 1) /\ k < Len(u)
    BY <1>1
  <2>2. u[k] = t[i]
    BY <1>1
  <2>3. (i > 1 => u[k - 1] = t[i - 1]) /\ (i < Len(t) => u[k + 1] = t[i + 1])
    <3>1. \A j \in 1..Len(t) : u[Len(s) + j] = t[j]
      BY <1>1
    <3>2. i > 1 => u[Len(s) + (i - 1)] = t[i - 1]
      BY <2>1, <3>1
    <3>3. i < Len(t) => u[Len(s) + (i + 1)] = t[i + 1]
      BY <2>1, <3>1
    <3>4. (i > 1 => k - 1 = Len(s) + (i - 1)) /\ (i < Len(t) => k + 1 = Len(s) + (i + 1))
      BY <2>1
    <3> HIDE DEF k
    <3> QED
      BY <3>2, <3>3, <3>4, Zenon
  <2> HIDE DEF k
  <2>4. /\ u[k].kind \in {"xfer", "musttail"} => k > 1 /\ u[k - 1].kind = "save"
        /\ Calls(u[k]) => k < Len(u) /\ u[k + 1].kind = "reload"
    BY <2>1, <2>2, <2>3 DEF Around
  <2> QED
    BY <2>4 DEF k
<1>4. ASSUME NEW k \in 1..Len(u)
      PROVE  /\ u[k].kind \in {"xfer", "musttail"} => k > 1 /\ u[k - 1].kind = "save"
             /\ Calls(u[k]) => k < Len(u) /\ u[k + 1].kind = "reload"
  <2>1. k \in 1..Len(s) \/ (\E j \in 1..Len(t) : k = Len(s) + j)
    BY <1>1
  <2> HIDE DEF Calls
  <2> QED
    BY <1>2, <1>3, <2>1
<1>5. Around(u)
  BY <1>4 DEF Around
<1> QED
  BY <1>5 DEF u

\* Where a terminator may be appended, and where loads may.
LEMMA JoinsShaped ==
    ASSUME NEW s \in Seq(Items), NEW t \in Seq(Items),
           \/ ~Term(s) /\ \A k \in 1..Len(t) : IsTerminator(t[k]) => k = Len(t)
           \/ Shaped(s) /\ OnlyCond(s) /\ \A k \in 1..Len(t) : t[k].kind = "load"
    PROVE  Shaped(s \o t)
<1> DEFINE u == s \o t
<1>1. /\ Len(u) = Len(s) + Len(t) /\ Len(s) \in Nat /\ Len(t) \in Nat
      /\ \A i \in 1..Len(s) : u[i] = s[i]
      /\ \A i \in 1..Len(t) : u[Len(s) + i] = t[i]
      /\ \A i \in 1..(Len(s) + Len(t)) : i \in 1..Len(s) \/ (\E j \in 1..Len(t) : i = Len(s) + j)
  BY Joins
<1> HIDE DEF u
<1> SUFFICES ASSUME NEW k \in 1..Len(u), IsTerminator(u[k]), NEW j \in (k + 1)..Len(u)
             PROVE  u[k].kind = "condbr" /\ u[j].kind = "load"
  BY DEF Shaped, u
<1>2. j \in 1..Len(u)
  BY <1>1
<1>3. CASE ~Term(s) /\ \A i \in 1..Len(t) : IsTerminator(t[i]) => i = Len(t)
  <2>1. k \notin 1..Len(s)
    BY <1>1, <1>3 DEF Term
  <2>2. PICK i \in 1..Len(t) : k = Len(s) + i
    BY <1>1, <2>1
  <2>3. i = Len(t)
    BY <1>1, <1>3, <2>2
  <2> QED
    BY <1>1, <2>2, <2>3
<1>4. CASE Shaped(s) /\ OnlyCond(s) /\ \A i \in 1..Len(t) : t[i].kind = "load"
  <2>1. k \in 1..Len(s)
    <3> SUFFICES ASSUME NEW i \in 1..Len(t), k = Len(s) + i PROVE FALSE
      BY <1>1
    <3>1. u[k].kind = "load"
      BY <1>1, <1>4
    <3> QED
      BY <3>1 DEF IsTerminator
  <2>2. u[k].kind = "condbr"
    BY <1>1, <1>4, <2>1 DEF OnlyCond
  <2>3. CASE j \in 1..Len(s)
    <3>1. j \in (k + 1)..Len(s)
      BY <1>1, <2>3
    <3>2. IsTerminator(s[k])
      BY <1>1, <2>1
    <3>3. s[j].kind = "load"
      BY <1>4, <2>1, <3>1, <3>2 DEF Shaped
    <3> QED
      BY <1>1, <2>2, <2>3, <3>3
  <2>4. CASE \E i \in 1..Len(t) : j = Len(s) + i
    BY <1>1, <1>4, <2>2, <2>4
  <2> QED
    BY <1>1, <1>2, <2>3, <2>4
<1> QED
  BY <1>3, <1>4

\* What the second piece uses is loaded in the first.
LEMMA JoinsLoaded ==
    ASSUME NEW s \in Seq(Items), NEW t \in Seq(Items), Loaded(s),
           \A k \in 1..Len(t) : t[k].kind = "sem" =>
                \E j \in 1..Len(s) : s[j].kind = "load" /\ s[j].of = t[k].of
    PROVE  Loaded(s \o t)
<1> DEFINE u == s \o t
<1>1. /\ Len(u) = Len(s) + Len(t) /\ Len(s) \in Nat /\ Len(t) \in Nat
      /\ \A i \in 1..Len(s) : u[i] = s[i]
      /\ \A i \in 1..Len(t) : u[Len(s) + i] = t[i]
      /\ \A i \in 1..(Len(s) + Len(t)) : i \in 1..Len(s) \/ (\E j \in 1..Len(t) : i = Len(s) + j)
  BY Joins
<1> HIDE DEF u
<1> SUFFICES ASSUME NEW k \in 1..Len(u), u[k].kind = "sem"
             PROVE  \E j \in 1..(k - 1) : u[j].kind = "load" /\ u[j].of = u[k].of
  BY DEF Loaded, u
<1>2. CASE k \in 1..Len(s)
  <2>1. PICK j \in 1..(k - 1) : s[j].kind = "load" /\ s[j].of = s[k].of
    BY <1>1, <1>2 DEF Loaded
  <2>2. j \in 1..Len(s)
    BY <1>1, <1>2
  <2> QED
    BY <1>1, <1>2, <2>1, <2>2
<1>3. CASE \E i \in 1..Len(t) : k = Len(s) + i
  <2>1. PICK i \in 1..Len(t) : k = Len(s) + i
    BY <1>3
  <2>2. u[k] = t[i]
    BY <1>1, <2>1
  <2>3. PICK j \in 1..Len(s) : s[j].kind = "load" /\ s[j].of = t[i].of
    BY <2>2
  <2>4. j \in 1..(k - 1) /\ u[j] = s[j]
    BY <1>1, <2>1
  <2> QED
    BY <2>2, <2>3, <2>4
<1> QED
  BY <1>1, <1>2, <1>3
\* Nothing is lifted into this block any more: its last branch or return is
\* there, a jump with the conditional branch before it.
Closed ==
    at.inst > 1 /\ (\/ OpAt(at.inst - 1) \in {"jmp", "ret"}
                    \/ OpAt(at.inst - 1) = "cbr" /\ (at.inst > Size(at.block) \/ OpAt(at.inst) = "jmp"))

\* While it is filled: the basic blocks of the machine blocks before are terminated, those
\* of the next ones are empty.  The builder is in the basic block of the machine block,
\* or in one that was added after a conditional branch.
FillInv ==
    /\ \A n \in 1..Len(ir) : Shaped(ir[n]) /\ Around(ir[n])
    /\ \A n \in (at.block + 1)..Len(src) : ir[n] = << >>
    /\ \A n \in 1..Len(ir) : Term(ir[n]) \/ n \in (at.block + 1)..Len(src) \/ (n = ip /\ ~Closed)
    /\ ~Closed => ~Term(ir[ip])
    /\ ~Closed => ip = at.block \/ (ip > Len(src) /\ Term(ir[at.block]) /\ OnlyCond(ir[at.block]))
    /\ ip = at.block \/ \E j \in 1..(at.inst - 1) : OpAt(j) = "cbr"

\* The basic block with nothing in it.
LEMMA EmptyIs ==
    << >> \in Seq(Items) /\ Len(<< >>) = 0 /\ ~Term(<< >>) /\ OnlyCond(<< >>) /\ Around(<< >>)
      /\ Shaped(<< >>) /\ Loaded(<< >>) /\ RetSaved(<< >>)
  BY EmptySeq DEF Term, OnlyCond, Around, Shaped, Loaded, RetSaved

\* Loads of operands end no basic block.
LEMMA LoadsAre ==
    ASSUME NEW s \in Seq(Items), \A k \in 1..Len(s) : s[k].kind = "load"
    PROVE  ~Term(s) /\ OnlyCond(s) /\ Around(s)
  BY DEF Term, OnlyCond, Around, IsTerminator

\* Code goes to a basic block without a terminator, loads to one without a jump or a return.
LEMMA AddedShapes ==
    ASSUME CloneInv, IrInv, phase = "fill", FillInv, ~Closed,
           NEW loads, NEW code, Adds(loads, code),
           \A k \in 1..Len(loads) : loads[k].kind = "load",
           \A k \in 1..Len(code) : IsTerminator(code[k]) => k = Len(code),
           Around(code)
    PROVE  /\ \A n \in 1..Len(ir) : Shaped(ir'[n]) /\ Around(ir'[n])
           /\ \A n \in 1..Len(ir) : Term(ir'[n]) <=> Term(ir[n]) \/ (n = ip /\ Term(code))
           /\ \A n \in 1..Len(ir) : n \notin {at.block, ip} => ir'[n] = ir[n]
           /\ ip # at.block => OnlyCond(ir'[at.block])
           /\ OnlyCond(code) => OnlyCond(ir'[ip])
<1>1. /\ loads \in Seq(Items) /\ code \in Seq(Items)
      /\ \A n \in 1..Len(ir) :
            ir'[n] = (ir[n] \o (IF n = at.block THEN loads ELSE << >>)) \o (IF n = ip THEN code ELSE << >>)
  BY DEF Adds
<1>2. /\ \A n \in 1..Len(ir) : ir[n] \in Seq(Items)
      /\ at.block \in 1..Len(ir) /\ ip \in 1..Len(ir)
  BY IrIs
<1>3. ~Term(loads) /\ OnlyCond(loads) /\ Around(loads)
  BY <1>1, LoadsAre
<1>4. /\ << >> \in Seq(Items) /\ ~Term(<< >>) /\ OnlyCond(<< >>) /\ Around(<< >>)
      /\ \A k \in 1..Len(<< >>) : IsTerminator(<< >>[k]) => k = Len(<< >>)
  BY EmptyIs
<1>5. /\ ~Term(ir[ip])
      /\ ip = at.block \/ (Term(ir[at.block]) /\ OnlyCond(ir[at.block]))
      /\ \A n \in 1..Len(ir) : Shaped(ir[n]) /\ Around(ir[n])
  BY DEF FillInv
<1>6. ASSUME NEW n \in 1..Len(ir)
      PROVE  /\ Shaped(ir'[n]) /\ Around(ir'[n])
             /\ Term(ir'[n]) <=> Term(ir[n]) \/ (n = ip /\ Term(code))
             /\ n \notin {at.block, ip} => ir'[n] = ir[n]
             /\ n # ip /\ n = at.block => OnlyCond(ir'[n])
             /\ n = ip /\ OnlyCond(code) => OnlyCond(ir'[n])
  <2> DEFINE l == IF n = at.block THEN loads ELSE << >>
             c == IF n = ip THEN code ELSE << >>
             u == ir[n]
             v == u \o l
  <2>1. /\ l \in Seq(Items) /\ ~Term(l) /\ OnlyCond(l) /\ Around(l)
        /\ \A k \in 1..Len(l) : l[k].kind = "load"
    BY <1>1, <1>3, <1>4, EmptyIs
  <2>2. /\ c \in Seq(Items) /\ Around(c) /\ \A k \in 1..Len(c) : IsTerminator(c[k]) => k = Len(c)
        /\ n = ip => c = code
        /\ n # ip => c = << >> /\ ~Term(c) /\ OnlyCond(c)
    BY <1>1, <1>4
  <2>3. n # at.block => l = << >>
    OBVIOUS
  <2>4. /\ u \in Seq(Items) /\ Shaped(u) /\ Around(u) /\ (n = ip => ~Term(u))
        /\ n # ip /\ n = at.block => OnlyCond(u)
        /\ u = ir[n] /\ ir'[n] = v \o c
    BY <1>1, <1>2, <1>5
  <2> HIDE DEF l, c, u
  <2>5. /\ v \in Seq(Items) /\ Around(v) /\ (Term(v) <=> Term(u)) /\ (OnlyCond(u) => OnlyCond(v))
    BY <2>1, <2>4, Joins, JoinsTerm, JoinsAround
  <2>6. n # at.block => v = u
    BY <2>3, <2>4, ConcatEmptySeq
  <2>7. n # ip => Shaped(v)
    <3>1. CASE n = at.block
      BY <2>1, <2>4, <3>1, JoinsShaped
    <3>2. CASE n # at.block
      BY <2>4, <2>6, <3>2
    <3> QED
      BY <3>1, <3>2
  <2> HIDE DEF v
  <2>8. Around(v \o c) /\ (Term(v \o c) <=> Term(v) \/ Term(c)) /\ (OnlyCond(v) /\ OnlyCond(c) => OnlyCond(v \o c))
    BY <2>2, <2>5, JoinsTerm, JoinsAround
  <2>9. n # ip => v \o c = v
    BY <2>2, <2>5, ConcatEmptySeq
  <2>10. Shaped(v \o c)
    <3>1. CASE n = ip
      BY <2>2, <2>4, <2>5, <3>1, JoinsShaped
    <3>2. CASE n # ip
      BY <2>7, <2>9, <3>2
    <3> QED
      BY <3>1, <3>2
  <2>11. ~Term(v) => OnlyCond(v)
    BY DEF Term, OnlyCond
  <2> QED
    BY <2>2, <2>4, <2>5, <2>6, <2>8, <2>9, <2>10, <2>11
<1> QED
  BY <1>2, <1>6

\* An empty piece changes nothing.
LEMMA AddsNothing ==
    ASSUME CloneInv, IrInv, NEW loads, NEW code, Adds(loads, code), Len(loads) = 0, Len(code) = 0
    PROVE  \A n \in 1..Len(ir) : ir'[n] = ir[n]
<1>1. /\ loads \in Seq(Items) /\ code \in Seq(Items)
      /\ \A n \in 1..Len(ir) :
            ir'[n] = (ir[n] \o (IF n = at.block THEN loads ELSE << >>)) \o (IF n = ip THEN code ELSE << >>)
  BY DEF Adds
<1>2. loads = << >> /\ code = << >>
  BY <1>1, EmptySeq
<1>3. \A n \in 1..Len(ir) : ir[n] \in Seq(Items)
  BY IrIs
<1>4. \A n \in 1..Len(ir) : (ir[n] \o << >>) \o << >> = ir[n]
  BY <1>3, ConcatEmptySeq
<1> QED
  BY <1>1, <1>2, <1>4
\* The block that is filled stays the same.
LEMMA SameOps ==
    ASSUME src' = src, at'.block = at.block
    PROVE  (\A k : OpAt(k)' = OpAt(k)) /\ Size(at.block)' = Size(at.block)
BY DEF OpAt, Size, Instrs

\* The instruction that is lifted, in a well-formed function.
LEMMA HereIs ==
    ASSUME CloneInv, WellFormed(src), Filling
    PROVE  /\ phase = "fill" /\ at.inst \in 1..Size(at.block) /\ at.block \in 1..Len(src)
           /\ Size(at.block) \in Nat /\ Len(src) \in Nat
           /\ Inst = MBB.instrs[at.inst] /\ Inst.op = OpAt(at.inst) /\ Inst.op \in Op
           /\ Inst.op \in {"cbr", "jmp"} => is_branch(Inst)
           /\ Inst.op \in {"jmp", "ret"} => at.inst = Size(at.block)
           /\ Closed <=> Absorbed
           /\ Absorbed => Inst.op = "jmp"
<1>1. phase = "fill" /\ at.inst <= Len(MBB.instrs)
  BY DEF Filling
<1>2. /\ at.inst \in 1..Size(at.block) /\ at.block \in 1..Len(src) /\ Len(src) \in Nat
      /\ Size(at.block) \in Nat
  BY <1>1, InstIs DEF CloneInv
<1>3. /\ Inst = MBB.instrs[at.inst] /\ Inst.op = OpAt(at.inst) /\ Inst.op \in Op
      /\ Inst.op \in {"cbr", "jmp"} => is_branch(Inst)
      /\ Inst.op \in {"jmp", "ret"} => at.inst = Size(at.block)
  BY <1>1, <1>2, WellFormedIs DEF Inst, is_branch
<1>4. at.inst > 1 => /\ at.inst - 1 \in 1..Size(at.block) /\ at.inst - 1 # Size(at.block)
                     /\ MBB.instrs[at.inst - 1].op = OpAt(at.inst - 1)
                     /\ OpAt(at.inst - 1) \notin {"jmp", "ret"}
  <2> SUFFICES ASSUME at.inst > 1
               PROVE  /\ at.inst - 1 \in 1..Size(at.block) /\ at.inst - 1 # Size(at.block)
                      /\ MBB.instrs[at.inst - 1].op = OpAt(at.inst - 1)
                      /\ OpAt(at.inst - 1) \notin {"jmp", "ret"}
    OBVIOUS
  <2>1. at.inst - 1 \in 1..Size(at.block) /\ at.inst - 1 # Size(at.block)
    BY <1>2
  <2> QED
    BY <1>1, <2>1, WellFormedIs
<1>5. ~(at.inst > Size(at.block))
  BY <1>2
<1>6. Closed <=> Absorbed
  BY <1>3, <1>4, <1>5 DEF Closed, Absorbed
<1> QED
  BY <1>1, <1>2, <1>3, <1>6 DEF Absorbed

\* Instructions other than conditional branches keep the shape.
LEMMA GrowsFill ==
    ASSUME CloneInv, IrInv, WellFormed(src), FillInv, Grows
    PROVE  FillInv'
<1>1. /\ Filling /\ at' = [at EXCEPT !.inst = @ + 1] /\ UNCHANGED <<src, dst, phase, ip>>
  BY DEF Grows, Advance
<1>2. /\ phase = "fill" /\ at.inst \in 1..Size(at.block) /\ at.block \in 1..Len(src)
      /\ Size(at.block) \in Nat /\ Len(src) \in Nat
      /\ Inst.op = OpAt(at.inst) /\ Inst.op \in Op
      /\ Inst.op \in {"cbr", "jmp"} => is_branch(Inst)
      /\ Closed <=> Absorbed
      /\ Absorbed => Inst.op = "jmp"
  BY <1>1, HereIs
<1>3. at'.block = at.block /\ at'.inst = at.inst + 1 /\ at'.inst - 1 = at.inst /\ at'.inst > 1
  <2>1. at = [block |-> at.block, inst |-> at.inst]
    BY DEF CloneInv
  <2> QED
    BY <1>1, <1>2, <2>1
<1>4. (\A k : OpAt(k)' = OpAt(k)) /\ Size(at.block)' = Size(at.block)
  BY <1>1, <1>3, SameOps
<1>5. PICK loads, code : Grown(loads, code)
  BY DEF Grows
<1>6. Adds(loads, code) /\ Len(ir') = Len(ir)
  BY <1>2, <1>5, GrownAdds
<1>7. /\ \A k \in 1..Len(loads) : loads[k].kind = "load"
      /\ \A k \in 1..Len(code) : IsTerminator(code[k]) => k = Len(code) /\ Inst.op \in {"jmp", "ret"}
      /\ (is_branch(Inst) \/ is_return(Inst)) /\ ~Absorbed => Term(code)
      /\ Absorbed => Len(loads) = 0 /\ Len(code) = 0
      /\ Around(code)
  BY <1>5 DEF Grown
<1>8. /\ \A n \in 1..Len(ir) : Shaped(ir[n]) /\ Around(ir[n])
      /\ \A n \in (at.block + 1)..Len(src) : ir[n] = << >>
      /\ \A n \in 1..Len(ir) : Term(ir[n]) \/ n \in (at.block + 1)..Len(src) \/ (n = ip /\ ~Closed)
      /\ ~Closed => ~Term(ir[ip])
      /\ ~Closed => ip = at.block \/ (ip > Len(src) /\ Term(ir[at.block]) /\ OnlyCond(ir[at.block]))
      /\ ip = at.block \/ \E j \in 1..(at.inst - 1) : OpAt(j) = "cbr"
  BY DEF FillInv
<1>9. ip' = at'.block \/ \E j \in 1..(at'.inst - 1) : OpAt(j)' = "cbr"
  <2>1. \A j \in 1..(at.inst - 1) : j \in 1..at.inst
    BY <1>2
  <2> QED
    BY <1>1, <1>3, <1>4, <1>8, <2>1
<1>10. Closed' <=> \/ Inst.op \in {"jmp", "ret"}
                   \/ Inst.op = "cbr" /\ (at'.inst > Size(at.block) \/ OpAt(at'.inst) = "jmp")
  <2>1. Closed' <=> \/ OpAt(at.inst) \in {"jmp", "ret"}
                    \/ OpAt(at.inst) = "cbr" /\ (at'.inst > Size(at.block) \/ OpAt(at'.inst) = "jmp")
    BY <1>3, <1>4 DEF Closed
  <2> QED
    BY <1>2, <2>1
<1>11. (at'.block + 1)..Len(src') = (at.block + 1)..Len(src) /\ Len(src) <= Len(ir) /\ ip \in 1..Len(ir)
  BY <1>1, <1>2, <1>3, IrIs
<1>12. CASE Absorbed
  <2>1. \A n \in 1..Len(ir) : ir'[n] = ir[n]
    BY <1>6, <1>7, <1>12, AddsNothing
  <2>2. Closed' /\ Closed
    BY <1>2, <1>10, <1>12
  <2>3. /\ \A n \in 1..Len(ir') : Shaped(ir'[n]) /\ Around(ir'[n])
        /\ \A n \in (at'.block + 1)..Len(src') : ir'[n] = << >>
        /\ \A n \in 1..Len(ir') : Term(ir'[n]) \/ n \in (at'.block + 1)..Len(src')
    <3>1. \A n \in (at.block + 1)..Len(src) : n \in 1..Len(ir)
      BY <1>2, <1>11, IrIs
    <3> QED
      BY <1>6, <1>8, <1>11, <2>1, <2>2, <3>1
  <2> QED
    BY <1>9, <2>2, <2>3 DEF FillInv, Term, Shaped, Around, IsTerminator
<1>13. CASE ~Absorbed
  <2>1. ~Closed
    BY <1>2, <1>13
  <2>2. /\ \A n \in 1..Len(ir) : Shaped(ir'[n]) /\ Around(ir'[n])
        /\ \A n \in 1..Len(ir) : Term(ir'[n]) <=> Term(ir[n]) \/ (n = ip /\ Term(code))
        /\ \A n \in 1..Len(ir) : n \notin {at.block, ip} => ir'[n] = ir[n]
        /\ ip # at.block => OnlyCond(ir'[at.block])
    BY <1>2, <1>6, <1>7, <2>1, AddedShapes
  <2>3. /\ Inst.op # "cbr"
        /\ Closed' <=> Term(code)
    <3>1. Term(code) => Inst.op \in {"jmp", "ret"}
      BY <1>7 DEF Term
    <3>2. Inst.op \in {"cbr", "jmp", "ret"} => Term(code)
      BY <1>2, <1>7, <1>13 DEF is_return
    <3>3. Inst.op # "cbr"
      BY <3>1, <3>2
    <3> QED
      BY <1>10, <3>1, <3>2, <3>3
  <2>4. \A n \in (at.block + 1)..Len(src) : n \in 1..Len(ir) /\ n \notin {at.block, ip}
    BY <1>2, <1>8, <1>11, <2>1, IrIs
  <2>5. \A n \in (at'.block + 1)..Len(src') : ir'[n] = << >>
    BY <1>8, <1>11, <2>2, <2>4
  <2>6. \A n \in 1..Len(ir') : Term(ir'[n]) \/ n \in (at'.block + 1)..Len(src') \/ (n = ip' /\ ~Closed')
    BY <1>1, <1>6, <1>8, <1>11, <2>2, <2>3
  <2>7. /\ ~Closed' => ~Term(ir'[ip'])
        /\ ~Closed' => ip' = at'.block \/ (ip' > Len(src') /\ Term(ir'[at'.block]) /\ OnlyCond(ir'[at'.block]))
    <3>1. at.block \in 1..Len(ir)
      BY <1>2, IrIs
    <3> QED
      BY <1>1, <1>3, <1>8, <1>11, <2>1, <2>2, <2>3, <3>1
  <2> QED
    BY <1>6, <1>9, <2>2, <2>5, <2>6, <2>7 DEF FillInv, Term, Shaped, Around, OnlyCond, IsTerminator
<1> QED
  BY <1>12, <1>13
\* Conditional branches keep it, wherever the builder goes.
LEMMA BranchFill ==
    ASSUME CloneInv, IrInv, WellFormed(src), FillInv, GenerateBranch, phase' # "rejected"
    PROVE  FillInv'
<1>1. /\ Filling /\ Inst.op = "cbr" /\ at' = [at EXCEPT !.inst = @ + 1] /\ UNCHANGED <<src, dst, phase>>
  BY DEF GenerateBranch, Advance, Reject, isConditionalBranch
<1>2. /\ phase = "fill" /\ at.inst \in 1..Size(at.block) /\ at.block \in 1..Len(src)
      /\ Size(at.block) \in Nat /\ Len(src) \in Nat
      /\ OpAt(at.inst) = "cbr"
      /\ ~Closed
  BY <1>1, HereIs
<1>3. at'.block = at.block /\ at'.inst = at.inst + 1 /\ at'.inst - 1 = at.inst /\ at'.inst > 1
  <2>1. at = [block |-> at.block, inst |-> at.inst]
    BY DEF CloneInv
  <2> QED
    BY <1>1, <1>2, <2>1
<1>4. (\A k : OpAt(k)' = OpAt(k)) /\ Size(at.block)' = Size(at.block)
  BY <1>1, <1>3, SameOps
<1>5. PICK loads, code : Branches(loads, code)
  BY BranchAdds
<1>6. /\ Adds(loads, code) /\ ip' \in 1..Len(ir')
      /\ Len(loads) = 1 /\ loads[1].kind = "load"
      /\ Len(code) = 2 /\ code[1].kind = "sem" /\ code[2].kind = "condbr"
      /\ IF at.inst = Size(at.block)
         THEN at.block < Len(src) /\ ip' = at.block + 1 /\ Len(ir') = Len(ir)
         ELSE IF isUnconditionalBranch(Next1) THEN ip' \in 1..Len(src) /\ Len(ir') = Len(ir)
         ELSE ip' = Len(ir) + 1 /\ Len(ir') = Len(ir) + 1
  BY <1>5 DEF Branches
<1>7. /\ Len(ir) \in Nat /\ Len(src) <= Len(ir) /\ ip \in 1..Len(ir) /\ at.block \in 1..Len(ir)
      /\ (at'.block + 1)..Len(src') = (at.block + 1)..Len(src)
  BY <1>1, <1>2, <1>3, IrIs
<1>8. /\ \A n \in 1..Len(ir) : Shaped(ir[n]) /\ Around(ir[n])
      /\ \A n \in (at.block + 1)..Len(src) : ir[n] = << >>
      /\ \A n \in 1..Len(ir) : Term(ir[n]) \/ n \in (at.block + 1)..Len(src) \/ n = ip
      /\ ~Term(ir[ip])
      /\ ip = at.block \/ (ip > Len(src) /\ Term(ir[at.block]) /\ OnlyCond(ir[at.block]))
  BY <1>2 DEF FillInv
<1>9. /\ Around(code) /\ Term(code) /\ OnlyCond(code)
      /\ \A k \in 1..Len(loads) : loads[k].kind = "load"
      /\ \A k \in 1..Len(code) : IsTerminator(code[k]) => k = Len(code)
  <2>1. \A k \in 1..2 : k = 1 \/ k = 2
    OBVIOUS
  <2> QED
    BY <1>6, <2>1 DEF Around, Term, OnlyCond, IsTerminator
<1>10. /\ \A n \in 1..Len(ir) : Shaped(ir'[n]) /\ Around(ir'[n])
       /\ \A n \in 1..Len(ir) : Term(ir'[n]) <=> Term(ir[n]) \/ n = ip
       /\ \A n \in 1..Len(ir) : n \notin {at.block, ip} => ir'[n] = ir[n]
       /\ OnlyCond(ir'[at.block])
  BY <1>2, <1>6, <1>9, AddedShapes
<1>11. Closed' <=> (at.inst = Size(at.block) \/ isUnconditionalBranch(Next1))
  <2>1. Closed' <=> (at.inst + 1 > Size(at.block) \/ OpAt(at.inst + 1) = "jmp")
    BY <1>2, <1>3, <1>4 DEF Closed
  <2>2. at.inst + 1 > Size(at.block) <=> at.inst = Size(at.block)
    BY <1>2
  <2>3. CASE at.inst = Size(at.block)
    BY <2>1, <2>2, <2>3
  <2>4. CASE at.inst # Size(at.block)
    <3>1. at.inst + 1 \in 1..Size(at.block) /\ at.inst < Size(at.block)
      BY <1>2, <2>4
    <3>2. Next1.op = OpAt(at.inst + 1) /\ OpAt(at.inst + 1) \notin {"tail", "brind"}
      BY <1>2, <3>1, WellFormedIs DEF Next1
    <3> QED
      BY <2>1, <2>2, <2>4, <3>2 DEF isUnconditionalBranch
  <2> QED
    BY <2>3, <2>4
<1>12. \E j \in 1..(at'.inst - 1) : OpAt(j)' = "cbr"
  <2>1. at.inst \in 1..(at'.inst - 1)
    BY <1>2, <1>3
  <2> QED
    BY <1>2, <1>4, <2>1
<1>13. \A n \in (at'.block + 1)..Len(src') : ir'[n] = << >>
  <2>1. \A n \in (at.block + 1)..Len(src) : n \in 1..Len(ir) /\ n \notin {at.block, ip}
    BY <1>2, <1>7, <1>8
  <2> QED
    BY <1>7, <1>8, <1>10, <2>1
<1>14. \A n \in 1..Len(ir) : Term(ir'[n]) \/ n \in (at'.block + 1)..Len(src')
  BY <1>7, <1>8, <1>10
<1>15. CASE Closed'
  <2>1. Len(ir') = Len(ir)
    BY <1>6, <1>11, <1>15
  <2> QED
    BY <1>10, <1>12, <1>13, <1>14, <1>15, <2>1 DEF FillInv, Term, Shaped, Around, OnlyCond, IsTerminator
<1>16. CASE ~Closed'
  <2>1. ip' = Len(ir) + 1 /\ Len(ir') = Len(ir) + 1
    BY <1>6, <1>11, <1>16
  <2>2. ip' \in 1..Len(ir') /\ ip' > Len(ir) /\ ip' > Len(src')
    BY <1>1, <1>2, <1>7, <2>1
  <2>3. ir'[ip'] = << >>
    BY <1>6, <2>2 DEF Adds
  <2>4. ~Term(ir'[ip']) /\ Shaped(ir'[ip']) /\ Around(ir'[ip'])
    BY <2>3, EmptyIs
  <2>5. \A n \in 1..Len(ir') : n \in 1..Len(ir) \/ n = ip'
    BY <1>7, <2>1
  <2>6. Term(ir'[at'.block]) /\ OnlyCond(ir'[at'.block])
    BY <1>3, <1>7, <1>8, <1>10
  <2>7. \A n \in 1..Len(ir') : /\ Shaped(ir'[n]) /\ Around(ir'[n])
                               /\ Term(ir'[n]) \/ n \in (at'.block + 1)..Len(src') \/ n = ip'
    BY <1>10, <1>14, <2>4, <2>5
  <2> QED
    BY <1>12, <1>13, <1>16, <2>2, <2>4, <2>6, <2>7 DEF FillInv, Term, Shaped, Around, OnlyCond, IsTerminator
<1> QED
  BY <1>15, <1>16

\* After the passes as well.
ShapeInv ==
    /\ phase = "fill" => FillInv
    /\ phase \in {"save", "erase"} => \A n \in 1..Len(ir) : Shaped(ir[n]) /\ Around(ir[n]) /\ Term(ir[n])
    /\ phase = "erase" => \A n \in 1..Len(ir) : RetSaved(ir[n])
    /\ phase = "done" => \A n \in 1..Len(ir) :
            /\ Around(ir[n]) /\ RetSaved(ir[n]) /\ Term(ir[n])
            /\ \A k \in 1..Len(ir[n]) : IsTerminator(ir[n][k]) => k = Len(ir[n])

\* The end of a block does: the next basic block is empty.
LEMMA FinishShape ==
    ASSUME CloneInv, IrInv, WellFormed(src), FillInv, FinishBlock, phase' # "rejected"
    PROVE  ShapeInv'
<1>1. /\ phase = "fill" /\ at.inst > Len(MBB.instrs)
      /\ at' = [block |-> at.block + 1, inst |-> 1] /\ ip' = at.block + 1
      /\ phase' = (IF at.block = Len(dst) THEN "save" ELSE phase)
      /\ UNCHANGED <<src, dst>>
  BY DEF FinishBlock, Reject
<1>2. /\ at.block \in 1..Len(src) /\ Len(src) \in Nat /\ Len(dst) = Len(src)
      /\ at'.block = at.block + 1 /\ at'.inst = 1
  BY <1>1, InstIs
<1>3. PICK code : Finishes(code)
  BY FinishAdds
<1>4. /\ Adds(<< >>, code) /\ Len(ir') = Len(ir)
      /\ at.inst = Size(at.block) + 1 /\ Size(at.block) \in Nat \ {0}
  BY <1>1, <1>3, WellFormedIs DEF Finishes
<1> DEFINE last == MBB.instrs[Size(at.block)]
<1>5. IF is_branch(last) \/ is_return(last) THEN Len(code) = 0
      ELSE Len(code) = 1 /\ code[1].kind \in {"ret", "br"}
  BY <1>3 DEF Finishes
<1>6. Closed <=> (is_branch(last) \/ is_return(last))
  <2>1. last.op = OpAt(Size(at.block)) /\ (last.op \in {"cbr", "jmp"} => HasMBB(last))
    <3>1. Size(at.block) \in 1..Size(at.block)
      BY <1>4
    <3> QED
      BY <1>1, <3>1, WellFormedIs
  <2>2. at.inst > 1 /\ at.inst - 1 = Size(at.block) /\ at.inst > Size(at.block)
    BY <1>4
  <2>3. Closed <=> OpAt(Size(at.block)) \in {"jmp", "ret", "cbr"}
    BY <2>2 DEF Closed
  <2> HIDE DEF last
  <2> QED
    BY <2>1, <2>3 DEF is_branch, is_return
<1>7. /\ Len(ir) \in Nat /\ Len(src) <= Len(ir) /\ ip \in 1..Len(ir) /\ at.block \in 1..Len(ir)
  BY <1>1, <1>2, IrIs
<1>8. /\ \A n \in 1..Len(ir) : Shaped(ir[n]) /\ Around(ir[n])
      /\ \A n \in (at.block + 1)..Len(src) : ir[n] = << >>
      /\ \A n \in 1..Len(ir) : Term(ir[n]) \/ n \in (at.block + 1)..Len(src) \/ (n = ip /\ ~Closed)
      /\ ~Closed => ip = at.block \/ ip > Len(src)
  BY DEF FillInv
<1>9. /\ \A n \in 1..Len(ir) : Shaped(ir'[n]) /\ Around(ir'[n])
      /\ \A n \in (at.block + 1)..Len(src) : ir'[n] = << >>
      /\ \A n \in 1..Len(ir) : Term(ir'[n]) \/ n \in (at.block + 1)..Len(src)
  <2>1. CASE Closed
    <3>1. \A n \in 1..Len(ir) : ir'[n] = ir[n]
      <4>1. Len(code) = 0 /\ Len(<< >>) = 0
        BY <1>5, <1>6, <2>1, EmptyIs
      <4> QED
        BY <1>4, <4>1, AddsNothing
    <3>2. \A n \in (at.block + 1)..Len(src) : n \in 1..Len(ir)
      BY <1>2, <1>7
    <3> QED
      BY <1>8, <2>1, <3>1, <3>2
  <2>2. CASE ~Closed
    <3>1. Len(code) = 1 /\ code[1].kind \in {"ret", "br"}
      BY <1>5, <1>6, <2>2
    <3>2. /\ Around(code) /\ Term(code)
          /\ \A k \in 1..Len(<< >>) : << >>[k].kind = "load"
          /\ \A k \in 1..Len(code) : IsTerminator(code[k]) => k = Len(code)
      BY <3>1, EmptyIs DEF Around, Term, IsTerminator
    <3>3. /\ \A n \in 1..Len(ir) : Shaped(ir'[n]) /\ Around(ir'[n])
          /\ \A n \in 1..Len(ir) : Term(ir'[n]) <=> Term(ir[n]) \/ n = ip
          /\ \A n \in 1..Len(ir) : n \notin {at.block, ip} => ir'[n] = ir[n]
      BY <1>1, <1>4, <2>2, <3>2, AddedShapes
    <3>4. \A n \in (at.block + 1)..Len(src) : n \in 1..Len(ir) /\ n \notin {at.block, ip}
      BY <1>2, <1>7, <1>8, <2>2
    <3> QED
      BY <1>8, <2>2, <3>3, <3>4
  <2> QED
    BY <2>1, <2>2
<1>10. CASE at.block = Len(src)
  <2>1. phase' = "save" /\ \A n \in (at.block + 1)..Len(src) : FALSE
    BY <1>1, <1>2, <1>10
  <2>2. \A n \in 1..Len(ir') : Shaped(ir'[n]) /\ Around(ir'[n]) /\ Term(ir'[n])
    BY <1>4, <1>9, <2>1
  <2> QED
    BY <2>1, <2>2 DEF ShapeInv, Term, Shaped, Around, IsTerminator
<1>11. CASE at.block # Len(src)
  <2>1. phase' = "fill" /\ ip' \in (at.block + 1)..Len(src) /\ ip' = at'.block
    BY <1>1, <1>2, <1>11
  <2>2. ~Closed'
    BY <1>2 DEF Closed
  <2>3. ~Term(ir'[ip'])
    BY <1>9, <2>1, EmptyIs
  <2>4. \A n \in (at'.block + 1)..Len(src') : n \in (at.block + 1)..Len(src)
    BY <1>1, <1>2
  <2>5. \A n \in (at.block + 1)..Len(src) : n \in (at'.block + 1)..Len(src') \/ n = ip'
    BY <1>1, <1>2
  <2>6. FillInv'
    BY <1>4, <1>9, <2>1, <2>2, <2>3, <2>4, <2>5 DEF FillInv, Term, Shaped, Around, OnlyCond, IsTerminator
  <2> QED
    BY <2>1, <2>6 DEF ShapeInv
<1> QED
  BY <1>10, <1>11
\* The first block is filled with the prologue in it.
LEMMA StartShape ==
    ASSUME CloneInv, IrInv, RetargetBlock
    PROVE  ShapeInv'
<1> DEFINE item == [kind |-> "prologue", of |-> <<1, 0>>, to |-> << >>]
           first == <<item>>
<1>1. /\ phase = "retarget" /\ src' = src /\ ip' = ip
      /\ IF at.block < Len(dst) THEN phase' = "retarget"
         ELSE phase' = "fill" /\ ir' = [ir EXCEPT ![1] = first] /\ at' = [block |-> 1, inst |-> 1]
  BY DEF RetargetBlock
<1>2. /\ ir \in Seq(Seq(Items)) /\ Len(ir) = Len(dst) /\ \A n \in 1..Len(ir) : ir[n] = << >>
      /\ ip = 1 /\ Len(dst) = Len(src) /\ Len(src) \in Nat \ {0}
  BY <1>1, IrIs DEF IrInv, CloneInv
<1> SUFFICES ASSUME phase' = "fill", ir' = [ir EXCEPT ![1] = first], at' = [block |-> 1, inst |-> 1]
             PROVE  FillInv'
  BY <1>1 DEF ShapeInv
<1>3. item \in Items /\ item.kind = "prologue"
  BY DEF Items, ItemKind
<1> HIDE DEF item
<1>4. first \in Seq(Items) /\ Len(first) = 1 /\ first[1] = item
  BY <1>3, OneItem
<1> HIDE DEF first
<1>5. 1 \in 1..Len(ir)
  BY <1>2
<1>6. /\ Len(ir') = Len(ir)
      /\ \A n \in 1..Len(ir) : ir'[n] = IF n = 1 THEN first ELSE ir[n]
  BY <1>2, <1>4, <1>5, ExceptSeq
<1>7. ~Term(first) /\ Shaped(first) /\ Around(first)
  BY <1>3, <1>4 DEF Term, Shaped, Around, IsTerminator
<1>8. ~Closed' /\ at'.block = 1 /\ ip' = 1
  BY <1>1, <1>2 DEF Closed
<1>9. \A n \in 1..Len(ir') : /\ Shaped(ir'[n]) /\ Around(ir'[n])
                             /\ n \in (at'.block + 1)..Len(src') \/ n = ip'
  <2>1. \A n \in 1..Len(ir') : n \in (1 + 1)..Len(src') \/ n = 1
    BY <1>1, <1>2, <1>6
  <2>2. \A n \in 1..Len(ir') : Shaped(ir'[n]) /\ Around(ir'[n])
    BY <1>2, <1>6, <1>7, EmptyIs
  <2> QED
    BY <1>8, <2>1, <2>2
<1>10. \A n \in (at'.block + 1)..Len(src') : ir'[n] = << >>
  <2>1. \A n \in (1 + 1)..Len(src') : n \in 1..Len(ir) /\ n # 1
    BY <1>1, <1>2
  <2> QED
    BY <1>2, <1>6, <1>8, <2>1
<1>11. ~Term(ir'[ip'])
  BY <1>5, <1>6, <1>7, <1>8
<1> QED
  BY <1>8, <1>9, <1>10, <1>11 DEF FillInv, Term, Shaped, Around, OnlyCond, IsTerminator

\* The copy before the return keeps the shape.
LEMMA SaveShape ==
    ASSUME NEW bb \in Seq(Items), Shaped(bb), Around(bb), Term(bb)
    PROVE  LET sb == SavedBlock(bb) IN Shaped(sb) /\ Around(sb) /\ Term(sb) /\ RetSaved(sb)
<1>1. CASE ~Has("ret", bb)
  <2>1. SavedBlock(bb) = bb
    BY <1>1 DEF SavedBlock
  <2>2. \A k \in 1..Len(bb) : bb[k].kind # "ret"
    BY <1>1, LenProperties DEF Has
  <2> HIDE DEF SavedBlock
  <2> QED
    BY <2>1, <2>2 DEF RetSaved
<1>2. CASE Has("ret", bb)
  <2> DEFINE k == First("ret", bb)
             sb == SavedBlock(bb)
  <2>1. k \in 1..Len(bb) /\ bb[k].kind = "ret" /\ Len(bb) \in Nat
    BY <1>2, FirstIs, LenProperties
  <2>2. /\ Len(sb) = Len(bb) + 1
        /\ \A i \in 1..(k - 1) : sb[i] = bb[i]
        /\ sb[k].kind = "save"
        /\ \A i \in (k + 1)..(Len(bb) + 1) : sb[i] = bb[i - 1]
    BY <1>2, SavedBlockIs
  <2> HIDE DEF k, sb
  <2>3. k = Len(bb)
    <3>1. IsTerminator(bb[k])
      BY <2>1 DEF IsTerminator
    <3>2. \A j \in (k + 1)..Len(bb) : bb[k].kind = "condbr"
      BY <2>1, <3>1 DEF Shaped
    <3>3. \A j \in (k + 1)..Len(bb) : FALSE
      BY <2>1, <3>2
    <3> QED
      BY <2>1, <3>3
  <2>4. sb[k + 1] = bb[k] /\ k + 1 = Len(sb)
    <3>1. k + 1 \in (k + 1)..(Len(bb) + 1) /\ (k + 1) - 1 = k
      BY <2>1
    <3> QED
      BY <2>2, <2>3, <3>1
  <2>5. \A i \in 1..Len(sb) : i \in 1..(k - 1) \/ i = k \/ i = k + 1
    BY <2>1, <2>4
  <2>6. \A i \in 1..(k - 1) : i \in 1..Len(bb) /\ ~IsTerminator(bb[i])
    <3> SUFFICES ASSUME NEW i \in 1..(k - 1) PROVE i \in 1..Len(bb) /\ ~IsTerminator(bb[i])
      OBVIOUS
    <3>1. i \in 1..Len(bb) /\ k \in (i + 1)..Len(bb)
      BY <2>1
    <3> QED
      BY <2>1, <3>1 DEF Shaped
  <2>7. \A i \in 1..(k - 1) : ~IsTerminator(sb[i])
    BY <2>2, <2>6
  <2>8. ~IsTerminator(sb[k])
    BY <2>2 DEF IsTerminator
  <2>9. IsTerminator(sb[k + 1])
    BY <2>1, <2>4 DEF IsTerminator
  <2>10. k + 1 \in 1..Len(sb)
    BY <2>1, <2>4
  <2>11. Term(sb)
    BY <2>9, <2>10 DEF Term
  <2>12. Shaped(sb)
    <3> SUFFICES ASSUME NEW i \in 1..Len(sb), IsTerminator(sb[i]), NEW j \in (i + 1)..Len(sb) PROVE FALSE
      BY DEF Shaped
    <3>1. i = k + 1
      BY <2>5, <2>7, <2>8
    <3> QED
      BY <2>1, <2>4, <3>1
  <2>13. RetSaved(sb)
    <3> SUFFICES ASSUME NEW i \in 1..Len(sb), sb[i].kind = "ret" PROVE i > 1 /\ sb[i - 1].kind = "save"
      BY DEF RetSaved
    <3>1. IsTerminator(sb[i])
      BY DEF IsTerminator
    <3>2. i = k + 1
      BY <2>5, <2>7, <2>8, <3>1
    <3> QED
      BY <2>1, <2>2, <3>2
  <2>14. Around(sb)
    <3> SUFFICES ASSUME NEW i \in 1..Len(sb)
                 PROVE  /\ sb[i].kind \in {"xfer", "musttail"} => i > 1 /\ sb[i - 1].kind = "save"
                        /\ sb[i].kind = "musttail" \/ (sb[i].kind = "xfer" /\ ~FunctionsNop) =>
                                i < Len(sb) /\ sb[i + 1].kind = "reload"
      BY DEF Around
    <3>1. CASE i \in 1..(k - 1)
      <4>1. /\ i \in 1..Len(bb) /\ sb[i] = bb[i]
            /\ i > 1 => i - 1 \in 1..(k - 1)
            /\ i + 1 \in 1..(k - 1) \/ i + 1 = k
            /\ i < Len(sb)
        BY <2>1, <2>2, <2>4, <3>1
      <4>2. /\ bb[i].kind \in {"xfer", "musttail"} => i > 1 /\ bb[i - 1].kind = "save"
            /\ bb[i].kind = "musttail" \/ (bb[i].kind = "xfer" /\ ~FunctionsNop) =>
                    bb[i + 1].kind = "reload"
        BY <4>1 DEF Around
      <4>3. i > 1 => sb[i - 1] = bb[i - 1]
        BY <2>2, <4>1
      <4>4. bb[i + 1].kind = "reload" => sb[i + 1] = bb[i + 1]
        BY <2>1, <2>2, <4>1
      <4> QED
        BY <4>1, <4>2, <4>3, <4>4
    <3>2. CASE i = k
      BY <2>2, <3>2
    <3>3. CASE i = k + 1
      BY <2>1, <2>4, <3>3
    <3> QED
      BY <2>5, <3>1, <3>2, <3>3
  <2> QED
    BY <2>11, <2>12, <2>13, <2>14 DEF sb
<1> QED
  BY <1>1, <1>2

\* After the eraser there is one terminator, at the end.
LEMMA EraseShape ==
    ASSUME NEW bb \in Seq(Items), Shaped(bb), Around(bb), Term(bb), RetSaved(bb)
    PROVE  LET eb == ErasedBlock(bb)
           IN  /\ Around(eb) /\ Term(eb) /\ RetSaved(eb)
               /\ \A k \in 1..Len(eb) : IsTerminator(eb[k]) => k = Len(eb)
<1>1. CASE ~Has("condbr", bb)
  <2>1. ErasedBlock(bb) = bb
    BY <1>1 DEF ErasedBlock
  <2>2. /\ Len(bb) \in Nat /\ \A k \in 1..Len(bb) : bb[k].kind # "condbr"
    BY <1>1, LenProperties DEF Has
  <2>3. ASSUME NEW k \in 1..Len(bb), IsTerminator(bb[k]) PROVE k = Len(bb)
    <3>1. \A j \in (k + 1)..Len(bb) : FALSE
      BY <2>2, <2>3 DEF Shaped
    <3> QED
      BY <2>2, <3>1
  <2> HIDE DEF ErasedBlock
  <2> QED
    BY <2>1, <2>3
<1>2. CASE Has("condbr", bb)
  <2> DEFINE k == First("condbr", bb)
             eb == ErasedBlock(bb)
  <2>1. k \in 1..Len(bb) /\ bb[k].kind = "condbr" /\ Len(bb) \in Nat
    BY <1>2, FirstIs, LenProperties
  <2>2. Len(eb) = k /\ \A i \in 1..k : eb[i] = bb[i]
    BY <1>2, ErasedBlockIs
  <2> HIDE DEF k, eb
  <2>3. \A i \in 1..k : i \in 1..Len(bb) /\ (i > 1 => i - 1 \in 1..k) /\ (i < k => i + 1 \in 1..k)
    BY <2>1
  <2>4. Term(eb)
    BY <2>1, <2>2 DEF Term, IsTerminator
  <2>5. RetSaved(eb)
    BY <2>2, <2>3 DEF RetSaved
  <2>6. Around(eb)
    <3> SUFFICES ASSUME NEW i \in 1..k
                 PROVE  /\ eb[i].kind \in {"xfer", "musttail"} => i > 1 /\ eb[i - 1].kind = "save"
                        /\ eb[i].kind = "musttail" \/ (eb[i].kind = "xfer" /\ ~FunctionsNop) =>
                                i < k /\ eb[i + 1].kind = "reload"
      BY <2>2 DEF Around
    <3>1. CASE i = k
      BY <2>1, <2>2, <3>1
    <3>2. CASE i < k
      BY <2>2, <2>3, <3>2 DEF Around
    <3> QED
      BY <2>1, <3>1, <3>2
  <2>7. ASSUME NEW i \in 1..Len(eb), IsTerminator(eb[i]) PROVE i = Len(eb)
    <3> SUFFICES ASSUME i # k PROVE FALSE
      BY <2>2
    <3>1. i \in 1..Len(bb) /\ k \in (i + 1)..Len(bb) /\ IsTerminator(bb[i])
      BY <2>1, <2>2, <2>7
    <3> QED
      BY <2>1, <3>1 DEF Shaped
  <2> QED
    BY <2>4, <2>5, <2>6, <2>7 DEF eb
<1> QED
  BY <1>1, <1>2

\* Both passes, over all basic blocks.
LEMMA PassShape ==
    ASSUME CloneInv, IrInv, ShapeInv, SaveRegistersBeforeReturn \/ EraseRedundantBranches
    PROVE  ShapeInv'
<1>1. ir \in Seq(Seq(Items)) /\ Len(ir) \in Nat /\ \A n \in 1..Len(ir) : ir[n] \in Seq(Items)
  BY IrIs DEF IrInv
<1>2. CASE SaveRegistersBeforeReturn
  <2>1. /\ phase = "save" /\ phase' = "erase" /\ Len(ir') = Len(ir)
        /\ \A n \in 1..Len(ir) : ir'[n] = SavedBlock(ir[n])
    BY <1>1, <1>2, PassesAre DEF SaveRegistersBeforeReturn
  <2>2. \A n \in 1..Len(ir) : Shaped(ir[n]) /\ Around(ir[n]) /\ Term(ir[n])
    BY <2>1 DEF ShapeInv
  <2>3. \A n \in 1..Len(ir) : Shaped(ir'[n]) /\ Around(ir'[n]) /\ Term(ir'[n]) /\ RetSaved(ir'[n])
    BY <1>1, <2>1, <2>2, SaveShape
  <2> QED
    BY <2>1, <2>3 DEF ShapeInv, Term, Shaped, Around, RetSaved, IsTerminator
<1>3. CASE EraseRedundantBranches
  <2>1. /\ phase = "erase" /\ phase' = "done" /\ Len(ir') = Len(ir)
        /\ \A n \in 1..Len(ir) : ir'[n] = ErasedBlock(ir[n])
    BY <1>1, <1>3, PassesAre DEF EraseRedundantBranches
  <2>2. \A n \in 1..Len(ir) : Shaped(ir[n]) /\ Around(ir[n]) /\ Term(ir[n]) /\ RetSaved(ir[n])
    BY <2>1 DEF ShapeInv
  <2>3. \A n \in 1..Len(ir) : /\ Around(ir'[n]) /\ Term(ir'[n]) /\ RetSaved(ir'[n])
                              /\ \A k \in 1..Len(ir'[n]) : IsTerminator(ir'[n][k]) => k = Len(ir'[n])
    BY <1>1, <2>1, <2>2, EraseShape
  <2> QED
    BY <2>1, <2>3 DEF ShapeInv, Term, Around, RetSaved, IsTerminator
<1> QED
  BY <1>2, <1>3

\* One case for each step.
LEMMA ShapeInvNext ==
    ASSUME CloneInv, IrInv, WellFormed(src), phase # "rejected", ShapeInv, [Next]_vars
    PROVE  ShapeInv'
<1>1. phase' # "rejected"
  BY WellFormedStays
<1>2. CASE UNCHANGED vars
  <2>1. src' = src /\ ir' = ir /\ phase' = phase /\ at' = at /\ ip' = ip
    BY <1>2 DEF vars
  <2>2. (\A k : OpAt(k)' = OpAt(k)) /\ Size(at.block)' = Size(at.block)
    BY <2>1, SameOps
  <2>3. Closed' <=> Closed
    BY <2>1, <2>2 DEF Closed
  <2>4. FillInv => FillInv'
    BY <2>1, <2>2, <2>3 DEF FillInv, Term, Shaped, Around, OnlyCond, IsTerminator
  <2> QED
    BY <2>1, <2>4 DEF ShapeInv, Term, Shaped, Around, RetSaved, IsTerminator
<1>3. CASE Next
  <2>1. CASE CloneBlock
    BY <2>1 DEF CloneBlock, ShapeInv
  <2>2. CASE RetargetBlock
    BY <2>2, StartShape
  <2>3. CASE Grows
    <3>1. phase = "fill" /\ phase' = "fill"
      BY <2>3 DEF Grows, Filling
    <3> QED
      BY <2>3, <3>1, GrowsFill DEF ShapeInv
  <2>4. CASE GenerateBranch
    <3>1. phase = "fill" /\ phase' = "fill"
      BY <1>1, <2>4 DEF GenerateBranch, Filling, Reject
    <3> QED
      BY <1>1, <2>4, <3>1, BranchFill DEF ShapeInv
  <2>5. CASE FinishBlock
    <3>1. phase = "fill"
      BY <2>5 DEF FinishBlock
    <3> QED
      BY <1>1, <2>5, <3>1, FinishShape DEF ShapeInv
  <2>6. CASE SaveRegistersBeforeReturn \/ EraseRedundantBranches
    BY <2>6, PassShape
  <2>7. ~Reject
    BY <1>1 DEF Reject
  <2> QED
    BY <1>3, <2>1, <2>2, <2>3, <2>4, <2>5, <2>6, <2>7, Steps
<1> QED
  BY <1>2, <1>3

\* For well-formed functions.
LEMMA ShapeHolds ==
    ASSUME \A mf \in Functions : WellFormed(mf)
    PROVE  Spec => [](GeneralInv /\ ShapeInv)
<1>1. Init => ShapeInv /\ NeverRejects
  BY DEF Init, ShapeInv, NeverRejects
<1>2. GeneralInv /\ ShapeInv /\ NeverRejects /\ [Next]_vars => ShapeInv' /\ NeverRejects'
  BY ShapeInvNext, WellFormedStays DEF GeneralInv, CloneInv, NeverRejects
<1> QED
  BY <1>1, <1>2, GeneralInvHolds, PTL DEF Spec

\* The two insertion points and the eraser leave every basic block of a well-formed
\* function with one terminator, its last instruction (lifter.cpp:642-782, 1225-1256,
\* redundant-branch-eraser.cpp:28-37).
THEOREM LiftBlocksTerminated ==
    ASSUME \A mf \in Functions : WellFormed(mf)
    PROVE  Spec => []BlocksTerminated
<1>1. GeneralInv /\ ShapeInv => BlocksTerminated
  <2> SUFFICES ASSUME CloneInv, IrInv, ShapeInv, phase = "done", NEW n \in DOMAIN ir
               PROVE  /\ ir[n] # << >>
                      /\ \A k \in DOMAIN ir[n] : IsTerminator(ir[n][k]) <=> k = Len(ir[n])
    BY DEF GeneralInv, BlocksTerminated
  <2>1. n \in 1..Len(ir) /\ ir[n] \in Seq(Items) /\ DOMAIN ir[n] = 1..Len(ir[n])
    BY IrIs, LenProperties DEF IrInv
  <2>2. Term(ir[n]) /\ \A k \in 1..Len(ir[n]) : IsTerminator(ir[n][k]) => k = Len(ir[n])
    BY <2>1 DEF ShapeInv
  <2>3. PICK k \in 1..Len(ir[n]) : IsTerminator(ir[n][k])
    BY <2>2 DEF Term
  <2>4. k = Len(ir[n])
    BY <2>2, <2>3
  <2>5. ir[n] # << >>
    <3>1. Len(ir[n]) # 0
      BY <2>3
    <3> QED
      BY <3>1, EmptySeq
  <2> QED
    BY <2>1, <2>2, <2>3, <2>4, <2>5
<1> QED
  BY <1>1, ShapeHolds, PTL

\* No code comes between a transfer or a return of a well-formed function and the copies
\* of its registers (lifter.cpp:295-306, 722-751, 855-874).
THEOREM LiftRegistersAroundTransfers ==
    ASSUME \A mf \in Functions : WellFormed(mf)
    PROVE  Spec => []RegistersAroundTransfers
<1>1. GeneralInv /\ ShapeInv => RegistersAroundTransfers
  <2> SUFFICES ASSUME CloneInv, IrInv, ShapeInv, phase = "done", NEW n \in DOMAIN ir, NEW k \in DOMAIN ir[n]
               PROVE  /\ ir[n][k].kind \in {"xfer", "musttail", "ret"} =>
                            k > 1 /\ ir[n][k - 1].kind = "save"
                      /\ ir[n][k].kind = "musttail" \/ (ir[n][k].kind = "xfer" /\ ~FunctionsNop) =>
                            k < Len(ir[n]) /\ ir[n][k + 1].kind = "reload"
    BY DEF GeneralInv, RegistersAroundTransfers
  <2>1. n \in 1..Len(ir) /\ ir[n] \in Seq(Items) /\ DOMAIN ir[n] = 1..Len(ir[n])
    BY IrIs, LenProperties DEF IrInv
  <2>2. Around(ir[n]) /\ RetSaved(ir[n])
    BY <2>1 DEF ShapeInv
  <2> QED
    BY <2>1, <2>2 DEF Around, RetSaved
<1> QED
  BY <1>1, ShapeHolds, PTL
-----------------------------------------------------------------------------
(* Operands are loaded before they are used *)

LoadInv == phase \in {"fill", "save", "erase", "done"} => \A n \in 1..Len(ir) : Loaded(ir[n])

\* Where operands are loaded, the builder is in the basic block they are loaded in.
LEMMA AddedLoaded ==
    ASSUME CloneInv, IrInv, phase = "fill", \A n \in 1..Len(ir) : Loaded(ir[n]),
           NEW loads, NEW code, Adds(loads, code),
           \A k \in 1..Len(loads) : loads[k].kind = "load" /\ loads[k].of = <<at.block, at.inst>>,
           \A k \in 1..Len(code) : code[k].kind = "sem" =>
                code[k].of = <<at.block, at.inst>> /\ Len(loads) > 0 /\ ip = at.block
    PROVE  \A n \in 1..Len(ir') : Loaded(ir'[n])
<1>1. /\ loads \in Seq(Items) /\ code \in Seq(Items) /\ Len(ir') \in {Len(ir), Len(ir) + 1}
      /\ \A n \in 1..Len(ir) :
            ir'[n] = (ir[n] \o (IF n = at.block THEN loads ELSE << >>)) \o (IF n = ip THEN code ELSE << >>)
      /\ \A n \in 1..Len(ir') : n > Len(ir) => ir'[n] = << >>
  BY DEF Adds
<1>2. /\ \A n \in 1..Len(ir) : ir[n] \in Seq(Items)
      /\ Len(ir) \in Nat /\ << >> \in Seq(Items) /\ Len(<< >>) = 0 /\ Len(loads) \in Nat
  BY <1>1, IrIs, EmptyIs, LenProperties
<1>3. ASSUME NEW n \in 1..Len(ir) PROVE Loaded(ir'[n])
  <2> DEFINE l == IF n = at.block THEN loads ELSE << >>
             c == IF n = ip THEN code ELSE << >>
             u == ir[n]
             v == u \o l
  <2>1. /\ l \in Seq(Items) /\ \A k \in 1..Len(l) : l[k].kind = "load"
        /\ n = at.block => l = loads
    BY <1>1, <1>2
  <2>2. /\ c \in Seq(Items)
        /\ \A k \in 1..Len(c) : c[k].kind = "sem" =>
                n = at.block /\ c[k].of = <<at.block, at.inst>> /\ Len(loads) > 0
    BY <1>1, <1>2
  <2>3. u \in Seq(Items) /\ Loaded(u) /\ ir'[n] = v \o c
    BY <1>1, <1>2
  <2> HIDE DEF l, c, u
  <2>4. Loaded(v) /\ v \in Seq(Items)
    BY <2>1, <2>3, JoinsLoaded, Joins
  <2>5. Len(v) = Len(u) + Len(l) /\ \A i \in 1..Len(l) : v[Len(u) + i] = l[i] /\ Len(u) + i \in 1..Len(v)
    BY <2>1, <2>3, Joins
  <2> HIDE DEF v
  <2>6. ASSUME NEW k \in 1..Len(c), c[k].kind = "sem"
        PROVE  \E j \in 1..Len(v) : v[j].kind = "load" /\ v[j].of = c[k].of
    <3>1. l = loads /\ 1 \in 1..Len(l) /\ c[k].of = <<at.block, at.inst>>
      BY <1>2, <2>1, <2>2, <2>6
    <3>2. l[1].kind = "load" /\ l[1].of = c[k].of
      BY <3>1
    <3> QED
      BY <2>5, <3>1, <3>2
  <2> QED
    BY <2>2, <2>3, <2>4, <2>6, JoinsLoaded
<1>4. \A n \in 1..Len(ir') : n \in 1..Len(ir) \/ n > Len(ir)
  BY <1>1, <1>2
<1> QED
  BY <1>1, <1>3, <1>4, EmptyIs

\* A conditional branch before an instruction that loads operands would have
\* moved the builder away.
LEMMA LoadsFirstIs ==
    ASSUME CloneInv, WellFormed(src), LoadsFirst(src), FillInv, Filling,
           Inst.op \notin {"call", "tail", "jmp", "ret"}
    PROVE  ip = at.block
<1>1. /\ phase = "fill" /\ at.inst \in 1..Size(at.block) /\ at.block \in 1..Len(src)
      /\ Inst.op = OpAt(at.inst)
  BY HereIs
<1>2. DOMAIN src = 1..Len(src) /\ DOMAIN Instrs(at.block) = 1..Size(at.block)
  BY <1>1, FunctionIs DEF CloneInv
<1>3. (\E j \in 1..(at.inst - 1) : OpAt(j) = "cbr") => OpAt(at.inst) \in {"call", "tail", "jmp", "ret"}
  BY <1>1, <1>2 DEF LoadsFirst, OpAt, Instrs
<1> QED
  BY <1>1, <1>3 DEF FillInv

\* Neither pass parts a load from its use.
LEMMA PassLoaded ==
    ASSUME NEW bb \in Seq(Items), Loaded(bb)
    PROVE  Loaded(SavedBlock(bb)) /\ Loaded(ErasedBlock(bb))
<1>1. Loaded(SavedBlock(bb))
  <2>1. CASE ~Has("ret", bb)
    BY <2>1 DEF SavedBlock
  <2>2. CASE Has("ret", bb)
    <3> DEFINE k == First("ret", bb)
               sb == SavedBlock(bb)
    <3>1. k \in 1..Len(bb) /\ Len(bb) \in Nat
      BY <2>2, FirstIs, LenProperties
    <3>2. /\ Len(sb) = Len(bb) + 1
          /\ \A i \in 1..(k - 1) : sb[i] = bb[i]
          /\ sb[k].kind = "save"
          /\ \A i \in (k + 1)..(Len(bb) + 1) : sb[i] = bb[i - 1]
      BY <2>2, SavedBlockIs
    <3> HIDE DEF k, sb
    <3> SUFFICES ASSUME NEW i \in 1..Len(sb), sb[i].kind = "sem"
                 PROVE  \E j \in 1..(i - 1) : sb[j].kind = "load" /\ sb[j].of = sb[i].of
      BY DEF Loaded, sb
    <3>3. CASE i < k
      <4>1. i \in 1..(k - 1) /\ i \in 1..Len(bb)
        BY <3>1, <3>3
      <4>2. PICK j \in 1..(i - 1) : bb[j].kind = "load" /\ bb[j].of = bb[i].of
        BY <3>2, <4>1 DEF Loaded
      <4>3. j \in 1..(k - 1)
        BY <3>1, <4>1
      <4> QED
        BY <3>2, <4>1, <4>2, <4>3
    <3>4. CASE i > k
      <4> DEFINE m == i - 1
      <4>1. i \in (k + 1)..(Len(bb) + 1) /\ m \in 1..Len(bb) /\ m \in Nat
        BY <3>1, <3>2, <3>4
      <4>2. sb[i] = bb[m]
        BY <3>2, <4>1
      <4> HIDE DEF m
      <4>3. PICK j \in 1..(m - 1) : bb[j].kind = "load" /\ bb[j].of = bb[m].of
        BY <4>1, <4>2 DEF Loaded
      <4>4. CASE j < k
        <5>1. j \in 1..(k - 1) /\ j \in 1..(i - 1)
          BY <3>1, <4>1, <4>4 DEF m
        <5> QED
          BY <3>2, <4>2, <4>3, <5>1
      <4>5. CASE j >= k
        <5>1. j + 1 \in (k + 1)..(Len(bb) + 1) /\ j + 1 \in 1..(i - 1) /\ (j + 1) - 1 = j
          BY <3>1, <4>1, <4>5 DEF m
        <5>2. sb[j + 1] = bb[j]
          BY <3>2, <5>1
        <5> QED
          BY <4>2, <4>3, <5>1, <5>2
      <4> QED
        BY <3>1, <4>1, <4>4, <4>5
    <3> QED
      BY <3>1, <3>2, <3>3, <3>4
  <2> QED
    BY <2>1, <2>2
<1>2. Loaded(ErasedBlock(bb))
  <2>1. CASE ~Has("condbr", bb)
    BY <2>1 DEF ErasedBlock
  <2>2. CASE Has("condbr", bb)
    <3> DEFINE k == First("condbr", bb)
               eb == ErasedBlock(bb)
    <3>1. k \in 1..Len(bb) /\ Len(bb) \in Nat
      BY <2>2, FirstIs, LenProperties
    <3>2. Len(eb) = k /\ \A i \in 1..k : eb[i] = bb[i]
      BY <2>2, ErasedBlockIs
    <3> HIDE DEF k, eb
    <3> SUFFICES ASSUME NEW i \in 1..k, eb[i].kind = "sem"
                 PROVE  \E j \in 1..(i - 1) : eb[j].kind = "load" /\ eb[j].of = eb[i].of
      BY <3>2 DEF Loaded, eb
    <3>3. i \in 1..Len(bb) /\ \A j \in 1..(i - 1) : j \in 1..k
      BY <3>1
    <3> QED
      BY <3>2, <3>3 DEF Loaded
  <2> QED
    BY <2>1, <2>2
<1> QED
  BY <1>1, <1>2

\* One case for each step.
LEMMA LoadInvNext ==
    ASSUME CloneInv, IrInv, WellFormed(src), LoadsFirst(src), phase # "rejected",
           ShapeInv, LoadInv, [Next]_vars
    PROVE  LoadInv'
<1>1. phase' # "rejected"
  BY WellFormedStays
<1>2. CASE UNCHANGED vars
  BY <1>2 DEF LoadInv, vars, Loaded
<1>3. ASSUME \A n \in 1..Len(ir') : Loaded(ir'[n]) PROVE LoadInv'
  BY <1>3 DEF LoadInv, Loaded
<1>4. ASSUME phase = "fill" PROVE FillInv /\ \A n \in 1..Len(ir) : Loaded(ir[n])
  BY <1>4 DEF ShapeInv, LoadInv
<1>5. CASE Next
  <2>1. CASE CloneBlock
    BY <2>1 DEF CloneBlock, LoadInv
  <2>2. CASE RetargetBlock
    <3> DEFINE item == [kind |-> "prologue", of |-> <<1, 0>>, to |-> << >>]
               first == <<item>>
    <3>1. /\ phase = "retarget"
          /\ IF at.block < Len(dst) THEN phase' = "retarget"
             ELSE phase' = "fill" /\ ir' = [ir EXCEPT ![1] = first]
      BY <2>2 DEF RetargetBlock
    <3>2. /\ ir \in Seq(Seq(Items)) /\ \A n \in 1..Len(ir) : ir[n] = << >>
          /\ Len(dst) = Len(src) /\ Len(src) \in Nat \ {0} /\ Len(ir) = Len(dst)
      BY <3>1, IrIs DEF IrInv, CloneInv
    <3>3. CASE phase' = "retarget"
      BY <3>3 DEF LoadInv
    <3>4. CASE ir' = [ir EXCEPT ![1] = first]
      <4>1. item \in Items /\ item.kind = "prologue"
        BY DEF Items, ItemKind
      <4> HIDE DEF item
      <4>2. first \in Seq(Items) /\ Len(first) = 1 /\ first[1] = item
        BY <4>1, OneItem
      <4> HIDE DEF first
      <4>3. 1 \in 1..Len(ir)
        BY <3>2
      <4>4. Len(ir') = Len(ir) /\ \A n \in 1..Len(ir) : ir'[n] = IF n = 1 THEN first ELSE ir[n]
        BY <3>2, <3>4, <4>2, <4>3, ExceptSeq
      <4>5. Loaded(first)
        BY <4>1, <4>2 DEF Loaded
      <4>6. \A n \in 1..Len(ir') : Loaded(ir'[n])
        BY <3>2, <4>4, <4>5, EmptyIs
      <4> QED
        BY <1>3, <4>6
    <3> QED
      BY <3>1, <3>3, <3>4
  <2>3. CASE Grows
    <3>1. phase = "fill" /\ Filling
      BY <2>3 DEF Grows, Filling
    <3>2. PICK loads, code : Grown(loads, code)
      BY <2>3 DEF Grows
    <3>3. /\ \A k \in 1..Len(loads) : loads[k].kind = "load" /\ loads[k].of = <<at.block, at.inst>>
          /\ \A k \in 1..Len(code) : code[k].of = <<at.block, at.inst>>
          /\ (\E k \in 1..Len(code) : code[k].kind = "sem") => Len(loads) > 0
          /\ Len(loads) > 0 => Inst.op \in {"plain", "cbr", "jmp", "jalr", "jr", "brind"}
          /\ Len(loads) > 0 /\ Inst.op \in {"cbr", "jmp"} => Inst.ref.block = 0
      BY <3>2 DEF Grown
    <3>4. Inst.op \in {"cbr", "jmp"} => Inst.ref.block # 0
      BY <3>1, HereIs DEF is_branch, HasMBB
    <3>5. Len(loads) > 0 => ip = at.block
      BY <1>4, <3>1, <3>3, <3>4, LoadsFirstIs
    <3>6. \A n \in 1..Len(ir') : Loaded(ir'[n])
      BY <1>4, <3>1, <3>2, <3>3, <3>5, GrownAdds, AddedLoaded
    <3> QED
      BY <1>3, <3>6
  <2>4. CASE GenerateBranch
    <3>1. phase = "fill" /\ Filling /\ Inst.op = "cbr"
      BY <2>4 DEF GenerateBranch, Filling, isConditionalBranch
    <3>2. PICK loads, code : Branches(loads, code)
      BY <1>1, <2>4, BranchAdds
    <3>3. /\ Adds(loads, code)
          /\ Len(loads) = 1 /\ loads[1].kind = "load" /\ loads[1].of = <<at.block, at.inst>>
          /\ Len(code) = 2 /\ code[1].of = <<at.block, at.inst>> /\ code[2].of = <<at.block, at.inst>>
      BY <3>2 DEF Branches
    <3>4. ip = at.block
      BY <1>4, <3>1, LoadsFirstIs
    <3>5. /\ \A k \in 1..Len(loads) : loads[k].kind = "load" /\ loads[k].of = <<at.block, at.inst>>
          /\ \A k \in 1..Len(code) : code[k].of = <<at.block, at.inst>>
      <4>1. \A k \in 1..2 : k = 1 \/ k = 2
        OBVIOUS
      <4> QED
        BY <3>3, <4>1
    <3>6. (\A n \in 1..Len(ir) : Loaded(ir[n])) /\ Len(loads) > 0
      BY <1>4, <3>1, <3>3
    <3>7. \A n \in 1..Len(ir') : Loaded(ir'[n])
      <4>1. \A k \in 1..Len(code) : code[k].kind = "sem" =>
                code[k].of = <<at.block, at.inst>> /\ Len(loads) > 0 /\ ip = at.block
        BY <3>4, <3>5, <3>6
      <4>2. Adds(loads, code)
        BY <3>3
      <4> QED
        BY <3>1, <3>5, <3>6, <4>1, <4>2, AddedLoaded
    <3> QED
      BY <1>3, <3>7
  <2>5. CASE FinishBlock
    <3>1. phase = "fill"
      BY <2>5 DEF FinishBlock
    <3>2. PICK code : Finishes(code)
      BY <1>1, <2>5, FinishAdds
    <3> DEFINE none == << >>
    <3>3. Adds(none, code) /\ (Len(code) = 0 \/ (Len(code) = 1 /\ code[1].kind \in {"ret", "br"}))
      BY <3>2 DEF Finishes
    <3>4. \A k \in 1..Len(code) : code[k].kind # "sem"
      BY <3>3
    <3>5. Len(none) = 0
      BY EmptyIs
    <3>6. \A n \in 1..Len(ir) : Loaded(ir[n])
      BY <1>4, <3>1
    <3> HIDE DEF none
    <3>7. \A k \in 1..Len(none) : none[k].kind = "load" /\ none[k].of = <<at.block, at.inst>>
      BY <3>5
    <3>8. \A n \in 1..Len(ir') : Loaded(ir'[n])
      BY <3>1, <3>3, <3>4, <3>6, <3>7, AddedLoaded
    <3> QED
      BY <1>3, <3>8
  <2>6. CASE SaveRegistersBeforeReturn \/ EraseRedundantBranches
    <3>1. phase \in {"save", "erase"}
      BY <2>6 DEF SaveRegistersBeforeReturn, EraseRedundantBranches
    <3>2. ir \in Seq(Seq(Items)) /\ Len(ir) \in Nat /\ \A n \in 1..Len(ir) : ir[n] \in Seq(Items)
      BY IrIs DEF IrInv
    <3>3. Len(ir') = Len(ir) /\ \A n \in 1..Len(ir) : ir'[n] \in {SavedBlock(ir[n]), ErasedBlock(ir[n])}
      BY <2>6, <3>2, PassesAre
    <3>4. \A n \in 1..Len(ir) : Loaded(ir[n])
      BY <3>1 DEF LoadInv
    <3>5. \A n \in 1..Len(ir') : Loaded(ir'[n])
      BY <3>2, <3>3, <3>4, PassLoaded
    <3> QED
      BY <1>3, <3>5
  <2>7. ~Reject
    BY <1>1 DEF Reject
  <2> QED
    BY <1>5, <2>1, <2>2, <2>3, <2>4, <2>5, <2>6, <2>7, Steps
<1> QED
  BY <1>2, <1>5

\* When nothing that loads operands comes after a conditional branch of its block, the
\* two insertion points are one wherever operands are loaded, and the eraser takes
\* no load that is needed (lifter.cpp:688-712, 753-782,
\* redundant-branch-eraser.cpp:28-37).
THEOREM LiftOperandsLoaded ==
    ASSUME \A mf \in Functions : WellFormed(mf) /\ LoadsFirst(mf)
    PROVE  Spec => []OperandsLoaded
<1>1. Init => LoadInv
  BY DEF Init, LoadInv
<1>2. /\ Spec => [](GeneralInv /\ ShapeInv)
      /\ Spec => []NeverRejects
  <2>1. \A mf \in Functions : WellFormed(mf)
    OBVIOUS
  <2> QED
    BY <2>1, ShapeHolds, LiftNeverRejects
<1>3. GeneralInv /\ ShapeInv /\ NeverRejects /\ LoadInv /\ [Next]_vars => LoadInv'
  BY LoadInvNext DEF GeneralInv, CloneInv, NeverRejects
<1>4. GeneralInv /\ LoadInv => OperandsLoaded
  <2> SUFFICES ASSUME CloneInv, IrInv, LoadInv, phase = "done", NEW n \in DOMAIN ir, NEW k \in DOMAIN ir[n],
                      ir[n][k].kind = "sem"
               PROVE  \E j \in 1..(k - 1) : ir[n][j].kind = "load" /\ ir[n][j].of = ir[n][k].of
    BY DEF GeneralInv, OperandsLoaded
  <2>1. n \in 1..Len(ir) /\ DOMAIN ir[n] = 1..Len(ir[n])
    BY IrIs, LenProperties DEF IrInv
  <2> QED
    BY <2>1 DEF LoadInv, Loaded
<1> QED
  BY <1>1, <1>2, <1>3, <1>4, PTL DEF Spec

-----------------------------------------------------------------------------
(* Where the code of an instruction ends, and what follows it *)

O(n, k) == Instrs(n)[k].op
Ref(n, k) == Instrs(n)[k].ref

\* The jump that is lifted with the conditional branch before it.
Swallowed(n, k) == k > 1 /\ O(n, k) = "jmp" /\ O(n, k - 1) = "cbr"

\* Lifted before the instruction that is next.
Before(p) == p[1] < at.block \/ (p[1] = at.block /\ p[2] < at.inst)

\* What is in a basic block belongs to instructions that have been lifted.
Ordered == phase = "fill" =>
    \A b \in 1..Len(ir) : \A i \in 1..Len(ir[b]) : Before(ir[b][i].of)

CodeOf(x, n, k) == x.of = <<n, k>> /\ x.kind # "load"

\* The last item of the code of instruction k of block n, which is all in one
\* basic block.
Final(b, i, n, k) ==
    /\ b \in 1..Len(ir) /\ i \in 1..Len(ir[b]) /\ CodeOf(ir[b][i], n, k)
    /\ \A c \in 1..Len(ir) : \A j \in 1..Len(ir[c]) :
            CodeOf(ir[c][j], n, k) => c = b /\ j <= i

\* The code of instruction k of block n will come next in basic block b.
Awaits(b, n, k) == phase = "fill" /\ b = ip /\ at.block = n /\ at.inst = k /\ ~Closed

\* A basic block that was added for instruction k of block n.
Opens(f, n, k) ==
    /\ f \in (Len(src) + 1)..Len(ir)
    /\ \/ Len(ir[f]) > 0 /\ ir[f][1].of = <<n, k>>
       \/ Len(ir[f]) = 0 /\ Awaits(f, n, k)

\* The targets of a terminator are those of the instruction.
Leaves(to, n, k) ==
    \/ O(n, k) = "jmp" /\ to = <<Ref(n, k)>>
    \/ O(n, k) = "ret" /\ to = << >>
    \/ O(n, k) = "cbr" /\ \E f : to = <<Ref(n, k), f>> /\
          \/ k = Size(n) /\ n < Len(src) /\ f = n + 1
          \/ k < Size(n) /\ O(n, k + 1) = "jmp" /\ f = Ref(n, k + 1)
          \/ k < Size(n) /\ O(n, k + 1) # "jmp" /\ Opens(f, n, k + 1)

\* The item after the code of an instruction that is not a terminator: code of the next
\* instruction, or what closes the block.
Continues(y, n, k) ==
    /\ y.of = <<n, k + 1>>
    /\ k = Size(n) =>
        IF O(n, k) \in {"plain", "brind"}
        THEN n < Len(src) /\ y.kind = "br" /\ y.to = <<n + 1>>
        ELSE y.to = << >>

\* From the last item of its code the IR goes where the instruction goes.
Goes(b, i, n, k) ==
    \/ IsTerminator(ir[b][i]) /\ Leaves(ir[b][i].to, n, k)
    \/ /\ ~IsTerminator(ir[b][i]) /\ O(n, k) \notin {"jmp", "ret", "cbr"}
       /\ \/ i < Len(ir[b]) /\ Continues(ir[b][i + 1], n, k)
          \/ i = Len(ir[b]) /\ Awaits(b, n, k + 1)

Flows(n, k) == \E b, i : Final(b, i, n, k) /\ Goes(b, i, n, k)

FlowInv ==
    phase \in {"fill", "save", "erase", "done"} =>
        \A n \in 1..Len(src) : \A k \in 1..Size(n) :
            (phase = "fill" => Before(<<n, k>>)) /\ ~Swallowed(n, k) => Flows(n, k)

-----------------------------------------------------------------------------
(* Filling *)

\* What is appended belongs to the instruction that is lifted.
AppendsHere(loads, code) ==
    /\ Adds(loads, code)
    /\ \A k \in 1..Len(loads) : loads[k].kind = "load" /\ loads[k].of = <<at.block, at.inst>>
    /\ \A k \in 1..Len(code) : code[k].kind # "load" /\ code[k].of = <<at.block, at.inst>>

\* What was there stays in its place, what is new belongs to that instruction.
LEMMA AppendedItems ==
    ASSUME CloneInv, IrInv, phase = "fill", NEW loads, NEW code, AppendsHere(loads, code)
    PROVE  /\ Len(ir) \in Nat /\ Len(ir') \in Nat /\ Len(ir) <= Len(ir')
           /\ at.block \in 1..Len(ir) /\ ip \in 1..Len(ir)
           /\ \A b \in 1..Len(ir) :
                /\ b \in 1..Len(ir')
                /\ Len(ir[b]) \in Nat /\ Len(ir'[b]) \in Nat /\ Len(ir[b]) <= Len(ir'[b])
                /\ \A i \in 1..Len(ir[b]) : i \in 1..Len(ir'[b]) /\ ir'[b][i] = ir[b][i]
           /\ \A c \in 1..Len(ir') : \A j \in 1..Len(ir'[c]) :
                \/ c \in 1..Len(ir) /\ j \in 1..Len(ir[c]) /\ ir'[c][j] = ir[c][j]
                \/ ir'[c][j].of = <<at.block, at.inst>> /\ (c = ip \/ ir'[c][j].kind = "load")
           /\ Len(code) > 0 => /\ Len(ir[ip]) < Len(ir'[ip])
                               /\ ir'[ip][Len(ir'[ip])] = code[Len(code)]
           /\ Len(loads) = 0 /\ Len(code) > 0 => ir'[ip][Len(ir[ip]) + 1] = code[1]
<1>1. /\ loads \in Seq(Items) /\ code \in Seq(Items)
      /\ ir' \in Seq(Seq(Items)) /\ Len(ir') \in {Len(ir), Len(ir) + 1}
      /\ \A n \in 1..Len(ir) :
            ir'[n] = (ir[n] \o (IF n = at.block THEN loads ELSE << >>)) \o (IF n = ip THEN code ELSE << >>)
      /\ \A n \in 1..Len(ir') : n > Len(ir) => ir'[n] = << >>
  BY DEF AppendsHere, Adds
<1>2. /\ Len(ir) \in Nat /\ \A n \in 1..Len(ir) : ir[n] \in Seq(Items)
      /\ at.block \in 1..Len(ir) /\ ip \in 1..Len(ir)
  BY IrIs
<1>3. /\ \A k \in 1..Len(loads) : loads[k].kind = "load" /\ loads[k].of = <<at.block, at.inst>>
      /\ \A k \in 1..Len(code) : code[k].of = <<at.block, at.inst>>
  BY DEF AppendsHere
<1>4. << >> \in Seq(Items) /\ Len(<< >>) = 0
  BY EmptySeq
<1>5. /\ Len(ir') \in Nat /\ Len(ir) <= Len(ir')
      /\ \A b \in 1..Len(ir) : b \in 1..Len(ir')
      /\ \A c \in 1..Len(ir') : c \in 1..Len(ir) \/ c > Len(ir)
  BY <1>1, <1>2
<1>6. ASSUME NEW b \in 1..Len(ir)
      PROVE  /\ Len(ir[b]) \in Nat /\ Len(ir'[b]) \in Nat /\ Len(ir[b]) <= Len(ir'[b])
             /\ \A i \in 1..Len(ir[b]) : i \in 1..Len(ir'[b]) /\ ir'[b][i] = ir[b][i]
             /\ \A j \in 1..Len(ir'[b]) :
                    \/ j \in 1..Len(ir[b]) /\ ir'[b][j] = ir[b][j]
                    \/ ir'[b][j].of = <<at.block, at.inst>> /\ (b = ip \/ ir'[b][j].kind = "load")
             /\ b = ip /\ Len(code) > 0 => Len(ir[b]) < Len(ir'[b]) /\ ir'[b][Len(ir'[b])] = code[Len(code)]
             /\ b = ip /\ Len(loads) = 0 /\ Len(code) > 0 => ir'[b][Len(ir[b]) + 1] = code[1]
  <2> DEFINE l == IF b = at.block THEN loads ELSE << >>
             c == IF b = ip THEN code ELSE << >>
             u == ir[b]
             v == u \o l
             w == v \o c
  <2>1. /\ l \in Seq(Items) /\ \A k \in 1..Len(l) : l[k].kind = "load" /\ l[k].of = <<at.block, at.inst>>
        /\ Len(loads) = 0 => Len(l) = 0
    BY <1>1, <1>3, <1>4
  <2>2. /\ c \in Seq(Items) /\ \A k \in 1..Len(c) : c[k].of = <<at.block, at.inst>> /\ b = ip
        /\ b = ip => c = code
    BY <1>1, <1>3, <1>4
  <2>3. u \in Seq(Items) /\ u = ir[b] /\ ir'[b] = w
    BY <1>1, <1>2
  <2> HIDE DEF l, c, u
  <2>4. /\ v \in Seq(Items) /\ Len(u) \in Nat /\ Len(l) \in Nat /\ Len(v) = Len(u) + Len(l)
        /\ \A i \in 1..Len(u) : v[i] = u[i] /\ i \in 1..(Len(u) + Len(l))
        /\ \A i \in 1..Len(l) : v[Len(u) + i] = l[i]
        /\ \A i \in 1..(Len(u) + Len(l)) : i \in 1..Len(u) \/ (\E j \in 1..Len(l) : i = Len(u) + j)
    BY <2>1, <2>3, Joins
  <2> HIDE DEF v
  <2>5. /\ Len(v) \in Nat /\ Len(c) \in Nat /\ Len(w) = Len(v) + Len(c)
        /\ \A i \in 1..Len(v) : w[i] = v[i] /\ i \in 1..(Len(v) + Len(c))
        /\ \A i \in 1..Len(c) : w[Len(v) + i] = c[i]
        /\ \A i \in 1..(Len(v) + Len(c)) : i \in 1..Len(v) \/ (\E j \in 1..Len(c) : i = Len(v) + j)
    BY <2>2, <2>4, Joins
  <2> HIDE DEF w
  <2>6. Len(u) \in Nat /\ Len(w) \in Nat /\ Len(u) <= Len(w)
    BY <2>4, <2>5
  <2>7. \A i \in 1..Len(u) : i \in 1..Len(w) /\ w[i] = u[i]
    BY <2>4, <2>5
  <2>8. ASSUME NEW j \in 1..Len(w)
        PROVE  \/ j \in 1..Len(u) /\ w[j] = u[j]
               \/ w[j].of = <<at.block, at.inst>> /\ (b = ip \/ w[j].kind = "load")
    <3>1. CASE j \in 1..Len(v)
      <4>1. w[j] = v[j] /\ j \in 1..(Len(u) + Len(l))
        BY <2>4, <2>5, <3>1
      <4>2. CASE j \in 1..Len(u)
        BY <2>4, <4>1, <4>2
      <4>3. CASE \E k \in 1..Len(l) : j = Len(u) + k
        <5>1. PICK k \in 1..Len(l) : j = Len(u) + k
          BY <4>3
        <5>2. w[j] = l[k]
          BY <2>4, <4>1, <5>1
        <5> QED
          BY <2>1, <5>2
      <4> QED
        BY <2>4, <4>1, <4>2, <4>3
    <3>2. CASE \E k \in 1..Len(c) : j = Len(v) + k
      <4>1. PICK k \in 1..Len(c) : j = Len(v) + k
        BY <3>2
      <4>2. w[j] = c[k]
        BY <2>5, <4>1
      <4> QED
        BY <2>2, <4>2
    <3> QED
      BY <2>5, <3>1, <3>2
  <2>9. b = ip /\ Len(code) > 0 => Len(u) < Len(w) /\ w[Len(w)] = code[Len(code)]
    <3> SUFFICES ASSUME b = ip, Len(code) > 0 PROVE Len(u) < Len(w) /\ w[Len(w)] = code[Len(code)]
      OBVIOUS
    <3>1. c = code /\ Len(c) \in 1..Len(c)
      BY <2>2, <2>5
    <3> QED
      BY <2>4, <2>5, <3>1
  <2>10. b = ip /\ Len(loads) = 0 /\ Len(code) > 0 => w[Len(u) + 1] = code[1]
    <3> SUFFICES ASSUME b = ip, Len(loads) = 0, Len(code) > 0 PROVE w[Len(u) + 1] = code[1]
      OBVIOUS
    <3>1. c = code /\ 1 \in 1..Len(c) /\ Len(v) = Len(u)
      BY <2>1, <2>2, <2>4, <2>5
    <3> QED
      BY <2>5, <3>1
  <2> QED
    BY <2>3, <2>6, <2>7, <2>8, <2>9, <2>10
<1>7. ASSUME NEW b \in 1..Len(ir'), NEW j \in 1..Len(ir'[b])
      PROVE  \/ b \in 1..Len(ir) /\ j \in 1..Len(ir[b]) /\ ir'[b][j] = ir[b][j]
             \/ ir'[b][j].of = <<at.block, at.inst>> /\ (b = ip \/ ir'[b][j].kind = "load")
  <2>1. CASE b \in 1..Len(ir)
    BY <1>6, <2>1
  <2>2. CASE b > Len(ir)
    <3>1. Len(ir'[b]) = 0
      BY <1>1, <1>4, <2>2
    <3> QED
      BY <3>1
  <2> QED
    BY <1>5, <2>1, <2>2
<1> QED
  BY <1>2, <1>5, <1>6, <1>7

\* The code of other instructions ends where it ended.
LEMMA FinalKeeps ==
    ASSUME CloneInv, IrInv, phase = "fill", NEW loads, NEW code, AppendsHere(loads, code),
           NEW b, NEW i, NEW n, NEW k, Final(b, i, n, k), <<n, k>> # <<at.block, at.inst>>
    PROVE  Final(b, i, n, k)'
<1>1. /\ b \in 1..Len(ir) /\ i \in 1..Len(ir[b]) /\ CodeOf(ir[b][i], n, k)
      /\ \A c \in 1..Len(ir) : \A j \in 1..Len(ir[c]) : CodeOf(ir[c][j], n, k) => c = b /\ j <= i
  BY DEF Final
<1>2. b \in 1..Len(ir') /\ i \in 1..Len(ir'[b]) /\ ir'[b][i] = ir[b][i]
  BY <1>1, AppendedItems
<1>3. ASSUME NEW c \in 1..Len(ir'), NEW j \in 1..Len(ir'[c]), CodeOf(ir'[c][j], n, k)
      PROVE  c = b /\ j <= i
  <2>1. ir'[c][j].of # <<at.block, at.inst>>
    BY <1>3 DEF CodeOf
  <2>2. c \in 1..Len(ir) /\ j \in 1..Len(ir[c]) /\ ir'[c][j] = ir[c][j]
    BY <2>1, AppendedItems
  <2> QED
    BY <1>1, <1>3, <2>2
<1> QED
  BY <1>1, <1>2, <1>3 DEF Final, CodeOf

\* The code of this one ends at the end of the builder's basic block.
LEMMA FinalHere ==
    ASSUME CloneInv, IrInv, Ordered, phase = "fill",
           NEW loads, NEW code, AppendsHere(loads, code), Len(code) > 0,
           NEW b, b = ip, NEW n, n = at.block, NEW k, k = at.inst
    PROVE  Final(b, Len(ir[b]), n, k)' /\ ir'[b][Len(ir'[b])] = code[Len(code)]
<1> DEFINE m == Len(ir'[b])
<1>1. /\ b \in 1..Len(ir) /\ b \in 1..Len(ir') /\ Len(ir[b]) \in Nat /\ m \in Nat
      /\ Len(ir[b]) < m /\ ir'[b][m] = code[Len(code)]
  BY AppendedItems
<1>2. m \in 1..Len(ir'[b])
  BY <1>1
<1>3. CodeOf(ir'[b][m], n, k)
  <2>1. code \in Seq(Items)
    BY DEF AppendsHere, Adds
  <2>2. Len(code) \in 1..Len(code)
    BY <2>1, LenProperties
  <2> QED
    BY <1>1, <2>2 DEF AppendsHere, CodeOf
<1>4. ASSUME NEW c \in 1..Len(ir'), NEW j \in 1..Len(ir'[c]), CodeOf(ir'[c][j], n, k)
      PROVE  c = b /\ j <= m
  <2>1. ASSUME c \in 1..Len(ir), j \in 1..Len(ir[c]), ir'[c][j] = ir[c][j] PROVE FALSE
    <3>1. Before(ir[c][j].of)
      BY <2>1 DEF Ordered
    <3>2. ir[c][j].of = <<at.block, at.inst>>
      BY <1>4, <2>1 DEF CodeOf
    <3>3. at.block \in Nat /\ at.inst \in Nat
      BY InstIs DEF CloneInv
    <3> QED
      BY <3>1, <3>2, <3>3 DEF Before
  <2>2. c = ip
    BY <1>4, <2>1, AppendedItems DEF CodeOf
  <2>3. j \in 1..m
    BY <2>2
  <2> QED
    BY <1>1, <2>2, <2>3
<1> QED
  BY <1>1, <1>2, <1>3, <1>4 DEF Final, CodeOf

\* Where an instruction goes does not change while others are lifted, and what it
\* waits for comes.
LEMMA GoesKeeps ==
    ASSUME CloneInv, IrInv, phase = "fill", src' = src,
           NEW loads, NEW code, AppendsHere(loads, code), ~Closed => Len(code) > 0,
           ~Closed /\ at.inst > Size(at.block) =>
                Continues(ir'[ip][Len(ir[ip]) + 1], at.block, Size(at.block)),
           NEW b \in 1..Len(ir), NEW i \in 1..Len(ir[b]),
           NEW n \in 1..Len(src), NEW k \in 1..Size(n), Goes(b, i, n, k)
    PROVE  Goes(b, i, n, k)'
<1>1. /\ O(n, k)' = O(n, k) /\ O(n, k + 1)' = O(n, k + 1) /\ Ref(n, k)' = Ref(n, k)
      /\ Ref(n, k + 1)' = Ref(n, k + 1) /\ Size(n)' = Size(n)
  BY DEF O, Ref, Size, Instrs
<1>2. /\ ir'[b][i] = ir[b][i] /\ b \in 1..Len(ir') /\ Len(ir[b]) \in Nat /\ Len(ir'[b]) \in Nat
      /\ Len(ir[b]) <= Len(ir'[b])
  BY AppendedItems
<1>3. Size(n) \in Nat /\ Len(src) \in Nat
  BY FunctionIs DEF CloneInv
<1>4. /\ at.block \in 1..Len(src) /\ at.inst \in Nat
  BY InstIs DEF CloneInv
<1>5. ASSUME NEW f, NEW p, Opens(f, n, p) PROVE Opens(f, n, p)'
  <2>1. f \in (Len(src) + 1)..Len(ir) /\ f \in 1..Len(ir)
    BY <1>3, <1>5 DEF Opens
  <2>2. /\ f \in (Len(src') + 1)..Len(ir') /\ Len(ir[f]) \in Nat /\ Len(ir'[f]) \in Nat
        /\ Len(ir[f]) <= Len(ir'[f])
        /\ \A j \in 1..Len(ir[f]) : ir'[f][j] = ir[f][j]
    <3>1. Len(ir) \in Nat /\ Len(ir') \in Nat /\ Len(ir) <= Len(ir')
      BY AppendedItems
    <3> QED
      BY <1>3, <2>1, <3>1, AppendedItems
  <2>3. CASE Len(ir[f]) > 0 /\ ir[f][1].of = <<n, p>>
    <3>1. 1 \in 1..Len(ir[f]) /\ Len(ir'[f]) > 0
      BY <2>2, <2>3
    <3> QED
      BY <2>2, <2>3, <3>1 DEF Opens
  <2>4. CASE Len(ir[f]) = 0 /\ Awaits(f, n, p)
    <3>1. f = ip /\ at.block = n /\ at.inst = p /\ Len(code) > 0
      BY <2>4 DEF Awaits
    <3>2. Len(ir'[f]) > 0
      BY <2>2, <3>1, AppendedItems
    <3>3. 1 \in 1..Len(ir'[f]) /\ ~(1 \in 1..Len(ir[f]))
      BY <2>2, <2>4, <3>2
    <3>4. f \in 1..Len(ir')
      BY <2>1, AppendedItems
    <3>5. ir'[f][1].of = <<n, p>>
      BY <3>1, <3>3, <3>4, AppendedItems
    <3> QED
      BY <2>2, <3>2, <3>5 DEF Opens
  <2> QED
    BY <1>5, <2>3, <2>4 DEF Opens
<1>6. CASE IsTerminator(ir[b][i]) /\ Leaves(ir[b][i].to, n, k)
  <2>1. Leaves(ir[b][i].to, n, k)'
    BY <1>1, <1>2, <1>5, <1>6 DEF Leaves
  <2> QED
    BY <1>2, <1>6, <2>1 DEF Goes, IsTerminator
<1>7. CASE ~IsTerminator(ir[b][i]) /\ O(n, k) \notin {"jmp", "ret", "cbr"}
  <2>1. CASE i < Len(ir[b]) /\ Continues(ir[b][i + 1], n, k)
    <3>1. i + 1 \in 1..Len(ir[b]) /\ i < Len(ir'[b])
      BY <1>2, <2>1
    <3>2. ir'[b][i + 1] = ir[b][i + 1]
      BY <3>1, AppendedItems
    <3>3. Continues(ir[b][i + 1], n, k)'
      BY <1>1, <2>1, <3>2 DEF Continues
    <3> QED
      BY <1>1, <1>2, <1>7, <3>1, <3>3 DEF Goes, IsTerminator
  <2>2. CASE i = Len(ir[b]) /\ Awaits(b, n, k + 1)
    <3>1. b = ip /\ at.block = n /\ at.inst = k + 1 /\ ~Closed /\ Len(code) > 0
      BY <2>2 DEF Awaits
    <3>2. i < Len(ir'[b]) /\ i + 1 \in 1..Len(ir'[b]) /\ ~(i + 1 \in 1..Len(ir[b]))
      <4>1. Len(ir[b]) < Len(ir'[b])
        BY <3>1, AppendedItems
      <4> QED
        BY <1>2, <2>2, <4>1
    <3>3. ir'[b][i + 1].of = <<n, k + 1>>
      BY <1>2, <3>1, <3>2, AppendedItems
    <3>4. Continues(ir'[b][i + 1], n, k)
      <4>1. CASE k = Size(n)
        <5>1. at.inst > Size(at.block)
          BY <1>3, <3>1, <4>1
        <5> QED
          BY <2>2, <3>1, <4>1, <5>1
      <4>2. CASE k # Size(n)
        BY <3>3, <4>2 DEF Continues
      <4> QED
        BY <4>1, <4>2
    <3>5. Continues(ir[b][i + 1], n, k)'
      BY <1>1, <3>4 DEF Continues
    <3> QED
      BY <1>1, <1>2, <1>7, <3>2, <3>5 DEF Goes, IsTerminator
  <2> QED
    BY <1>7, <2>1, <2>2 DEF Goes
<1> QED
  BY <1>6, <1>7 DEF Goes

\* What went somewhere goes there after a step.
LEMMA FlowsKeep ==
    ASSUME CloneInv, IrInv, phase = "fill", src' = src, FlowInv,
           NEW loads, NEW code, AppendsHere(loads, code), ~Closed => Len(code) > 0,
           ~Closed /\ at.inst > Size(at.block) =>
                Continues(ir'[ip][Len(ir[ip]) + 1], at.block, Size(at.block)),
           NEW n \in 1..Len(src), NEW k \in 1..Size(n), Before(<<n, k>>), ~Swallowed(n, k)
    PROVE  Flows(n, k)'
<1>1. PICK b, i : Final(b, i, n, k) /\ Goes(b, i, n, k)
  BY DEF FlowInv, Flows
<1>2. b \in 1..Len(ir) /\ i \in 1..Len(ir[b])
  BY <1>1 DEF Final
<1>3. <<n, k>> # <<at.block, at.inst>>
  <2>1. at.block \in Nat /\ at.inst \in Nat
    BY InstIs DEF CloneInv
  <2> QED
    BY <2>1 DEF Before
<1>4. Final(b, i, n, k)'
  BY <1>1, <1>3, FinalKeeps
<1>5. Goes(b, i, n, k)'
  BY <1>1, <1>2, GoesKeeps
<1> QED
  BY <1>4, <1>5 DEF Flows

\* The order is kept when the lifter goes on to a later instruction.
LEMMA OrderKeeps ==
    ASSUME CloneInv, IrInv, phase = "fill", Ordered,
           NEW loads, NEW code, AppendsHere(loads, code),
           at'.block > at.block \/ (at'.block = at.block /\ at'.inst > at.inst),
           at'.block \in Nat, at'.inst \in Nat
    PROVE  Ordered'
<1>1. at.block \in Nat /\ at.inst \in Nat
  BY InstIs DEF CloneInv
<1>2. \A p \in Nat \X Nat : Before(p) \/ p = <<at.block, at.inst>> => Before(p)'
  BY <1>1 DEF Before
<1>3. ASSUME NEW c \in 1..Len(ir'), NEW j \in 1..Len(ir'[c]) PROVE Before(ir[c][j].of)'
  <2>1. CASE c \in 1..Len(ir) /\ j \in 1..Len(ir[c]) /\ ir'[c][j] = ir[c][j]
    <3>1. Before(ir[c][j].of)
      BY <2>1 DEF Ordered
    <3>2. ir[c][j] \in Items
      BY <2>1, IrIs, ElementOfSeq
    <3>3. ir[c][j].of \in Nat \X Nat
      BY <3>2 DEF Items
    <3> QED
      BY <1>2, <2>1, <3>1, <3>3 DEF Before
  <2>2. CASE ir'[c][j].of = <<at.block, at.inst>>
    <3>1. <<at.block, at.inst>> \in Nat \X Nat
      BY <1>1
    <3> QED
      BY <1>2, <2>2, <3>1 DEF Before
  <2> QED
    BY <2>1, <2>2, AppendedItems
<1> QED
  BY <1>3 DEF Ordered

\* An instruction other than a conditional branch goes where its code goes.
LEMMA GrowsFlow ==
    ASSUME CloneInv, IrInv, WellFormed(src), Ordered, FlowInv, Grows
    PROVE  Ordered' /\ FlowInv'
<1>1. /\ Filling /\ at' = [at EXCEPT !.inst = @ + 1] /\ UNCHANGED <<src, dst, phase, ip>>
  BY DEF Grows, Advance
<1>2. /\ phase = "fill" /\ at.inst \in 1..Size(at.block) /\ at.block \in 1..Len(src)
      /\ Size(at.block) \in Nat /\ Len(src) \in Nat
      /\ Inst.op = OpAt(at.inst) /\ Inst.op \in Op
      /\ Inst.op \in {"cbr", "jmp"} => is_branch(Inst)
      /\ Closed <=> Absorbed
  BY <1>1, HereIs
<1>3. at'.block = at.block /\ at'.inst = at.inst + 1 /\ at'.inst > at.inst /\ at'.inst \in Nat
  <2>1. at = [block |-> at.block, inst |-> at.inst]
    BY DEF CloneInv
  <2> QED
    BY <1>1, <1>2, <2>1
<1>4. PICK loads, code : Grown(loads, code)
  BY DEF Grows
<1>5. AppendsHere(loads, code) /\ Len(ir') = Len(ir)
  BY <1>2, <1>4, GrownAdds DEF AppendsHere, Grown
<1>6. /\ \A k \in 1..Len(code) : IsTerminator(code[k]) => k = Len(code) /\ Inst.op \in {"jmp", "ret"}
      /\ \A k \in 1..Len(code) : IsTerminator(code[k]) =>
            code[k].to = IF Inst.op = "jmp" THEN <<Inst.ref.block>> ELSE << >>
      /\ (is_branch(Inst) \/ is_return(Inst)) /\ ~Absorbed => Term(code)
      /\ ~Absorbed => Len(code) > 0
      /\ code \in Seq(Items)
  BY <1>4 DEF Grown
<1>7. ~Closed => Len(code) > 0
  BY <1>2, <1>6
<1>8. ~(at.inst > Size(at.block))
  BY <1>2
<1>9. Ordered'
  BY <1>2, <1>3, <1>5, OrderKeeps
<1>10. ASSUME NEW n \in 1..Len(src), NEW k \in 1..Size(n), Before(<<n, k>>), ~Swallowed(n, k)
       PROVE  Flows(n, k)'
  BY <1>1, <1>2, <1>5, <1>7, <1>8, <1>10, FlowsKeep
<1>11. ASSUME NEW n, NEW k, n = at.block, k = at.inst, ~Swallowed(n, k) PROVE Flows(n, k)'
  <2>1. O(n, k) = Inst.op /\ Inst.ref.block = Ref(n, k)
    BY <1>2, <1>11, InstIs DEF O, Ref, OpAt, Inst
  <2>2. ~Absorbed
    <3>1. at.inst > 1 => MBB.instrs[at.inst - 1].op = O(n, k - 1)
      <4>1. at.inst > 1 => at.inst - 1 \in 1..Size(at.block)
        BY <1>2
      <4> QED
        BY <1>2, <1>11, <4>1, InstIs DEF O
    <3> QED
      BY <1>11, <2>1, <3>1 DEF Absorbed, Swallowed
  <2>3. Len(code) > 0 /\ Len(code) \in 1..Len(code) /\ ~Closed
    <3>1. Len(code) \in Nat /\ Len(code) > 0
      BY <1>6, <2>2, LenProperties
    <3> QED
      BY <1>2, <2>2, <3>1
  <2>4. PICK b : b = ip
    OBVIOUS
  <2>5. Final(b, Len(ir[b]), n, k)' /\ ir'[b][Len(ir'[b])] = code[Len(code)]
    BY <1>2, <1>5, <1>11, <2>3, <2>4, FinalHere
  <2>6. O(n, k)' = O(n, k) /\ Ref(n, k)' = Ref(n, k)
    BY <1>1 DEF O, Ref, Instrs
  <2>7. Goes(b, Len(ir[b]), n, k)'
    <3>1. CASE IsTerminator(code[Len(code)])
      <4>1. /\ Inst.op \in {"jmp", "ret"}
            /\ code[Len(code)].to = IF Inst.op = "jmp" THEN <<Inst.ref.block>> ELSE << >>
        BY <1>6, <2>3, <3>1
      <4> DEFINE to == code[Len(code)].to
      <4>2. to = ir'[b][Len(ir'[b])].to
        BY <2>5
      <4> HIDE DEF to
      <4>3. \/ O(n, k) = "jmp" /\ ir'[b][Len(ir'[b])].to = <<Ref(n, k)>>
            \/ O(n, k) = "ret" /\ ir'[b][Len(ir'[b])].to = << >>
        BY <2>1, <4>1, <4>2 DEF to
      <4>4. Leaves(ir[b][Len(ir[b])].to, n, k)'
        BY <2>6, <4>3 DEF Leaves
      <4>5. IsTerminator(ir[b][Len(ir[b])])'
        BY <2>5, <3>1 DEF IsTerminator
      <4> QED
        BY <4>4, <4>5 DEF Goes
    <3>2. CASE ~IsTerminator(code[Len(code)])
      <4>1. Inst.op \notin {"jmp", "ret", "cbr"}
        <5>1. ~Term(code)
          <6>1. \A j \in 1..Len(code) : ~IsTerminator(code[j])
            BY <1>6, <3>2
          <6> QED
            BY <6>1 DEF Term
        <5> QED
          BY <1>2, <1>6, <2>2, <5>1 DEF is_return
      <4>2. ~Closed'
        <5>1. (\A j : OpAt(j)' = OpAt(j)) /\ at'.inst - 1 = at.inst
          BY <1>1, <1>2, <1>3, SameOps
        <5> QED
          BY <1>2, <4>1, <5>1 DEF Closed
      <4>3. Awaits(b, n, k + 1)'
        BY <1>1, <1>2, <1>3, <1>11, <2>4, <4>2 DEF Awaits
      <4>4. ~IsTerminator(ir[b][Len(ir[b])])'
        BY <2>5, <3>2 DEF IsTerminator
      <4> QED
        BY <2>1, <2>6, <4>1, <4>3, <4>4 DEF Goes
    <3> QED
      BY <3>1, <3>2
  <2> QED
    BY <2>5, <2>7 DEF Flows
<1>12. FlowInv'
  <2> SUFFICES ASSUME NEW n \in 1..Len(src), NEW k \in 1..Size(n), Before(<<n, k>>)', ~Swallowed(n, k)
               PROVE  Flows(n, k)'
    <3>1. \A n, k : Swallowed(n, k)' = Swallowed(n, k)
      BY <1>1 DEF Swallowed, O, Instrs
    <3>2. Len(src') = Len(src) /\ phase' = "fill" /\ \A n : Size(n)' = Size(n)
      BY <1>1, <1>2 DEF Size
    <3> QED
      BY <3>1, <3>2 DEF FlowInv
  <2>1. Before(<<n, k>>) \/ (n = at.block /\ k = at.inst)
    <3>1. k \in Nat /\ n \in Nat
      BY FunctionIs DEF CloneInv
    <3> QED
      BY <1>2, <1>3, <3>1 DEF Before
  <2> QED
    BY <1>10, <1>11, <2>1
<1> QED
  BY <1>9, <1>12

\* A conditional branch goes to its target and to its if_false block.
LEMMA BranchFlow ==
    ASSUME CloneInv, IrInv, WellFormed(src), Ordered, FlowInv, GenerateBranch, phase' # "rejected"
    PROVE  Ordered' /\ FlowInv'
<1>1. /\ Filling /\ Inst.op = "cbr" /\ at' = [at EXCEPT !.inst = @ + 1] /\ UNCHANGED <<src, dst, phase>>
  BY DEF GenerateBranch, Advance, Reject, isConditionalBranch
<1>2. /\ phase = "fill" /\ at.inst \in 1..Size(at.block) /\ at.block \in 1..Len(src)
      /\ Size(at.block) \in Nat /\ Len(src) \in Nat
      /\ OpAt(at.inst) = "cbr" /\ Inst = MBB.instrs[at.inst]
      /\ ~Closed
  BY <1>1, HereIs
<1>3. at'.block = at.block /\ at'.inst = at.inst + 1 /\ at'.inst > at.inst /\ at'.inst \in Nat
  <2>1. at = [block |-> at.block, inst |-> at.inst]
    BY DEF CloneInv
  <2> QED
    BY <1>1, <1>2, <2>1
<1>4. PICK loads, code : Branches(loads, code)
  BY BranchAdds
<1>5. /\ Adds(loads, code)
      /\ Len(loads) = 1 /\ loads[1].kind = "load" /\ loads[1].of = <<at.block, at.inst>>
      /\ Len(code) = 2 /\ code[1].kind = "sem" /\ code[2].kind = "condbr"
      /\ code[1].of = <<at.block, at.inst>> /\ code[2].of = <<at.block, at.inst>>
      /\ code[2].to = <<Inst.ref.block, ip'>>
      /\ IF at.inst = Size(at.block)
         THEN at.block < Len(src) /\ ip' = at.block + 1 /\ Len(ir') = Len(ir)
         ELSE IF isUnconditionalBranch(Next1) THEN ip' \in 1..Len(src) /\ Len(ir') = Len(ir)
         ELSE ip' = Len(ir) + 1 /\ Len(ir') = Len(ir) + 1
  BY <1>4 DEF Branches
<1>6. AppendsHere(loads, code)
  <2>1. \A j \in 1..2 : j = 1 \/ j = 2
    OBVIOUS
  <2> QED
    BY <1>5, <2>1 DEF AppendsHere
<1>7. Len(code) > 0 /\ ~(at.inst > Size(at.block))
  BY <1>2, <1>5
<1>8. Ordered'
  BY <1>2, <1>3, <1>6, OrderKeeps
<1>9. ASSUME NEW n \in 1..Len(src), NEW k \in 1..Size(n), Before(<<n, k>>), ~Swallowed(n, k)
      PROVE  Flows(n, k)'
  BY <1>1, <1>2, <1>6, <1>7, <1>9, FlowsKeep
<1>10. ASSUME NEW n, NEW k, n = at.block, k = at.inst PROVE Flows(n, k)'
  <2>1. O(n, k) = "cbr" /\ Inst.ref.block = Ref(n, k)
    BY <1>2, <1>10, InstIs DEF O, Ref, OpAt
  <2>2. PICK b : b = ip
    OBVIOUS
  <2>3. Final(b, Len(ir[b]), n, k)' /\ ir'[b][Len(ir'[b])] = code[2]
    BY <1>2, <1>5, <1>6, <1>7, <1>10, <2>2, FinalHere
  <2>4. /\ \A m, j : O(m, j)' = O(m, j) /\ Ref(m, j)' = Ref(m, j)
        /\ Size(n)' = Size(n) /\ Len(src') = Len(src)
    BY <1>1 DEF O, Ref, Instrs, Size
  <2>5. k < Size(n) => /\ at.inst + 1 \in 1..Size(at.block)
                       /\ Next1.op = O(n, k + 1)
                       /\ O(n, k + 1) \notin {"tail", "brind"}
                       /\ isUnconditionalBranch(Next1) <=> O(n, k + 1) = "jmp"
    <3> SUFFICES ASSUME k < Size(n)
                 PROVE  /\ at.inst + 1 \in 1..Size(at.block)
                        /\ Next1.op = O(n, k + 1)
                        /\ O(n, k + 1) \notin {"tail", "brind"}
                        /\ isUnconditionalBranch(Next1) <=> O(n, k + 1) = "jmp"
      OBVIOUS
    <3>1. at.inst + 1 \in 1..Size(at.block) /\ at.inst < Size(at.block)
      BY <1>2, <1>10
    <3>2. Next1.op = O(n, k + 1) /\ O(n, k + 1) \notin {"tail", "brind"}
      BY <1>2, <1>10, <3>1, WellFormedIs DEF Next1, O, OpAt
    <3> QED
      BY <3>1, <3>2 DEF isUnconditionalBranch
  <2>6. \/ k = Size(n) /\ n < Len(src) /\ ip' = n + 1
        \/ k < Size(n) /\ O(n, k + 1) = "jmp" /\ ip' = Ref(n, k + 1)
        \/ k < Size(n) /\ O(n, k + 1) # "jmp" /\ ip' = Len(ir) + 1 /\ Len(ir') = Len(ir) + 1
    <3>1. CASE k = Size(n)
      BY <1>5, <1>10, <3>1
    <3>2. CASE k < Size(n) /\ O(n, k + 1) = "jmp"
      <4>1. Next1.ref.block = Ref(n, k + 1)
        BY <1>2, <1>10, <2>5, <3>2, InstIs DEF Next1, Ref
      <4>2. ip' = if_false_block.block
        BY <1>1 DEF GenerateBranch, Reject
      <4>3. if_false_block = Next1.ref
        <5>1. at.inst < Len(MBB.instrs)
          BY <1>2, <1>10, <3>2, InstIs
        <5> QED
          BY <2>5, <3>2, <5>1 DEF if_false_block, Next1
      <4> QED
        BY <3>2, <4>1, <4>2, <4>3
    <3>3. CASE k < Size(n) /\ O(n, k + 1) # "jmp"
      <4>1. at.inst # Size(at.block)
        BY <1>2, <1>10, <3>3
      <4> QED
        BY <1>5, <2>5, <3>3, <4>1
    <3>4. k = Size(n) \/ k < Size(n)
      BY <1>2, <1>10
    <3> QED
      BY <3>1, <3>2, <3>3, <3>4
  <2>7. k < Size(n) /\ O(n, k + 1) # "jmp" => Opens(ip, n, k + 1)'
    <3> SUFFICES ASSUME k < Size(n), O(n, k + 1) # "jmp" PROVE Opens(ip, n, k + 1)'
      OBVIOUS
    <3>1. ip' = Len(ir) + 1 /\ Len(ir') = Len(ir) + 1
      BY <1>2, <1>10, <2>6
    <3>2. Len(ir) \in Nat /\ Len(src) <= Len(ir)
      BY <1>2, IrIs
    <3>3. ip' \in (Len(src') + 1)..Len(ir') /\ ip' \in 1..Len(ir') /\ ip' > Len(ir)
      BY <1>2, <2>4, <3>1, <3>2
    <3>4. Len(ir'[ip']) = 0
      <4>1. ir'[ip'] = << >>
        BY <1>5, <3>3 DEF Adds
      <4> QED
        BY <4>1, EmptySeq
    <3>5. ~Closed'
      <4>1. (\A j : OpAt(j)' = OpAt(j)) /\ Size(at.block)' = Size(at.block) /\ at'.inst - 1 = at.inst
        BY <1>1, <1>2, <1>3, SameOps
      <4>2. OpAt(at.inst + 1) # "jmp" /\ ~(at.inst + 1 > Size(at.block))
        BY <1>2, <1>10, <2>5 DEF O, OpAt
      <4> QED
        BY <1>2, <1>3, <4>1, <4>2 DEF Closed
    <3>6. Awaits(ip, n, k + 1)'
      BY <1>1, <1>2, <1>3, <1>10, <3>5 DEF Awaits
    <3> QED
      BY <3>3, <3>4, <3>6 DEF Opens
  <2>8. Leaves(ir[b][Len(ir[b])].to, n, k)'
    <3> DEFINE to == code[2].to
    <3>1. to = ir'[b][Len(ir'[b])].to /\ to = <<Ref(n, k), ip'>>
      BY <1>5, <2>1, <2>3
    <3> HIDE DEF to
    <3>2. \/ k = Size(n) /\ n < Len(src) /\ ip' = n + 1
          \/ k < Size(n) /\ O(n, k + 1) = "jmp" /\ ip' = Ref(n, k + 1)
          \/ k < Size(n) /\ O(n, k + 1) # "jmp" /\ Opens(ip, n, k + 1)'
      BY <2>6, <2>7
    <3> QED
      BY <2>1, <2>4, <3>1, <3>2 DEF Leaves
  <2>9. IsTerminator(ir[b][Len(ir[b])])'
    BY <1>5, <2>3 DEF IsTerminator
  <2> QED
    BY <2>3, <2>8, <2>9 DEF Flows, Goes
<1>11. FlowInv'
  <2> SUFFICES ASSUME NEW n \in 1..Len(src), NEW k \in 1..Size(n), Before(<<n, k>>)', ~Swallowed(n, k)
               PROVE  Flows(n, k)'
    <3>1. \A n, k : Swallowed(n, k)' = Swallowed(n, k)
      BY <1>1 DEF Swallowed, O, Instrs
    <3>2. Len(src') = Len(src) /\ phase' = "fill" /\ \A n : Size(n)' = Size(n)
      BY <1>1, <1>2 DEF Size
    <3> QED
      BY <3>1, <3>2 DEF FlowInv
  <2>1. Before(<<n, k>>) \/ (n = at.block /\ k = at.inst)
    <3>1. k \in Nat /\ n \in Nat
      BY FunctionIs DEF CloneInv
    <3> QED
      BY <1>2, <1>3, <3>1 DEF Before
  <2> QED
    BY <1>9, <1>10, <2>1
<1> QED
  BY <1>8, <1>11

\* A block that falls through goes to the next one, after a call it returns.
LEMMA FinishFlow ==
    ASSUME CloneInv, IrInv, WellFormed(src), Ordered, FlowInv, FinishBlock, phase' # "rejected"
    PROVE  Ordered' /\ FlowInv'
<1>1. /\ phase = "fill" /\ at.inst > Len(MBB.instrs)
      /\ at' = [block |-> at.block + 1, inst |-> 1] /\ ip' = at.block + 1
      /\ phase' = (IF at.block = Len(dst) THEN "save" ELSE phase)
      /\ UNCHANGED <<src, dst>>
  BY DEF FinishBlock, Reject
<1>2. /\ at.block \in 1..Len(src) /\ Len(src) \in Nat /\ Len(dst) = Len(src)
      /\ at'.block = at.block + 1 /\ at'.inst = 1 /\ at'.block > at.block
      /\ at'.block \in Nat /\ at'.inst \in Nat
  BY <1>1, InstIs
<1>3. PICK code : Finishes(code)
  BY FinishAdds
<1>4. /\ Adds(<< >>, code) /\ Len(ir') = Len(ir)
      /\ at.inst = Size(at.block) + 1 /\ Size(at.block) \in Nat \ {0}
      /\ \A k \in 1..Len(code) : code[k].of = <<at.block, at.inst>>
  BY <1>1, <1>3, WellFormedIs DEF Finishes
<1> DEFINE last == MBB.instrs[Size(at.block)]
           n == at.block
           k == Size(at.block)
<1>5. IF is_branch(last) \/ is_return(last) THEN Len(code) = 0
      ELSE IF is_call(last) THEN Len(code) = 1 /\ code[1].kind = "ret" /\ code[1].to = << >>
      ELSE /\ Len(code) = 1 /\ code[1].kind = "br" /\ code[1].to = <<n + 1>>
           /\ n < Len(src)
  BY <1>3 DEF Finishes
<1>6. /\ last.op = O(n, k) /\ O(n, k) \in Op /\ (last.op \in {"cbr", "jmp"} => HasMBB(last))
      /\ ~Closed => O(n, k) \notin {"jmp", "ret", "cbr"}
  <2>1. k \in 1..k /\ at.inst > 1 /\ at.inst - 1 = k /\ at.inst > k
    BY <1>4
  <2>2. last.op = O(n, k) /\ O(n, k) \in Op /\ (last.op \in {"cbr", "jmp"} => HasMBB(last))
    BY <1>1, <2>1, WellFormedIs DEF O, OpAt
  <2>3. ~Closed => O(n, k) \notin {"jmp", "ret", "cbr"}
    BY <2>1 DEF Closed, O, OpAt
  <2> QED
    BY <2>2, <2>3
<1> HIDE DEF last
<1>7. AppendsHere(<< >>, code)
  <2>1. \A j \in 1..Len(code) : j = 1 /\ code[j].kind # "load"
    BY <1>5
  <2>2. Len(<< >>) = 0
    BY EmptySeq
  <2> QED
    BY <1>4, <2>1, <2>2 DEF AppendsHere
<1>8. ~Closed => /\ Len(code) = 1
                 /\ IF O(n, k) \in {"plain", "brind"}
                    THEN code[1].kind = "br" /\ code[1].to = <<n + 1>> /\ n < Len(src)
                    ELSE code[1].to = << >>
  BY <1>5, <1>6 DEF is_branch, is_return, is_call, Op
<1>9. ~Closed => Continues(ir'[ip][Len(ir[ip]) + 1], n, k)
  <2> SUFFICES ASSUME ~Closed PROVE Continues(ir'[ip][Len(ir[ip]) + 1], n, k)
    OBVIOUS
  <2>1. Len(<< >>) = 0 /\ Len(code) > 0 /\ 1 \in 1..Len(code)
    <3>1. Len(code) = 1
      BY <1>8
    <3> QED
      BY <3>1, EmptySeq
  <2>2. ir'[ip][Len(ir[ip]) + 1] = code[1]
    BY <1>1, <1>7, <2>1, AppendedItems
  <2>3. code[1].of = <<n, k + 1>>
    BY <1>4, <2>1
  <2> QED
    BY <1>8, <2>2, <2>3 DEF Continues
<1>10. ASSUME NEW m \in 1..Len(src), NEW j \in 1..Size(m), Before(<<m, j>>), ~Swallowed(m, j)
       PROVE  Flows(m, j)'
  <2>1. ~Closed => Len(code) > 0
    <3>1. ~Closed => Len(code) = 1
      BY <1>8
    <3> QED
      BY <3>1
  <2> QED
    BY <1>1, <1>7, <1>9, <1>10, <2>1, FlowsKeep
<1>11. Ordered'
  BY <1>1, <1>2, <1>7, OrderKeeps
<1>12. FlowInv'
  <2> SUFFICES ASSUME NEW m \in 1..Len(src), NEW j \in 1..Size(m),
                      phase' = "fill" => Before(<<m, j>>)', ~Swallowed(m, j)
               PROVE  Flows(m, j)'
    <3>1. \A m, j : Swallowed(m, j)' = Swallowed(m, j)
      BY <1>1 DEF Swallowed, O, Instrs
    <3>2. Len(src') = Len(src) /\ \A m : Size(m)' = Size(m)
      BY <1>1 DEF Size
    <3> QED
      BY <3>1, <3>2 DEF FlowInv
  <2>1. Before(<<m, j>>)
    <3>1. m \in Nat /\ j \in Nat /\ (m = at.block => j < at.inst)
      BY <1>4, FunctionIs DEF CloneInv
    <3>2. m <= at.block
      <4>1. CASE phase' = "fill"
        <5>1. m < at.block + 1 \/ (m = at.block + 1 /\ j < 1)
          BY <1>2, <4>1 DEF Before
        <5> QED
          BY <1>2, <3>1, <5>1
      <4>2. CASE phase' # "fill"
        BY <1>1, <1>2, <4>2
      <4> QED
        BY <4>1, <4>2
    <3> QED
      BY <1>2, <3>1, <3>2 DEF Before
  <2> QED
    BY <1>10, <2>1
<1> QED
  BY <1>11, <1>12

-----------------------------------------------------------------------------
(* The passes after filling *)

\* Where an item is after the copy before the return was put in.
Shift(bb, i) == IF Has("ret", bb) /\ i >= First("ret", bb) THEN i + 1 ELSE i

\* All items stay, in their order; the copy comes right before the return, and belongs
\* to the same instruction.
LEMMA SavedItems ==
    ASSUME NEW bb \in Seq(Items)
    PROVE  LET sb == SavedBlock(bb)
           IN  /\ Len(bb) \in Nat /\ Len(sb) \in Nat
               /\ \A i \in 1..Len(bb) : Shift(bb, i) \in 1..Len(sb) /\ sb[Shift(bb, i)] = bb[i]
               /\ \A i \in 1..Len(bb) : \A j \in 1..i : Shift(bb, j) <= Shift(bb, i)
               /\ \A j \in 1..Len(sb) :
                    \/ \E i \in 1..Len(bb) : j = Shift(bb, i)
                    \/ /\ j \in 1..Len(bb) /\ bb[j].kind = "ret" /\ j <= Shift(bb, j)
                       /\ sb[j].of = bb[j].of
               /\ \A i \in 1..Len(bb) : i < Len(bb) =>
                    /\ Shift(bb, i) < Len(sb)
                    /\ \/ sb[Shift(bb, i) + 1] = bb[i + 1]
                       \/ /\ bb[i + 1].kind = "ret"
                          /\ sb[Shift(bb, i) + 1].of = bb[i + 1].of
                          /\ sb[Shift(bb, i) + 1].to = << >>
               /\ Len(bb) > 0 => Len(sb) > 0 /\ sb[1].of = bb[1].of
<1> DEFINE sb == SavedBlock(bb)
           k == First("ret", bb)
<1>1. Len(bb) \in Nat
  BY LenProperties
<1>2. CASE ~Has("ret", bb)
  <2>1. sb = bb /\ \A i : Shift(bb, i) = i
    BY <1>2 DEF SavedBlock, Shift
  <2> HIDE DEF sb
  <2>2. \A i \in 1..Len(bb) : i < Len(bb) => bb[i + 1] = sb[i + 1]
    BY <2>1
  <2>3. \A i \in 1..Len(bb) : \A j \in 1..i : j <= i
    BY <1>1
  <2> QED
    BY <1>1, <2>1, <2>2, <2>3 DEF sb
<1>3. CASE Has("ret", bb)
  <2>1. k \in 1..Len(bb) /\ bb[k].kind = "ret"
    BY <1>3, FirstIs
  <2>2. /\ Len(sb) = Len(bb) + 1
        /\ \A i \in 1..(k - 1) : sb[i] = bb[i]
        /\ sb[k].kind = "save" /\ sb[k].of = bb[k].of /\ sb[k].to = << >>
        /\ \A i \in (k + 1)..(Len(bb) + 1) : sb[i] = bb[i - 1]
    BY <1>3, SavedBlockIs
  <2>3. \A i : Shift(bb, i) = IF i >= k THEN i + 1 ELSE i
    BY <1>3 DEF Shift
  <2> HIDE DEF sb, k
  <2>4. \A i \in 1..Len(bb) : Shift(bb, i) \in 1..Len(sb) /\ sb[Shift(bb, i)] = bb[i]
    <3> SUFFICES ASSUME NEW i \in 1..Len(bb)
                 PROVE  Shift(bb, i) \in 1..Len(sb) /\ sb[Shift(bb, i)] = bb[i]
      OBVIOUS
    <3>1. CASE i >= k
      <4>1. i + 1 \in (k + 1)..(Len(bb) + 1) /\ (i + 1) - 1 = i /\ i + 1 \in 1..(Len(bb) + 1)
        BY <1>1, <2>1, <3>1
      <4>2. sb[i + 1] = bb[i]
        BY <2>2, <4>1
      <4> QED
        BY <2>2, <2>3, <3>1, <4>1, <4>2
    <3>2. CASE ~(i >= k)
      <4>1. i \in 1..(k - 1) /\ i \in 1..(Len(bb) + 1)
        BY <1>1, <2>1, <3>2
      <4> QED
        BY <2>2, <2>3, <3>2, <4>1
    <3> QED
      BY <3>1, <3>2
  <2>5. \A i \in 1..Len(bb) : \A j \in 1..i : Shift(bb, j) <= Shift(bb, i)
    BY <1>1, <2>1, <2>3
  <2>6. \A j \in 1..Len(sb) :
            \/ \E i \in 1..Len(bb) : j = Shift(bb, i)
            \/ /\ j \in 1..Len(bb) /\ bb[j].kind = "ret" /\ j <= Shift(bb, j)
               /\ sb[j].of = bb[j].of
    <3> SUFFICES ASSUME NEW j \in 1..Len(sb), j # k
                 PROVE  \E i \in 1..Len(bb) : j = Shift(bb, i)
      BY <1>1, <2>1, <2>2, <2>3
    <3>1. CASE j < k
      <4>1. j \in 1..Len(bb) /\ ~(j >= k)
        BY <1>1, <2>1, <3>1
      <4> QED
        BY <2>3, <4>1
    <3>2. CASE j > k
      <4>1. j - 1 \in 1..Len(bb) /\ j - 1 >= k /\ (j - 1) + 1 = j
        BY <1>1, <2>1, <2>2, <3>2
      <4> QED
        BY <2>3, <4>1
    <3> QED
      BY <1>1, <2>1, <2>2, <3>1, <3>2
  <2>7. \A i \in 1..Len(bb) : i < Len(bb) =>
            /\ Shift(bb, i) < Len(sb)
            /\ \/ sb[Shift(bb, i) + 1] = bb[i + 1]
               \/ /\ bb[i + 1].kind = "ret"
                  /\ sb[Shift(bb, i) + 1].of = bb[i + 1].of
                  /\ sb[Shift(bb, i) + 1].to = << >>
    <3> SUFFICES ASSUME NEW i \in 1..Len(bb), i < Len(bb)
                 PROVE  /\ Shift(bb, i) < Len(sb)
                        /\ \/ sb[Shift(bb, i) + 1] = bb[i + 1]
                           \/ /\ bb[i + 1].kind = "ret"
                              /\ sb[Shift(bb, i) + 1].of = bb[i + 1].of
                              /\ sb[Shift(bb, i) + 1].to = << >>
      OBVIOUS
    <3>1. CASE i >= k
      <4>1. /\ (i + 1) + 1 \in (k + 1)..(Len(bb) + 1) /\ ((i + 1) + 1) - 1 = i + 1
            /\ i + 1 < Len(bb) + 1
        BY <1>1, <2>1, <3>1
      <4>2. sb[(i + 1) + 1] = bb[i + 1]
        BY <2>2, <4>1
      <4> QED
        BY <2>2, <2>3, <3>1, <4>1, <4>2
    <3>2. CASE i + 1 = k
      <4>1. ~(i >= k) /\ i < Len(bb) + 1
        BY <1>1, <3>2
      <4> QED
        BY <2>1, <2>2, <2>3, <3>2, <4>1
    <3>3. CASE i + 1 < k
      <4>1. i + 1 \in 1..(k - 1) /\ ~(i >= k) /\ i < Len(bb) + 1
        BY <1>1, <2>1, <3>3
      <4> QED
        BY <2>2, <2>3, <4>1
    <3> QED
      BY <1>1, <2>1, <3>1, <3>2, <3>3
  <2>8. Len(sb) > 0 /\ sb[1].of = bb[1].of
    <3>1. k = 1 \/ 1 \in 1..(k - 1)
      BY <1>1, <2>1
    <3> QED
      BY <1>1, <2>2, <3>1
  <2> QED
    BY <1>1, <2>2, <2>4, <2>5, <2>6, <2>7, <2>8 DEF sb
<1> QED
  BY <1>2, <1>3

\* The eraser takes loads only.
LEMMA ErasedItems ==
    ASSUME NEW bb \in Seq(Items), Shaped(bb)
    PROVE  LET eb == ErasedBlock(bb)
           IN  /\ Len(bb) \in Nat /\ Len(eb) \in Nat /\ Len(eb) <= Len(bb)
               /\ \A i \in 1..Len(eb) : eb[i] = bb[i] /\ i \in 1..Len(bb)
               /\ \A i \in 1..Len(bb) : bb[i].kind # "load" =>
                    /\ i \in 1..Len(eb)
                    /\ i < Len(bb) /\ ~IsTerminator(bb[i]) => i < Len(eb)
               /\ Len(bb) > 0 => Len(eb) > 0
<1> DEFINE eb == ErasedBlock(bb)
           k == First("condbr", bb)
<1>1. Len(bb) \in Nat
  BY LenProperties
<1>2. CASE ~Has("condbr", bb)
  <2>1. eb = bb
    BY <1>2 DEF ErasedBlock
  <2> HIDE DEF eb
  <2> QED
    BY <1>1, <2>1 DEF eb
<1>3. CASE Has("condbr", bb)
  <2>1. k \in 1..Len(bb) /\ bb[k].kind = "condbr"
    BY <1>3, FirstIs
  <2>2. Len(eb) = k /\ \A i \in 1..k : eb[i] = bb[i]
    BY <1>3, ErasedBlockIs
  <2> HIDE DEF eb, k
  <2>3. IsTerminator(bb[k])
    BY <2>1 DEF IsTerminator
  <2>4. \A i \in 1..Len(bb) : bb[i].kind # "load" =>
            /\ i \in 1..Len(eb)
            /\ i < Len(bb) /\ ~IsTerminator(bb[i]) => i < Len(eb)
    <3> SUFFICES ASSUME NEW i \in 1..Len(bb), bb[i].kind # "load"
                 PROVE  i \in 1..k /\ (~IsTerminator(bb[i]) => i < k)
      BY <2>2
    <3>1. i \notin (k + 1)..Len(bb)
      BY <2>1, <2>3 DEF Shaped
    <3>2. i \in 1..k
      BY <1>1, <2>1, <3>1
    <3>3. i = k \/ i < k
      BY <1>1, <2>1, <3>2
    <3> QED
      BY <2>3, <3>2, <3>3
  <2>5. \A i \in 1..k : i \in 1..Len(bb)
    BY <1>1, <2>1
  <2>6. Len(eb) \in Nat /\ Len(eb) <= Len(bb) /\ Len(eb) > 0
    BY <1>1, <2>1, <2>2
  <2> QED
    BY <1>1, <2>2, <2>4, <2>5, <2>6 DEF eb
<1> QED
  BY <1>2, <1>3

\* The copies before returns change no way.
LEMMA SaveFlow ==
    ASSUME CloneInv, IrInv, FlowInv, SaveRegistersBeforeReturn
    PROVE  FlowInv'
<1>1. /\ phase = "save" /\ phase' = "erase" /\ src' = src
      /\ Len(ir') = Len(ir) /\ Len(ir) \in Nat /\ ir \in Seq(Seq(Items))
      /\ \A c \in 1..Len(ir) : ir[c] \in Seq(Items) /\ ir'[c] = SavedBlock(ir[c])
  BY IrIs, PassesAre DEF SaveRegistersBeforeReturn, IrInv
<1>2. /\ \A m, j : O(m, j)' = O(m, j) /\ Ref(m, j)' = Ref(m, j) /\ Swallowed(m, j)' = Swallowed(m, j)
      /\ \A m : Size(m)' = Size(m)
      /\ Len(src') = Len(src)
  BY <1>1 DEF O, Ref, Swallowed, Instrs, Size
<1>3. Len(src) \in Nat
  BY FunctionIs DEF CloneInv
<1>4. \A c \in 1..Len(ir) :
        /\ Len(ir[c]) \in Nat /\ Len(ir'[c]) \in Nat
        /\ \A i \in 1..Len(ir[c]) : Shift(ir[c], i) \in 1..Len(ir'[c]) /\ ir'[c][Shift(ir[c], i)] = ir[c][i]
        /\ \A i \in 1..Len(ir[c]) : \A j \in 1..i : Shift(ir[c], j) <= Shift(ir[c], i)
        /\ \A j \in 1..Len(ir'[c]) :
             \/ \E i \in 1..Len(ir[c]) : j = Shift(ir[c], i)
             \/ /\ j \in 1..Len(ir[c]) /\ ir[c][j].kind = "ret" /\ j <= Shift(ir[c], j)
                /\ ir'[c][j].of = ir[c][j].of
        /\ \A i \in 1..Len(ir[c]) : i < Len(ir[c]) =>
             /\ Shift(ir[c], i) < Len(ir'[c])
             /\ \/ ir'[c][Shift(ir[c], i) + 1] = ir[c][i + 1]
                \/ /\ ir[c][i + 1].kind = "ret"
                   /\ ir'[c][Shift(ir[c], i) + 1].of = ir[c][i + 1].of
                   /\ ir'[c][Shift(ir[c], i) + 1].to = << >>
        /\ Len(ir[c]) > 0 => Len(ir'[c]) > 0 /\ ir'[c][1].of = ir[c][1].of
  <2> SUFFICES ASSUME NEW c \in 1..Len(ir)
               PROVE  LET bb == ir[c]
                          sb == ir'[c]
                      IN  /\ Len(bb) \in Nat /\ Len(sb) \in Nat
                          /\ \A i \in 1..Len(bb) : Shift(bb, i) \in 1..Len(sb) /\ sb[Shift(bb, i)] = bb[i]
                          /\ \A i \in 1..Len(bb) : \A j \in 1..i : Shift(bb, j) <= Shift(bb, i)
                          /\ \A j \in 1..Len(sb) :
                               \/ \E i \in 1..Len(bb) : j = Shift(bb, i)
                               \/ /\ j \in 1..Len(bb) /\ bb[j].kind = "ret" /\ j <= Shift(bb, j)
                                  /\ sb[j].of = bb[j].of
                          /\ \A i \in 1..Len(bb) : i < Len(bb) =>
                               /\ Shift(bb, i) < Len(sb)
                               /\ \/ sb[Shift(bb, i) + 1] = bb[i + 1]
                                  \/ /\ bb[i + 1].kind = "ret"
                                     /\ sb[Shift(bb, i) + 1].of = bb[i + 1].of
                                     /\ sb[Shift(bb, i) + 1].to = << >>
                          /\ Len(bb) > 0 => Len(sb) > 0 /\ sb[1].of = bb[1].of
    OBVIOUS
  <2> DEFINE bb == ir[c]
             sb == ir'[c]
  <2>1. bb \in Seq(Items) /\ sb = SavedBlock(bb)
    BY <1>1
  <2> HIDE DEF bb, sb
  <2> QED
    BY <2>1, SavedItems DEF bb, sb
<1>5. ASSUME NEW n \in 1..Len(src), NEW k \in 1..Size(n), ~Swallowed(n, k)
      PROVE  Flows(n, k)'
  <2>1. PICK b, i : Final(b, i, n, k) /\ Goes(b, i, n, k)
    BY <1>1, <1>5 DEF FlowInv, Flows
  <2>2. /\ b \in 1..Len(ir) /\ i \in 1..Len(ir[b]) /\ CodeOf(ir[b][i], n, k)
        /\ \A c \in 1..Len(ir) : \A j \in 1..Len(ir[c]) : CodeOf(ir[c][j], n, k) => c = b /\ j <= i
    BY <2>1 DEF Final
  <2>3. PICK s : s = Shift(ir[b], i)
    OBVIOUS
  <2>4. s \in 1..Len(ir'[b]) /\ ir'[b][s] = ir[b][i] /\ Len(ir[b]) \in Nat /\ Len(ir'[b]) \in Nat
    BY <1>4, <2>2, <2>3
  <2>5. Final(b, s, n, k)'
    <3>1. ASSUME NEW c \in 1..Len(ir), NEW j \in 1..Len(ir'[c]), CodeOf(ir'[c][j], n, k)
          PROVE  c = b /\ j <= s
      <4>1. CASE \E m \in 1..Len(ir[c]) : j = Shift(ir[c], m)
        <5>1. PICK m \in 1..Len(ir[c]) : j = Shift(ir[c], m)
          BY <4>1
        <5>2. CodeOf(ir[c][m], n, k)
          BY <1>4, <3>1, <5>1
        <5>3. c = b /\ m <= i
          BY <2>2, <5>2
        <5>4. m \in 1..i
          BY <2>2, <5>1, <5>3
        <5> QED
          BY <1>4, <2>2, <2>3, <5>1, <5>3, <5>4
      <4>2. CASE /\ j \in 1..Len(ir[c]) /\ ir[c][j].kind = "ret" /\ j <= Shift(ir[c], j)
                 /\ ir'[c][j].of = ir[c][j].of
        <5>1. CodeOf(ir[c][j], n, k)
          BY <3>1, <4>2 DEF CodeOf
        <5>2. c = b /\ j <= i
          BY <2>2, <4>2, <5>1
        <5>3. j \in 1..i
          BY <2>2, <4>2, <5>2
        <5>4. Shift(ir[b], j) <= s /\ j <= Shift(ir[b], j)
          BY <1>4, <2>2, <2>3, <4>2, <5>2, <5>3
        <5>5. Shift(ir[b], j) \in Nat
          BY <1>4, <4>2, <5>2
        <5> QED
          BY <2>4, <4>2, <5>2, <5>4, <5>5
      <4> QED
        BY <1>4, <4>1, <4>2
    <3> QED
      BY <1>1, <2>2, <2>4, <3>1 DEF Final, CodeOf
  <2>6. \A f, j : Opens(f, n, j) => Opens(f, n, j)'
    <3> SUFFICES ASSUME NEW f, NEW j, Opens(f, n, j) PROVE Opens(f, n, j)'
      OBVIOUS
    <3>1. f \in (Len(src) + 1)..Len(ir) /\ Len(ir[f]) > 0 /\ ir[f][1].of = <<n, j>>
      BY <1>1 DEF Opens, Awaits
    <3>2. f \in 1..Len(ir)
      BY <1>1, <1>3, <3>1
    <3> QED
      BY <1>1, <1>4, <3>1, <3>2 DEF Opens
  <2>7. Goes(b, s, n, k)'
    <3>1. CASE IsTerminator(ir[b][i]) /\ Leaves(ir[b][i].to, n, k)
      <4>1. Leaves(ir[b][s].to, n, k)'
        BY <1>2, <2>4, <2>6, <3>1 DEF Leaves
      <4> QED
        BY <2>4, <3>1, <4>1 DEF Goes, IsTerminator
    <3>2. CASE ~IsTerminator(ir[b][i]) /\ O(n, k) \notin {"jmp", "ret", "cbr"}
      <4>1. i < Len(ir[b]) /\ Continues(ir[b][i + 1], n, k)
        BY <1>1, <2>1, <3>2 DEF Goes, Awaits
      <4>2. /\ s < Len(ir'[b])
            /\ \/ ir'[b][s + 1] = ir[b][i + 1]
               \/ /\ ir[b][i + 1].kind = "ret"
                  /\ ir'[b][s + 1].of = ir[b][i + 1].of
                  /\ ir'[b][s + 1].to = << >>
        BY <1>4, <2>2, <2>3, <4>1
      <4>3. Continues(ir[b][s + 1], n, k)'
        BY <1>2, <4>1, <4>2 DEF Continues
      <4> QED
        BY <1>2, <2>4, <3>2, <4>2, <4>3 DEF Goes, IsTerminator
    <3> QED
      BY <2>1, <3>1, <3>2 DEF Goes
  <2> QED
    BY <2>5, <2>7 DEF Flows
<1> QED
  BY <1>1, <1>2, <1>5 DEF FlowInv

\* The eraser changes no way.
LEMMA EraseFlow ==
    ASSUME CloneInv, IrInv, ShapeInv, FlowInv, EraseRedundantBranches
    PROVE  FlowInv'
<1>1. /\ phase = "erase" /\ phase' = "done" /\ src' = src
      /\ Len(ir') = Len(ir) /\ Len(ir) \in Nat /\ ir \in Seq(Seq(Items))
      /\ \A c \in 1..Len(ir) : ir[c] \in Seq(Items) /\ ir'[c] = ErasedBlock(ir[c])
  BY IrIs, PassesAre DEF EraseRedundantBranches, IrInv
<1>2. /\ \A m, j : O(m, j)' = O(m, j) /\ Ref(m, j)' = Ref(m, j) /\ Swallowed(m, j)' = Swallowed(m, j)
      /\ \A m : Size(m)' = Size(m)
      /\ Len(src') = Len(src)
  BY <1>1 DEF O, Ref, Swallowed, Instrs, Size
<1>3. Len(src) \in Nat
  BY FunctionIs DEF CloneInv
<1>4. \A c \in 1..Len(ir) :
        /\ Len(ir[c]) \in Nat /\ Len(ir'[c]) \in Nat /\ Len(ir'[c]) <= Len(ir[c])
        /\ \A i \in 1..Len(ir'[c]) : ir'[c][i] = ir[c][i] /\ i \in 1..Len(ir[c])
        /\ \A i \in 1..Len(ir[c]) : ir[c][i].kind # "load" =>
                /\ i \in 1..Len(ir'[c])
                /\ i < Len(ir[c]) /\ ~IsTerminator(ir[c][i]) => i < Len(ir'[c])
        /\ Len(ir[c]) > 0 => Len(ir'[c]) > 0
  <2>1. \A c \in 1..Len(ir) : Shaped(ir[c])
    BY <1>1 DEF ShapeInv
  <2> QED
    BY <1>1, <2>1, ErasedItems
<1>5. ASSUME NEW n \in 1..Len(src), NEW k \in 1..Size(n), ~Swallowed(n, k)
      PROVE  Flows(n, k)'
  <2>1. PICK b, i : Final(b, i, n, k) /\ Goes(b, i, n, k)
    BY <1>1, <1>5 DEF FlowInv, Flows
  <2>2. /\ b \in 1..Len(ir) /\ i \in 1..Len(ir[b]) /\ CodeOf(ir[b][i], n, k)
        /\ \A c \in 1..Len(ir) : \A j \in 1..Len(ir[c]) : CodeOf(ir[c][j], n, k) => c = b /\ j <= i
    BY <2>1 DEF Final
  <2>3. i \in 1..Len(ir'[b]) /\ ir'[b][i] = ir[b][i]
    BY <1>4, <2>2 DEF CodeOf
  <2>4. Final(b, i, n, k)'
    <3>1. ASSUME NEW c \in 1..Len(ir), NEW j \in 1..Len(ir'[c]), CodeOf(ir'[c][j], n, k)
          PROVE  c = b /\ j <= i
      <4>1. ir'[c][j] = ir[c][j] /\ j \in 1..Len(ir[c])
        BY <1>4
      <4> QED
        BY <2>2, <3>1, <4>1
    <3> QED
      BY <1>1, <2>2, <2>3, <3>1 DEF Final, CodeOf
  <2>5. \A f, j : Opens(f, n, j) => Opens(f, n, j)'
    <3> SUFFICES ASSUME NEW f, NEW j, Opens(f, n, j) PROVE Opens(f, n, j)'
      OBVIOUS
    <3>1. f \in (Len(src) + 1)..Len(ir) /\ Len(ir[f]) > 0 /\ ir[f][1].of = <<n, j>>
      BY <1>1 DEF Opens, Awaits
    <3>2. f \in 1..Len(ir)
      BY <1>1, <1>3, <3>1
    <3>3. Len(ir'[f]) > 0 /\ 1 \in 1..Len(ir'[f])
      BY <1>4, <3>1, <3>2
    <3> QED
      BY <1>1, <1>4, <3>1, <3>2, <3>3 DEF Opens
  <2>6. Goes(b, i, n, k)'
    <3>1. CASE IsTerminator(ir[b][i]) /\ Leaves(ir[b][i].to, n, k)
      <4>1. Leaves(ir[b][i].to, n, k)'
        BY <1>2, <2>3, <2>5, <3>1 DEF Leaves
      <4> QED
        BY <2>3, <3>1, <4>1 DEF Goes, IsTerminator
    <3>2. CASE ~IsTerminator(ir[b][i]) /\ O(n, k) \notin {"jmp", "ret", "cbr"}
      <4>1. i < Len(ir[b]) /\ Continues(ir[b][i + 1], n, k)
        BY <1>1, <2>1, <3>2 DEF Goes, Awaits
      <4>2. i < Len(ir'[b]) /\ Len(ir'[b]) \in Nat
        BY <1>4, <2>2, <3>2, <4>1 DEF CodeOf
      <4>3. i + 1 \in 1..Len(ir'[b])
        BY <2>3, <4>2
      <4>4. ir'[b][i + 1] = ir[b][i + 1]
        BY <1>4, <2>2, <4>3
      <4>5. Continues(ir[b][i + 1], n, k)'
        BY <1>2, <4>1, <4>4 DEF Continues
      <4> QED
        BY <1>2, <2>3, <3>2, <4>2, <4>5 DEF Goes, IsTerminator
    <3> QED
      BY <2>1, <3>1, <3>2 DEF Goes
  <2> QED
    BY <2>4, <2>6 DEF Flows
<1> QED
  BY <1>1, <1>2, <1>5 DEF FlowInv

-----------------------------------------------------------------------------
(* The invariant *)

\* At first there is the prologue, and nothing has been lifted.
LEMMA StartFlow ==
    ASSUME CloneInv, IrInv, RetargetBlock
    PROVE  Ordered' /\ FlowInv'
<1> DEFINE item == [kind |-> "prologue", of |-> <<1, 0>>, to |-> << >>]
           first == <<item>>
<1>1. /\ phase = "retarget" /\ src' = src
      /\ IF at.block < Len(dst) THEN phase' = "retarget"
         ELSE phase' = "fill" /\ ir' = [ir EXCEPT ![1] = first] /\ at' = [block |-> 1, inst |-> 1]
  BY DEF RetargetBlock
<1>2. /\ ir \in Seq(Seq(Items)) /\ \A n \in 1..Len(ir) : ir[n] = << >>
      /\ Len(ir) = Len(dst) /\ Len(dst) = Len(src) /\ Len(src) \in Nat \ {0}
  BY <1>1, IrIs DEF IrInv, CloneInv
<1>3. item \in Items /\ item.of = <<1, 0>>
  BY DEF Items, ItemKind
<1> HIDE DEF item
<1>4. first \in Seq(Items) /\ Len(first) = 1 /\ first[1] = item
  BY <1>3, OneItem
<1> HIDE DEF first
<1> SUFFICES ASSUME phase' = "fill", ir' = [ir EXCEPT ![1] = first], at' = [block |-> 1, inst |-> 1]
             PROVE  Ordered' /\ FlowInv'
  BY <1>1 DEF Ordered, FlowInv
<1>5. at'.block = 1 /\ at'.inst = 1
  OBVIOUS
<1>6. Ordered'
  <2>1. 1 \in 1..Len(ir)
    BY <1>2
  <2>2. /\ Len(ir') = Len(ir)
        /\ \A n \in 1..Len(ir) : ir'[n] = IF n = 1 THEN first ELSE ir[n]
    BY <1>2, <1>4, <2>1, ExceptSeq
  <2>3. Len(<< >>) = 0
    BY EmptySeq
  <2>4. ASSUME NEW b \in 1..Len(ir'), NEW i \in 1..Len(ir'[b]) PROVE Before(ir[b][i].of)'
    <3>1. b = 1
      BY <1>2, <2>2, <2>3
    <3>2. i = 1
      <4>1. Len(ir'[b]) = 1
        BY <1>4, <2>1, <2>2, <3>1
      <4>2. \A m, j : m = 1 /\ j \in 1..m => j = 1
        OBVIOUS
      <4> QED
        BY <2>4, <4>1, <4>2
    <3>3. ir'[b][i].of = <<1, 0>>
      BY <1>3, <1>4, <2>1, <2>2, <3>1, <3>2
    <3> QED
      BY <1>5, <3>3 DEF Before
  <2> QED
    BY <2>4 DEF Ordered
<1>7. FlowInv'
  <2> SUFFICES ASSUME NEW n \in 1..Len(src), NEW k \in 1..Size(n), Before(<<n, k>>)' PROVE FALSE
    <3>1. Len(src') = Len(src) /\ \A m : Size(m)' = Size(m)
      BY <1>1 DEF Size
    <3> QED
      BY <3>1 DEF FlowInv
  <2>1. n \in Nat \ {0} /\ k \in Nat \ {0}
    BY <1>2, FunctionIs DEF CloneInv
  <2> QED
    BY <1>5, <2>1 DEF Before
<1> QED
  BY <1>6, <1>7

\* One case for each step.
LEMMA FlowNext ==
    ASSUME CloneInv, IrInv, WellFormed(src), phase # "rejected", ShapeInv, Ordered, FlowInv,
           [Next]_vars
    PROVE  Ordered' /\ FlowInv'
<1>1. phase' # "rejected"
  BY WellFormedStays
<1>2. CASE UNCHANGED vars
  <2>1. src' = src /\ ir' = ir /\ phase' = phase /\ at' = at /\ ip' = ip
    BY <1>2 DEF vars
  <2>2. (\A k : OpAt(k)' = OpAt(k)) /\ Size(at.block)' = Size(at.block)
    BY <2>1, SameOps
  <2>3. /\ \A m, j : O(m, j)' = O(m, j) /\ Ref(m, j)' = Ref(m, j) /\ Swallowed(m, j)' = Swallowed(m, j)
        /\ \A m : Size(m)' = Size(m)
        /\ \A p : Before(p)' = Before(p)
    BY <2>1 DEF O, Ref, Swallowed, Instrs, Size, Before
  <2>4. \A b, i, n, k : Final(b, i, n, k) => Final(b, i, n, k)'
    <3> SUFFICES ASSUME NEW b, NEW i, NEW n, NEW k, Final(b, i, n, k) PROVE Final(b, i, n, k)'
      OBVIOUS
    <3> QED
      BY <2>1 DEF Final, CodeOf
  <2>5. \A b, n, k : Awaits(b, n, k) => Awaits(b, n, k)'
    BY <2>1, <2>2 DEF Awaits, Closed
  <2>6. \A f, n, k : Opens(f, n, k) => Opens(f, n, k)'
    BY <2>1, <2>5 DEF Opens
  <2>7. \A to, n, k : Leaves(to, n, k) => Leaves(to, n, k)'
    BY <2>1, <2>3, <2>6 DEF Leaves
  <2>8. \A b, i, n, k : Goes(b, i, n, k) => Goes(b, i, n, k)'
    BY <2>1, <2>3, <2>5, <2>7 DEF Goes, Continues, IsTerminator
  <2>9. \A n, k : Flows(n, k) => Flows(n, k)'
    BY <2>4, <2>8 DEF Flows
  <2>10. Ordered'
    BY <2>1, <2>3 DEF Ordered
  <2>11. FlowInv'
    BY <2>1, <2>3, <2>9 DEF FlowInv
  <2> QED
    BY <2>10, <2>11
<1>3. CASE Next
  <2>1. CASE CloneBlock
    BY <2>1 DEF CloneBlock, Ordered, FlowInv
  <2>2. CASE RetargetBlock
    BY <2>2, StartFlow
  <2>3. CASE Grows
    BY <2>3, GrowsFlow
  <2>4. CASE GenerateBranch
    BY <1>1, <2>4, BranchFlow
  <2>5. CASE FinishBlock
    BY <1>1, <2>5, FinishFlow
  <2>6. CASE SaveRegistersBeforeReturn
    <3>1. Ordered'
      BY <2>6 DEF SaveRegistersBeforeReturn, Ordered
    <3> QED
      BY <2>6, <3>1, SaveFlow
  <2>7. CASE EraseRedundantBranches
    <3>1. Ordered'
      BY <2>7 DEF EraseRedundantBranches, Ordered
    <3> QED
      BY <2>7, <3>1, EraseFlow
  <2>8. ~Reject
    BY <1>1 DEF Reject
  <2> QED
    BY <1>3, <2>1, <2>2, <2>3, <2>4, <2>5, <2>6, <2>7, <2>8, Steps
<1> QED
  BY <1>2, <1>3

\* For well-formed functions.
LEMMA FlowHolds ==
    ASSUME \A mf \in Functions : WellFormed(mf)
    PROVE  Spec => [](GeneralInv /\ FlowInv)
<1>1. Init => Ordered /\ FlowInv /\ NeverRejects
  BY DEF Init, Ordered, FlowInv, NeverRejects
<1>2. GeneralInv /\ ShapeInv /\ NeverRejects /\ Ordered /\ FlowInv /\ [Next]_vars
        => NeverRejects' /\ Ordered' /\ FlowInv'
  BY FlowNext, WellFormedStays DEF GeneralInv, CloneInv, NeverRejects
<1>3. Spec => [](GeneralInv /\ ShapeInv)
  BY ShapeHolds
<1> QED
  BY <1>1, <1>2, <1>3, PTL DEF Spec

-----------------------------------------------------------------------------
(* The control flow of the IR *)

\* Branches go to blocks of the function.
LEMMA RefIs ==
    ASSUME src \in Functions, WellFormed(src), NEW n \in 1..Len(src), NEW k \in 1..Size(n),
           O(n, k) \in {"cbr", "jmp"}
    PROVE  Ref(n, k) \in 1..Len(src)
<1>1. /\ DOMAIN src = 1..Len(src) /\ DOMAIN Instrs(n) = 1..Size(n)
      /\ \A s \in DOMAIN src[n].succs : src[n].succs[s] \in 1..Len(src)
  BY FunctionIs
<1>2. Ref(n, k) = n \/ \E s \in DOMAIN src[n].succs : src[n].succs[s] = Ref(n, k)
  BY <1>1 DEF WellFormed, O, Ref, Instrs
<1> QED
  BY <1>1, <1>2

\* The code the IR leaves an instruction from is that of the invariant.
LEMMA FinalIs ==
    ASSUME CloneInv, IrInv, NEW b, NEW i, NEW n, NEW k, Final(b, i, n, k)
    PROVE  IRNext(n, k) = IF IsTerminator(ir[b][i]) THEN Targets(ir[b][i])
                          ELSE IF Closing(ir[b][i + 1]) THEN Targets(ir[b][i + 1])
                          ELSE {ir[b][i + 1].of}
<1> DEFINE Code == {c \in UNION {{m} \X DOMAIN ir[m] : m \in DOMAIN ir} :
                        /\ ir[c[1]][c[2]].of = <<n, k>> /\ ir[c[1]][c[2]].kind # "load"}
           final == CHOOSE c \in Code : \A d \in Code : d[1] = c[1] => d[2] <= c[2]
<1>1. /\ DOMAIN ir = 1..Len(ir) /\ \A m \in 1..Len(ir) : DOMAIN ir[m] = 1..Len(ir[m])
      /\ \A m \in 1..Len(ir) : Len(ir[m]) \in Nat
  <2>1. ir \in Seq(Seq(Items)) /\ \A m \in 1..Len(ir) : ir[m] \in Seq(Items)
    BY IrIs DEF IrInv
  <2> QED
    BY <2>1, LenProperties
<1>2. /\ b \in 1..Len(ir) /\ i \in 1..Len(ir[b]) /\ CodeOf(ir[b][i], n, k)
      /\ \A c \in 1..Len(ir) : \A j \in 1..Len(ir[c]) : CodeOf(ir[c][j], n, k) => c = b /\ j <= i
  BY DEF Final
<1>3. <<b, i>> \in Code
  BY <1>1, <1>2 DEF CodeOf
<1>4. \A c \in Code : /\ c = <<c[1], c[2]>> /\ c[1] = b /\ c[2] <= i /\ c[2] \in 1..Len(ir[b])
  <2> SUFFICES ASSUME NEW c \in Code
               PROVE  c = <<c[1], c[2]>> /\ c[1] = b /\ c[2] <= i /\ c[2] \in 1..Len(ir[b])
    OBVIOUS
  <2>1. PICK m \in 1..Len(ir) : c \in {m} \X (1..Len(ir[m]))
    BY <1>1
  <2>2. c = <<c[1], c[2]>> /\ c[1] = m /\ c[2] \in 1..Len(ir[m])
    BY <2>1
  <2>3. CodeOf(ir[m][c[2]], n, k)
    BY <2>2 DEF CodeOf
  <2> QED
    BY <1>2, <2>2, <2>3
<1> HIDE DEF Code
<1>5. \A d \in Code : d[1] = <<b, i>>[1] => d[2] <= <<b, i>>[2]
  BY <1>4
<1>6. final \in Code /\ \A d \in Code : d[1] = final[1] => d[2] <= final[2]
  BY <1>3, <1>5
<1> HIDE DEF final
<1>7. final[1] = b /\ final[2] <= i /\ final[2] \in 1..Len(ir[b])
  BY <1>4, <1>6
<1>8. i <= final[2]
  BY <1>3, <1>6, <1>7
<1>9. final[2] = i
  BY <1>1, <1>2, <1>7, <1>8
<1>10. IRNext(n, k) =
        IF IsTerminator(ir[final[1]][final[2]]) THEN Targets(ir[final[1]][final[2]])
        ELSE IF Closing(ir[final[1]][final[2] + 1]) THEN Targets(ir[final[1]][final[2] + 1])
        ELSE {ir[final[1]][final[2] + 1].of}
  BY DEF IRNext, final, Code
<1> QED
  BY <1>7, <1>9, <1>10

\* The IR of a well-formed function, in which calls are where they can be lifted, goes from
\* the code of every instruction to that of the instructions the machine function goes to:
\* through the if_false blocks, the blocks that fall through and the branches that were
\* moved to the clones (lifter.cpp:97-121, 642-716, 1225-1256,
\* redundant-branch-eraser.cpp:28-37).
THEOREM LiftFlowKept ==
    ASSUME \A mf \in Functions : WellFormed(mf) /\ TransfersLast(mf)
    PROVE  Spec => []FlowKept
<1>1. ASSUME CloneInv, IrInv, FlowInv PROVE FlowKept
  <2> SUFFICES ASSUME phase = "done", NEW n \in DOMAIN src, NEW k \in DOMAIN src[n].instrs,
                      ~(k > 1 /\ src[n].instrs[k].op = "jmp" /\ src[n].instrs[k - 1].op = "cbr")
               PROVE  IRNext(n, k) = MIRNext(n, k)
    BY DEF FlowKept
  <2>1. /\ src \in Functions /\ n \in 1..Len(src) /\ Len(src) \in Nat /\ Size(n) \in Nat
        /\ k \in 1..Size(n) /\ DOMAIN src = 1..Len(src) /\ DOMAIN Instrs(n) = 1..Size(n)
        /\ O(n, k) \in Op
    <3>1. src \in Functions
      BY <1>1 DEF CloneInv
    <3>2. n \in 1..Len(src) /\ Len(src) \in Nat /\ DOMAIN src = 1..Len(src)
      BY <3>1, FunctionIs
    <3>3. Size(n) \in Nat /\ DOMAIN Instrs(n) = 1..Size(n)
          /\ \A j \in 1..Size(n) : Instrs(n)[j].op \in Op
      BY <3>1, <3>2, FunctionIs
    <3>4. k \in DOMAIN Instrs(n)
      BY DEF Instrs
    <3> QED
      BY <3>1, <3>2, <3>3, <3>4 DEF O
  <2>2. ~Swallowed(n, k)
    BY DEF Swallowed, O, Instrs
  <2>3. PICK b, i : Final(b, i, n, k) /\ Goes(b, i, n, k)
    BY <1>1, <2>1, <2>2 DEF FlowInv, Flows
  <2>4. IRNext(n, k) = IF IsTerminator(ir[b][i]) THEN Targets(ir[b][i])
                       ELSE IF Closing(ir[b][i + 1]) THEN Targets(ir[b][i + 1])
                       ELSE {ir[b][i + 1].of}
    BY <1>1, <2>3, FinalIs
  <2> DEFINE After == IF k = Size(n) THEN {<<n + 1, 1>>}
                      ELSE IF O(n, k) = "cbr" /\ O(n, k + 1) = "jmp" THEN {<<Ref(n, k + 1), 1>>}
                      ELSE {<<n, k + 1>>}
  <2>5. MIRNext(n, k) =
            (IF O(n, k) \in {"cbr", "jmp"} THEN {<<Ref(n, k), 1>>} ELSE {})
                \cup (IF O(n, k) \in {"plain", "cbr", "call", "jalr"} THEN After ELSE {})
    BY DEF MIRNext, O, Ref, Size, Instrs
  <2>6. \A m \in 1..Len(src) : Starts(m) = <<m, 1>>
    BY <2>1 DEF Starts
  <2>7. CASE IsTerminator(ir[b][i]) /\ Leaves(ir[b][i].to, n, k)
    <3> DEFINE to == ir[b][i].to
    <3>1. IRNext(n, k) = {Starts(to[t]) : t \in DOMAIN to}
      BY <2>4, <2>7 DEF Targets
    <3> HIDE DEF to, After
    <3>2. CASE O(n, k) = "jmp" /\ to = <<Ref(n, k)>>
      <4>1. Ref(n, k) \in 1..Len(src)
        BY <1>1, <2>1, <3>2, RefIs
      <4>2. DOMAIN to = {1} /\ to[1] = Ref(n, k)
        BY <3>2
      <4>3. IRNext(n, k) = {<<Ref(n, k), 1>>}
        BY <2>6, <3>1, <4>1, <4>2
      <4> QED
        BY <2>5, <3>2, <4>3
    <3>3. CASE O(n, k) = "ret" /\ to = << >>
      <4>1. DOMAIN to = {}
        BY <3>3
      <4>2. IRNext(n, k) = {}
        BY <3>1, <4>1
      <4> QED
        BY <2>5, <3>3, <4>2
    <3>4. CASE O(n, k) = "cbr" /\ \E f : to = <<Ref(n, k), f>> /\
                    \/ k = Size(n) /\ n < Len(src) /\ f = n + 1
                    \/ k < Size(n) /\ O(n, k + 1) = "jmp" /\ f = Ref(n, k + 1)
                    \/ k < Size(n) /\ O(n, k + 1) # "jmp" /\ Opens(f, n, k + 1)
      <4>1. PICK f : /\ to = <<Ref(n, k), f>>
                     /\ \/ k = Size(n) /\ n < Len(src) /\ f = n + 1
                        \/ k < Size(n) /\ O(n, k + 1) = "jmp" /\ f = Ref(n, k + 1)
                        \/ k < Size(n) /\ O(n, k + 1) # "jmp" /\ Opens(f, n, k + 1)
        BY <3>4
      <4>2. DOMAIN to = {1, 2} /\ to[1] = Ref(n, k) /\ to[2] = f
        BY <4>1
      <4>3. Ref(n, k) \in 1..Len(src)
        BY <1>1, <2>1, <3>4, RefIs
      <4>4. After = {Starts(f)}
        <5>1. CASE k = Size(n)
          <6>1. f = n + 1 /\ n + 1 \in 1..Len(src)
            BY <2>1, <4>1, <5>1
          <6> QED
            BY <2>6, <5>1, <6>1 DEF After
        <5>2. CASE k < Size(n) /\ O(n, k + 1) = "jmp"
          <6>1. k + 1 \in 1..Size(n) /\ k # Size(n) /\ f = Ref(n, k + 1)
            BY <2>1, <4>1, <5>2
          <6>2. f \in 1..Len(src)
            BY <1>1, <2>1, <5>2, <6>1, RefIs
          <6> QED
            BY <2>6, <3>4, <5>2, <6>1, <6>2 DEF After
        <5>3. CASE k < Size(n) /\ O(n, k + 1) # "jmp"
          <6>1. k # Size(n) /\ Opens(f, n, k + 1)
            BY <2>1, <4>1, <5>3
          <6>2. ~(f <= Len(src)) /\ ir[f][1].of = <<n, k + 1>>
            BY <2>1, <6>1 DEF Opens, Awaits
          <6>3. Starts(f) = <<n, k + 1>>
            BY <6>2 DEF Starts
          <6> QED
            BY <5>3, <6>1, <6>3 DEF After
        <5> QED
          BY <2>1, <5>1, <5>2, <5>3
      <4>5. IRNext(n, k) = {<<Ref(n, k), 1>>, Starts(f)}
        <5>1. Starts(Ref(n, k)) = <<Ref(n, k), 1>>
          BY <2>6, <4>3
        <5>2. {Starts(to[t]) : t \in {1, 2}} = {Starts(to[1]), Starts(to[2])}
          OBVIOUS
        <5> QED
          BY <3>1, <4>2, <5>1, <5>2
      <4>6. MIRNext(n, k) = {<<Ref(n, k), 1>>} \cup After
        BY <2>5, <3>4
      <4> QED
        BY <4>4, <4>5, <4>6
    <3> QED
      BY <2>7, <3>2, <3>3, <3>4 DEF Leaves, to
  <2>8. CASE ~IsTerminator(ir[b][i]) /\ O(n, k) \notin {"jmp", "ret", "cbr"}
    <3> DEFINE next == ir[b][i + 1]
    <3>1. Continues(next, n, k)
      BY <2>3, <2>8 DEF Goes, Awaits
    <3>2. IRNext(n, k) = IF Closing(next) THEN Targets(next) ELSE {next.of}
      BY <2>4, <2>8
    <3> HIDE DEF next, After
    <3>3. O(n, k) \in {"plain", "call", "tail", "jalr", "jr"}
          /\ (O(n, k) \in {"tail", "jr"} => k = Size(n))
          /\ (O(n, k) \in {"call", "jalr"} => k < Size(n))
      <4>1. TransfersLast(src)
        BY <2>1
      <4>2. /\ O(n, k) \in {"tail", "jr"} => k = Size(n)
            /\ O(n, k) \in {"call", "jalr"} => k < Size(n)
            /\ O(n, k) # "brind"
        BY <2>1, <4>1 DEF TransfersLast, O, Size, Instrs
      <4> QED
        BY <2>1, <2>8, <4>2 DEF Op
    <3>4. next.of = <<n, k + 1>>
      BY <3>1 DEF Continues
    <3>5. Closing(next) <=> k = Size(n)
      <4>1. Closing(next) <=> k + 1 > Size(n)
        BY <3>4 DEF Closing, Size
      <4> QED
        BY <2>1, <4>1
    <3>6. CASE k = Size(n)
      <4>1. IRNext(n, k) = {Starts(next.to[t]) : t \in DOMAIN next.to}
        BY <3>2, <3>5, <3>6 DEF Targets
      <4>2. CASE O(n, k) = "plain"
        <5>1. n < Len(src) /\ next.to = <<n + 1>>
          BY <3>1, <3>6, <4>2 DEF Continues
        <5>2. DOMAIN next.to = {1} /\ next.to[1] = n + 1 /\ n + 1 \in 1..Len(src)
          BY <2>1, <5>1
        <5>3. IRNext(n, k) = {<<n + 1, 1>>}
          BY <2>6, <4>1, <5>2
        <5> QED
          BY <2>5, <3>6, <4>2, <5>3 DEF After
      <4>3. CASE O(n, k) \in {"tail", "jr"}
        <5>1. next.to = << >>
          BY <3>1, <3>6, <4>3 DEF Continues
        <5>2. DOMAIN next.to = {}
          BY <5>1
        <5>3. IRNext(n, k) = {}
          BY <4>1, <5>2
        <5> QED
          BY <2>5, <4>3, <5>3
      <4> QED
        BY <2>1, <3>3, <3>6, <4>2, <4>3
    <3>7. CASE k # Size(n)
      <4>1. IRNext(n, k) = {<<n, k + 1>>}
        BY <3>2, <3>4, <3>5, <3>7
      <4>2. O(n, k) \in {"plain", "call", "jalr"}
        BY <3>3, <3>7
      <4> QED
        BY <2>5, <3>7, <4>1, <4>2 DEF After
    <3> QED
      BY <3>6, <3>7
  <2> QED
    BY <2>3, <2>7, <2>8 DEF Goes
<1>2. Spec => [](GeneralInv /\ FlowInv)
  BY FlowHolds
<1>3. GeneralInv /\ FlowInv => FlowKept
  BY <1>1 DEF GeneralInv
<1> QED
  BY <1>2, <1>3, PTL

=============================================================================
