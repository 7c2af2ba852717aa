-------------------------- MODULE TranslatorProofs --------------------------
(***************************************************************************)
(* Theorems about Translator, for every object file.  Types and blocks are *)
(* right whatever the bytes are; addresses, flow and successors are those  *)
(* of the machine code in structured object files.                         *)
(***************************************************************************)
EXTENDS Translator, FiniteSetTheorems, SequenceTheorems, TLAPS

-----------------------------------------------------------------------------
(* Members of a set of numbers, counted.                                   *)

Upto(k, S) == Cardinality({j \in S : j <= k})

\* There are finitely many members up to a number.
LEMMA UptoType ==
    ASSUME NEW S \in SUBSET Nat, IsFiniteSet(S), NEW k \in Nat
    PROVE  Upto(k, S) \in Nat /\ IsFiniteSet({j \in S : j <= k})
<1>1. {j \in S : j <= k} \in SUBSET S
  OBVIOUS
<1>2. IsFiniteSet({j \in S : j <= k})
  BY <1>1, FS_Subset
<1> QED
  BY <1>2, FS_CardinalityType DEF Upto

\* There are no fewer up to a larger number, and more if it is a member.
LEMMA UptoMonotone ==
    ASSUME NEW S \in SUBSET Nat, IsFiniteSet(S), NEW k \in Nat, NEW m \in Nat, k <= m
    PROVE  Upto(k, S) <= Upto(m, S) /\ (k < m /\ m \in S => Upto(k, S) < Upto(m, S))
<1> DEFINE T == {x \in S : x <= k}
           U == {x \in S : x <= m}
<1>1. T \in SUBSET U
  <2>1. \A x \in S : x \in Nat
    OBVIOUS
  <2>2. \A x \in S : x <= k => x <= m
    BY <2>1
  <2> QED
    BY <2>2
<1>2. k < m /\ m \in S => m \in U /\ m \notin T
  OBVIOUS
<1>3. IsFiniteSet(U) /\ Cardinality(T) \in Nat /\ Cardinality(U) \in Nat
  BY UptoType DEF Upto
<1> HIDE DEF T, U
<1>4. Cardinality(T) <= Cardinality(U) /\ (Cardinality(U) = Cardinality(T) => U = T)
  BY <1>1, <1>3, FS_Subset
<1>5. k < m /\ m \in S => Cardinality(T) < Cardinality(U)
  BY <1>2, <1>3, <1>4
<1> QED
  BY <1>4, <1>5 DEF Upto, T, U

\* Members are counted from one to their number.
LEMMA UptoIsNumber ==
    ASSUME NEW S \in SUBSET Nat, IsFiniteSet(S)
    PROVE  /\ Cardinality(S) \in Nat
           /\ \A k \in S : Upto(k, S) \in 1..Cardinality(S)
           /\ \A n \in 1..Cardinality(S) : \E k \in S : Upto(k, S) = n
           /\ \A j, k \in S : Upto(j, S) = Upto(k, S) => j = k
           /\ \A k \in Nat : Upto(k, S) \in 0..Cardinality(S)
<1> DEFINE size == Cardinality(S)
           f == [k \in S |-> Upto(k, S)]
<1>1. size \in Nat
  BY FS_CardinalityType
<1>2. ASSUME NEW k \in Nat PROVE Upto(k, S) \in 0..size
  <2> DEFINE T == {j \in S : j <= k}
  <2>1. Upto(k, S) \in Nat /\ Upto(k, S) = Cardinality(T)
    BY UptoType DEF Upto
  <2>2. T \in SUBSET S
    OBVIOUS
  <2> HIDE DEF T
  <2>3. Cardinality(T) <= size
    BY <2>2, FS_Subset
  <2> QED
    BY <1>1, <2>1, <2>3
<1>3. ASSUME NEW k \in S PROVE Upto(k, S) \in 1..size
  <2> DEFINE T == {j \in S : j <= k}
  <2>1. k \in Nat /\ k \in T
    OBVIOUS
  <2>2. IsFiniteSet(T) /\ Cardinality(T) = Upto(k, S) /\ Upto(k, S) \in 0..size
    BY <1>2, <2>1, UptoType DEF Upto
  <2> HIDE DEF T
  <2>3. Cardinality(T) # 0
    BY <2>1, <2>2, FS_EmptySet
  <2> QED
    BY <1>1, <2>2, <2>3
<1>4. \A j, k \in S : Upto(j, S) = Upto(k, S) => j = k
  <2> SUFFICES ASSUME NEW j \in S, NEW k \in S, Upto(j, S) = Upto(k, S), j # k PROVE FALSE
    OBVIOUS
  <2>1. j \in Nat /\ k \in Nat
    OBVIOUS
  <2>2. Upto(j, S) \in Nat /\ Upto(k, S) \in Nat
    BY <2>1, UptoType
  <2>3. CASE j < k
    BY <2>1, <2>2, <2>3, UptoMonotone
  <2>4. CASE k < j
    BY <2>1, <2>2, <2>4, UptoMonotone
  <2> QED
    BY <2>1, <2>3, <2>4
<1>5. f \in [S -> 1..size] /\ \A j, k \in S : f[j] = f[k] => j = k
  BY <1>3, <1>4
<1>6. f \in Injection(S, 1..size)
  BY <1>5 DEF Injection, IsInjective
<1>7. IsFiniteSet(1..size) /\ Cardinality(1..size) = size
  <2>1. 1 \in Int /\ size \in Int
    BY <1>1
  <2>2. IsFiniteSet(1..size) /\ Cardinality(1..size) = IF 1 > size THEN 0 ELSE size - 1 + 1
    BY <2>1, FS_Interval
  <2> QED
    BY <1>1, <2>2
<1>8. f \in Surjection(S, 1..size)
  <2> HIDE DEF f, size
  <2>1. Cardinality(S) = Cardinality(1..size)
    BY <1>7 DEF size
  <2>2. Cardinality(S) = Cardinality(1..size) <=> f \in Surjection(S, 1..size)
    BY <1>6, <1>7, FS_Injection
  <2> QED
    BY <2>1, <2>2
<1>9. \A n \in 1..size : \E k \in S : f[k] = n
  <2> HIDE DEF f, size
  <2> QED
    BY <1>8 DEF Surjection
<1> QED
  BY <1>1, <1>2, <1>3, <1>4, <1>9

-----------------------------------------------------------------------------
(* Cutting instructions into blocks.                                       *)

EndOf(text, insts, n) ==
    IF n = Cardinality(Firsts(text, insts)) THEN Len(insts) ELSE First(text, insts, n + 1) - 1

\* The first instructions of blocks, in order.
LEMMA FirstIs ==
    ASSUME NEW T, NEW text, NEW insts \in Seq(T)
    PROVE  /\ Firsts(text, insts) \in SUBSET Nat /\ IsFiniteSet(Firsts(text, insts))
           /\ Cardinality(Firsts(text, insts)) \in Nat
           /\ \A n \in 1..Cardinality(Firsts(text, insts)) :
                /\ First(text, insts, n) \in Firsts(text, insts) /\ First(text, insts, n) \in 1..Len(insts)
                /\ Upto(First(text, insts, n), Firsts(text, insts)) = n
           /\ \A j, k \in 1..Cardinality(Firsts(text, insts)) :
                j < k => First(text, insts, j) < First(text, insts, k)
           /\ insts # << >> => 1 \in Firsts(text, insts)
<1> DEFINE S == Firsts(text, insts)
           size == Cardinality(S)
<1>1. DOMAIN insts = 1..Len(insts) /\ Len(insts) \in Nat
  BY LenProperties
<1>2. S \in SUBSET (1..Len(insts)) /\ S \in SUBSET Nat
  BY <1>1 DEF Firsts
<1>3. IsFiniteSet(S)
  <2>1. IsFiniteSet(1..Len(insts))
    BY <1>1, FS_Interval
  <2> QED
    BY <1>2, <2>1, FS_Subset
<1>4. insts # << >> => 1 \in S
  <2> SUFFICES ASSUME insts # << >> PROVE insts[1] \in Leaders(text, insts) /\ 1 \in DOMAIN insts
    BY DEF Firsts
  <2>1. 1 \in DOMAIN insts
    BY <1>1, EmptySeq
  <2> QED
    BY <2>1 DEF Leaders
<1> HIDE DEF S
<1>5. /\ size \in Nat /\ \A n \in 1..size : \E k \in S : Upto(k, S) = n
      /\ \A j, k \in S : Upto(j, S) = Upto(k, S) => j = k
  BY <1>2, <1>3, UptoIsNumber
<1>6. ASSUME NEW n \in 1..size PROVE First(text, insts, n) \in S /\ Upto(First(text, insts, n), S) = n
  <2>1. First(text, insts, n) = CHOOSE k \in S : Upto(k, S) = n
    BY DEF First, Upto, S
  <2> QED
    BY <1>5, <2>1
<1>7. ASSUME NEW j \in 1..size, NEW k \in 1..size, j < k
      PROVE  First(text, insts, j) < First(text, insts, k)
  <2>1. PICK x \in Nat : x = First(text, insts, j) /\ x \in S /\ Upto(x, S) = j
    BY <1>2, <1>6
  <2>2. PICK y \in Nat : y = First(text, insts, k) /\ y \in S /\ Upto(y, S) = k
    BY <1>2, <1>6
  <2>3. y <= x => Upto(y, S) <= Upto(x, S)
    BY <1>2, <1>3, UptoMonotone
  <2> QED
    BY <1>5, <1>7, <2>1, <2>2, <2>3
<1> QED
  BY <1>2, <1>3, <1>4, <1>5, <1>6, <1>7 DEF S

\* A block is what lies from its first instruction to the one before the next block's.
LEMMA CutIs ==
    ASSUME NEW T, NEW text, NEW insts \in Seq(T)
    PROVE  /\ Cut(text, insts) \in Seq(Seq(T)) /\ Len(Cut(text, insts)) = Cardinality(Firsts(text, insts))
           /\ \A n \in 1..Len(Cut(text, insts)) :
                /\ First(text, insts, n) \in 1..Len(insts)
                /\ EndOf(text, insts, n) \in First(text, insts, n)..Len(insts)
                /\ Len(Cut(text, insts)[n]) = EndOf(text, insts, n) - First(text, insts, n) + 1
                /\ \A k \in 1..Len(Cut(text, insts)[n]) :
                    /\ First(text, insts, n) + k - 1 \in 1..Len(insts)
                    /\ Cut(text, insts)[n][k] = insts[First(text, insts, n) + k - 1]
<1> DEFINE size == Cardinality(Firsts(text, insts))
<1>1. Len(insts) \in Nat /\ size \in Nat
  BY LenProperties, FirstIs
<1>2. \A n \in 1..size : First(text, insts, n) \in 1..Len(insts)
  BY FirstIs
<1>3. ASSUME NEW n \in 1..size PROVE EndOf(text, insts, n) \in First(text, insts, n)..Len(insts)
  <2>1. CASE n = size
    BY <1>1, <1>2, <2>1 DEF EndOf
  <2>2. CASE n # size
    <3>1. n + 1 \in 1..size /\ n < n + 1
      BY <1>1, <2>2
    <3>2. PICK x \in 1..Len(insts) : x = First(text, insts, n)
      BY <1>2
    <3>3. PICK y \in 1..Len(insts) : y = First(text, insts, n + 1)
      BY <1>2, <3>1
    <3>4. x < y
      BY <3>1, <3>2, <3>3, FirstIs
    <3>5. EndOf(text, insts, n) = y - 1
      BY <2>2, <3>3 DEF EndOf
    <3> QED
      BY <3>2, <3>4, <3>5
  <2> QED
    BY <2>1, <2>2
<1>4. Cut(text, insts) = [n \in 1..size |-> SubSeq(insts, First(text, insts, n), EndOf(text, insts, n))]
  BY DEF Cut, EndOf
<1> HIDE DEF size
<1>5. ASSUME NEW n \in 1..size
      PROVE  /\ Cut(text, insts)[n] \in Seq(T)
             /\ Len(Cut(text, insts)[n]) = EndOf(text, insts, n) - First(text, insts, n) + 1
             /\ \A k \in 1..Len(Cut(text, insts)[n]) :
                    /\ First(text, insts, n) + k - 1 \in 1..Len(insts)
                    /\ Cut(text, insts)[n][k] = insts[First(text, insts, n) + k - 1]
  <2>1. PICK x \in 1..Len(insts) : x = First(text, insts, n)
    BY <1>2
  <2>2. PICK y \in x..Len(insts) : y = EndOf(text, insts, n)
    BY <1>3, <2>1
  <2>3. Cut(text, insts)[n] = SubSeq(insts, x, y)
    BY <1>4, <2>1, <2>2
  <2>4. /\ SubSeq(insts, x, y) \in Seq(T)
        /\ Len(SubSeq(insts, x, y)) = IF x <= y THEN y - x + 1 ELSE 0
        /\ \A k \in 1..(y - x + 1) : SubSeq(insts, x, y)[k] = insts[x + k - 1]
    BY <1>1, SubSeqProperties
  <2>5. Len(SubSeq(insts, x, y)) = y - x + 1
    BY <2>4
  <2> QED
    BY SMTT(30), <1>1, <2>1, <2>2, <2>3, <2>4, <2>5
<1>6. Cut(text, insts) \in [1..size -> Seq(T)]
  BY <1>4, <1>5
<1>7. Cut(text, insts) \in Seq(Seq(T)) /\ Len(Cut(text, insts)) = size
  BY <1>1, <1>6, SeqDef, LenProperties
<1> QED
  BY <1>2, <1>3, <1>5, <1>7 DEF size

\* Only the first instruction of a block is one that begins a block.
LEMMA InsideBlocks ==
    ASSUME NEW T, NEW text, NEW insts \in Seq(T), NEW n \in 1..Len(Cut(text, insts)),
           NEW k \in 1..Len(Cut(text, insts)[n])
    PROVE  First(text, insts, n) + k - 1 \in Firsts(text, insts) <=> k = 1
<1> DEFINE S == Firsts(text, insts)
<1>0. /\ S \in SUBSET Nat /\ IsFiniteSet(S) /\ Cardinality(S) \in Nat
      /\ \A i \in 1..Cardinality(S) :
            /\ First(text, insts, i) \in S /\ First(text, insts, i) \in 1..Len(insts)
            /\ Upto(First(text, insts, i), S) = i
      /\ insts # << >> => 1 \in S
  BY FirstIs
<1> HIDE DEF S
<1>1. PICK size \in Nat : size = Cardinality(S) /\ size = Len(Cut(text, insts))
  BY <1>0, CutIs DEF S
<1>2. PICK x \in 1..Len(insts) : x = First(text, insts, n)
  BY CutIs
<1>3. PICK y \in x..Len(insts) : y = EndOf(text, insts, n)
  BY <1>2, CutIs
<1>4. Len(insts) \in Nat /\ k \in 1..(y - x + 1)
  BY SMTT(30), <1>2, <1>3, CutIs, LenProperties
<1>5. S \in SUBSET Nat /\ IsFiniteSet(S) /\ x \in S /\ Upto(x, S) = n
  BY <1>0, <1>1, <1>2
<1>6. ASSUME k # 1, x + k - 1 \in S PROVE FALSE
  <2>1. PICK p \in Nat : p = x + k - 1 /\ x < p /\ p <= y /\ p \in S
    BY <1>4, <1>6
  <2>2. PICK m \in 1..size : Upto(p, S) = m
    BY <1>1, <1>5, <2>1, UptoIsNumber
  <2>3. n < m
    BY <1>5, <2>1, <2>2, UptoMonotone
  <2>4. n # size /\ n + 1 \in 1..size
    BY <1>1, <2>2, <2>3
  <2>5. PICK z \in Nat : z = First(text, insts, n + 1) /\ z \in S /\ Upto(z, S) = n + 1
    BY <1>0, <1>1, <2>4
  <2>6. y = z - 1
    BY <1>1, <1>3, <2>4, <2>5 DEF EndOf, S
  <2>7. p < z
    BY <2>1, <2>6
  <2>8. Upto(p, S) < Upto(z, S)
    BY <1>5, <2>1, <2>5, <2>7, UptoMonotone
  <2> QED
    BY <2>2, <2>3, <2>5, <2>8, <1>1
<1> QED
  BY <1>2, <1>4, <1>5, <1>6 DEF S

\* Every instruction is in a block.
LEMMA EveryInstruction ==
    ASSUME NEW T, NEW text, NEW insts \in Seq(T), NEW p \in 1..Len(insts)
    PROVE  \E n \in 1..Len(Cut(text, insts)) : \E k \in 1..Len(Cut(text, insts)[n]) :
                p = First(text, insts, n) + k - 1
<1> DEFINE S == Firsts(text, insts)
<1>0. /\ S \in SUBSET Nat /\ IsFiniteSet(S) /\ Cardinality(S) \in Nat
      /\ \A i \in 1..Cardinality(S) :
            /\ First(text, insts, i) \in S /\ First(text, insts, i) \in 1..Len(insts)
            /\ Upto(First(text, insts, i), S) = i
      /\ insts # << >> => 1 \in S
  BY FirstIs
<1> HIDE DEF S
<1>1. PICK size \in Nat : size = Cardinality(S) /\ size = Len(Cut(text, insts))
  BY <1>0, CutIs DEF S
<1>2. Len(insts) \in Nat /\ insts # << >>
  BY LenProperties, EmptySeq
<1>3. S \in SUBSET Nat /\ IsFiniteSet(S) /\ 1 \in S
  BY <1>0, <1>2
<1>4. PICK n \in Nat : n = Upto(p, S) /\ n <= size
  <2>1. p \in Nat
    BY <1>2
  <2>2. Upto(p, S) \in 0..size
    BY <1>1, <1>3, <2>1, UptoIsNumber
  <2> QED
    BY <1>1, <2>2
<1>5. n >= 1
  <2>1. Upto(1, S) \in 1..size
    BY <1>1, <1>3, UptoIsNumber
  <2>2. Upto(1, S) <= Upto(p, S)
    BY <1>2, <1>3, UptoMonotone
  <2> QED
    BY <1>1, <1>4, <2>1, <2>2
<1>6. n \in 1..size
  BY <1>1, <1>4, <1>5
<1>7. PICK x \in 1..Len(insts) : x = First(text, insts, n) /\ x \in S /\ Upto(x, S) = n
  BY <1>0, <1>1, <1>6
<1>8. x <= p
  <2> SUFFICES ASSUME p < x PROVE FALSE
    BY <1>2
  <2>1. Upto(p, S) < Upto(x, S)
    BY <1>2, <1>3, <1>7, UptoMonotone
  <2> QED
    BY <1>4, <1>7, <2>1
<1>9. PICK y \in x..Len(insts) : y = EndOf(text, insts, n)
  BY <1>1, <1>6, <1>7, CutIs
<1>10. p <= y
  <2>1. CASE n = size
    <3>1. y = Len(insts)
      BY <1>1, <1>9, <2>1 DEF EndOf, S
    <3> QED
      BY <1>2, <3>1
  <2>2. CASE n # size
    <3>1. n + 1 \in 1..size
      BY <1>1, <1>6, <2>2
    <3>2. PICK z \in Nat : z = First(text, insts, n + 1) /\ z \in S /\ Upto(z, S) = n + 1
      BY <1>0, <1>1, <1>3, <3>1
    <3>3. y = z - 1
      BY <1>1, <1>9, <2>2, <3>2 DEF EndOf, S
    <3>4. ~(z <= p)
      <4>1. z <= p => Upto(z, S) <= Upto(p, S)
        BY <1>2, <1>3, <3>2, UptoMonotone
      <4> QED
        BY <1>4, <3>2, <4>1
    <3> QED
      BY <1>2, <3>2, <3>3, <3>4
  <2> QED
    BY <2>1, <2>2
<1>11. PICK k \in 1..(y - x + 1) : p = x + k - 1
  <2>1. p - x + 1 \in 1..(y - x + 1) /\ p = x + (p - x + 1) - 1
    BY <1>2, <1>7, <1>8, <1>9, <1>10
  <2> QED
    BY <2>1
<1>12. k \in 1..Len(Cut(text, insts)[n])
  <2>1. Len(Cut(text, insts)[n]) = EndOf(text, insts, n) - First(text, insts, n) + 1
    BY <1>1, <1>6, CutIs
  <2> QED
    BY <1>7, <1>9, <2>1
<1> QED
  BY <1>1, <1>6, <1>7, <1>11, <1>12

\* A block ends where the next one begins.
LEMMA Adjacent ==
    ASSUME NEW T, NEW text, NEW insts \in Seq(T), NEW n \in 1..Len(Cut(text, insts))
    PROVE  First(text, insts, n) + Len(Cut(text, insts)[n]) =
                IF n = Len(Cut(text, insts)) THEN Len(insts) + 1 ELSE First(text, insts, n + 1)
<1>1. PICK size \in Nat : size = Cardinality(Firsts(text, insts)) /\ size = Len(Cut(text, insts))
  BY FirstIs, CutIs
<1>2. PICK x \in 1..Len(insts) : x = First(text, insts, n)
  BY CutIs
<1>3. Len(insts) \in Nat
  BY LenProperties
<1>4. PICK y \in x..Len(insts) : y = EndOf(text, insts, n) /\ Len(Cut(text, insts)[n]) = y - x + 1
  BY <1>2, CutIs
<1>5. x + (y - x + 1) = y + 1
  BY <1>3
<1>6. CASE n = size
  <2>1. y = Len(insts)
    BY <1>1, <1>4, <1>6 DEF EndOf
  <2> QED
    BY <1>1, <1>2, <1>4, <1>5, <1>6, <2>1
<1>7. CASE n # size
  <2>1. n + 1 \in 1..size
    BY <1>1, <1>7
  <2>2. PICK z \in Nat : z = First(text, insts, n + 1)
    BY <1>1, <2>1, FirstIs
  <2>3. y = z - 1
    BY <1>1, <1>4, <1>7, <2>2 DEF EndOf
  <2>4. y + 1 = z
    BY <2>2, <2>3
  <2> QED
    BY <1>1, <1>2, <1>4, <1>5, <1>7, <2>2, <2>4
<1> QED
  BY <1>6, <1>7

-----------------------------------------------------------------------------
(* The shape of the state, for every object file.                          *)

FuncType == [start : Nat, end : Nat, insts : Seq(Addrs(image)),
             blocks : Seq(Seq(Addrs(image)))]
Item == [op : Kind \cup {"tail"},
         ref : {<< >>} \cup {<<n>> : n \in Nat} \cup (Nat \X Nat)]
MBBType == [instrs : Seq(Item), succs : Seq(Nat \X Nat)]

Early == {"symbols", "decode", "identify"}
Late == {"translate", "link", "done"}
CutUp(f) == phase \in Late \cup {"create"} \/ (phase = "identify" /\ f < at.fn)
Made(f) == phase \in Late \/ (phase = "create" /\ f < at.fn)

IsMBB(b) == b \in Nat \X Nat /\ b[1] \in 1..Len(funcs) /\ b[2] \in 1..Len(mfunc[b[1]])

Shapes ==
    /\ image \in Images
    /\ phase \in DOMAIN Following \cup {"symbols", "done", "error"}
    /\ funcs \in Seq(FuncType)
    /\ mfunc \in Seq(Seq(MBBType)) /\ Len(mfunc) = Len(funcs)
    /\ at \in [fn : Nat \ {0}, block : Nat \ {0}, inst : Nat \ {0}]
    /\ pc \in Nat

\* The table names blocks of functions whose machine functions are made.
Table ==
    /\ \A a \in DOMAIN address_to_mbb : IsMBB(address_to_mbb[a])
    /\ phase \in Early => DOMAIN address_to_mbb = {}
    /\ phase = "create" => \A a \in DOMAIN address_to_mbb : address_to_mbb[a][1] < at.fn

Blocks ==
    \A f \in 1..Len(funcs) :
        /\ CutUp(f) => funcs[f].blocks = Cut(image.text, funcs[f].insts)
        /\ Made(f) => Len(mfunc[f]) >= Len(funcs[f].blocks)

TypeInv == Shapes /\ Table /\ Blocks

\* The phases.
LEMMA Phases ==
    /\ DOMAIN Following = {"decode", "identify", "create", "translate", "link"}
    /\ Following["decode"] = "identify" /\ Following["identify"] = "create"
    /\ Following["create"] = "translate" /\ Following["translate"] = "link"
    /\ Following["link"] = "done"
BY DEF Following

\* Instructions of the object file.
LEMMA TextType ==
    ASSUME image \in Images
    PROVE  /\ Addrs(image) \subseteq Nat
           /\ \A a \in Addrs(image) :
                Text(a).kind \in Kind /\ Text(a).size \in Nat \ {0} /\ Text(a).target \in Int
           /\ IsFiniteSet(Functions(image)) /\ Cardinality(Functions(image)) \in Nat
           /\ \A s \in Functions(image) : s.start \in Nat /\ s.size \in Nat
<1>1. /\ Addrs(image) \subseteq Nat
      /\ \A a \in Addrs(image) : IsInstr(image.text[a])
      /\ IsFiniteSet(image.symbols)
      /\ \A s \in image.symbols : IsSymbol(s)
  BY ImageAssumption
<1>2. Functions(image) \in SUBSET image.symbols
  BY DEF Functions
<1>3. IsFiniteSet(Functions(image))
  BY <1>1, <1>2, FS_Subset
<1> QED
  BY <1>1, <1>2, <1>3, FS_CardinalityType DEF IsInstr, IsSymbol, Text

\* Replacing a block replaces nothing else.
LEMMA SetBlock ==
    ASSUME NEW T, NEW mf \in Seq(Seq(T)), NEW f \in 1..Len(mf), NEW b \in 1..Len(mf[f]),
           NEW new \in T, NEW mg, mg = [mf EXCEPT ![f][b] = new]
    PROVE  /\ mg \in Seq(Seq(T)) /\ Len(mg) = Len(mf)
           /\ \A g \in 1..Len(mf) : Len(mg[g]) = Len(mf[g])
           /\ mg[f][b] = new
           /\ \A g \in 1..Len(mf) : \A n \in 1..Len(mf[g]) :
                g # f \/ n # b => mg[g][n] = mf[g][n]
<1>1. mf[f] \in Seq(T)
  BY ElementOfSeq
<1>2. PICK row \in Seq(T) : row = [mf[f] EXCEPT ![b] = new]
  BY <1>1, ExceptSeq
<1>3. /\ Len(row) = Len(mf[f])
      /\ \A n \in 1..Len(mf[f]) : row[n] = IF n = b THEN new ELSE mf[f][n]
  BY <1>1, <1>2, ExceptSeq
<1>4. mg = [mf EXCEPT ![f] = row]
  BY <1>2
<1>5. /\ mg \in Seq(Seq(T)) /\ Len(mg) = Len(mf)
      /\ \A g \in 1..Len(mf) : mg[g] = IF g = f THEN row ELSE mf[g]
  <2>1. /\ [mf EXCEPT ![f] = row] \in Seq(Seq(T))
        /\ Len([mf EXCEPT ![f] = row]) = Len(mf)
        /\ \A g \in 1..Len(mf) : [mf EXCEPT ![f] = row][g] = IF g = f THEN row ELSE mf[g]
    BY ExceptSeq
  <2> QED
    BY <1>4, <2>1
<1> QED
  BY <1>3, <1>5

\* So does adding a block at the end of a function.
LEMMA AddBlock ==
    ASSUME NEW T, NEW mf \in Seq(Seq(T)), NEW f \in 1..Len(mf), NEW new \in T,
           NEW mg, mg = [mf EXCEPT ![f] = Append(@, new)]
    PROVE  /\ mg \in Seq(Seq(T)) /\ Len(mg) = Len(mf)
           /\ \A g \in 1..Len(mf) : Len(mg[g]) = IF g = f THEN Len(mf[g]) + 1 ELSE Len(mf[g])
           /\ \A g \in 1..Len(mf) : \A n \in 1..Len(mf[g]) : mg[g][n] = mf[g][n]
<1>1. mf[f] \in Seq(T)
  BY ElementOfSeq
<1>2. PICK row \in Seq(T) : row = Append(mf[f], new)
  BY <1>1, AppendProperties
<1>3. Len(row) = Len(mf[f]) + 1 /\ \A n \in 1..Len(mf[f]) : row[n] = mf[f][n]
  BY <1>1, <1>2, AppendProperties
<1>4. mg = [mf EXCEPT ![f] = row]
  BY <1>2
<1>5. /\ mg \in Seq(Seq(T)) /\ Len(mg) = Len(mf)
      /\ \A g \in 1..Len(mf) : mg[g] = IF g = f THEN row ELSE mf[g]
  <2>1. /\ [mf EXCEPT ![f] = row] \in Seq(Seq(T))
        /\ Len([mf EXCEPT ![f] = row]) = Len(mf)
        /\ \A g \in 1..Len(mf) : [mf EXCEPT ![f] = row][g] = IF g = f THEN row ELSE mf[g]
    BY ExceptSeq
  <2> QED
    BY <1>4, <2>1
<1> QED
  BY <1>3, <1>5

\* Before the conversion there is nothing.
LEMMA InitTypes == Init => TypeInv
<1> SUFFICES ASSUME Init PROVE TypeInv
  OBVIOUS
<1>1. funcs = << >> /\ mfunc = << >> /\ Len(funcs) = 0 /\ Len(mfunc) = 0
  BY EmptySeq DEF Init
<1>2. Shapes
  BY <1>1, EmptySeq DEF Init, Shapes
<1>3. Table
  BY DEF Init, Table
<1>4. Blocks
  BY <1>1 DEF Blocks
<1> QED
  BY <1>2, <1>3, <1>4 DEF TypeInv

\* The functions of the symbols, without instructions and blocks.
LEMMA CollectTypes ==
    ASSUME TypeInv, CollectSymbols PROVE TypeInv'
<1>1. PICK n \in Nat : n = Cardinality(Functions(image))
  BY TextType DEF TypeInv, Shapes
<1>2. PICK order \in [1..n -> Functions(image)] :
        /\ funcs' = [i \in DOMAIN order |->
                        [start |-> order[i].start,
                         end |-> order[i].start + order[i].size,
                         insts |-> << >>, blocks |-> << >>]]
        /\ pc' = IF DOMAIN order = {} THEN 0 ELSE order[1].start
  BY <1>1 DEF CollectSymbols
<1>3. /\ phase = "symbols" /\ phase' = "decode"
      /\ at' = [fn |-> 1, block |-> 1, inst |-> 1]
      /\ mfunc' = [i \in 1..n |-> << >>]
      /\ image' = image /\ address_to_mbb' = address_to_mbb
  BY <1>1 DEF CollectSymbols, Enter
<1>4. \A i \in 1..n : order[i].start \in Nat /\ order[i].size \in Nat
  BY <1>2, TextType DEF TypeInv, Shapes
<1>5. FuncType' = FuncType
  BY <1>3 DEF FuncType
<1>6. \A i \in 1..n : funcs'[i] \in FuncType
  BY <1>2, <1>4, EmptySeq DEF FuncType
<1>7. funcs' \in [1..n -> FuncType]
  BY <1>2, <1>6
<1>8. funcs' \in Seq(FuncType) /\ Len(funcs') = n
  BY <1>1, <1>7, SeqDef, LenProperties
<1>9. mfunc' \in [1..n -> Seq(MBBType)]
  BY <1>3, EmptySeq
<1>10. mfunc' \in Seq(Seq(MBBType)) /\ Len(mfunc') = n
  BY <1>1, <1>9, SeqDef, LenProperties
<1>11. pc' \in Nat
  BY <1>2, <1>4
<1>12. Shapes'
  BY <1>3, <1>5, <1>8, <1>10, <1>11, Phases DEF TypeInv, Shapes, MBBType, Item
<1>13. Table'
  BY <1>3 DEF TypeInv, Table, Early
<1>14. Blocks'
  <2> SUFFICES ASSUME NEW f \in 1..Len(funcs')
               PROVE  /\ CutUp(f)' => funcs'[f].blocks = Cut(image'.text, funcs'[f].insts)
                      /\ Made(f)' => Len(mfunc'[f]) >= Len(funcs'[f].blocks)
    BY DEF Blocks
  <2>1. ~CutUp(f)' /\ ~Made(f)'
    BY <1>3 DEF CutUp, Made, Late
  <2> QED
    BY <2>1
<1> QED
  BY <1>12, <1>13, <1>14 DEF TypeInv

\* What the loops look at of a function.
LEMMA Current ==
    ASSUME TypeInv, at.fn <= Len(funcs)
    PROVE  /\ at.fn \in 1..Len(funcs) /\ Len(funcs) \in Nat /\ at.fn \in Nat
           /\ Func \in FuncType /\ Func = funcs[at.fn]
<1>1. at.fn \in Nat \ {0} /\ Len(funcs) \in Nat /\ funcs \in Seq(FuncType)
  BY LenProperties DEF TypeInv, Shapes
<1>2. at.fn \in 1..Len(funcs)
  BY <1>1
<1>3. funcs[at.fn] \in FuncType
  BY <1>1, <1>2, ElementOfSeq
<1> QED
  BY <1>1, <1>2, <1>3 DEF Func

\* Steps that only move the loop counters and the disassembler.
LEMMA MoveTypes ==
    ASSUME TypeInv, UNCHANGED <<image, phase, funcs, mfunc, address_to_mbb>>,
           phase \notin {"identify", "create"}, pc' \in Nat,
           at' \in [fn : Nat \ {0}, block : Nat \ {0}, inst : Nat \ {0}]
    PROVE  TypeInv'
<1>1. FuncType' = FuncType
  BY DEF FuncType
<1>2. Shapes'
  BY <1>1 DEF TypeInv, Shapes, MBBType, Item
<1>3. Table'
  BY DEF TypeInv, Table, Early, IsMBB
<1>4. Blocks'
  BY DEF TypeInv, Blocks, CutUp, Made, Late
<1> QED
  BY <1>2, <1>3, <1>4 DEF TypeInv

\* The loop over the functions goes on.
LEMMA NextFunction ==
    ASSUME Shapes
    PROVE  /\ [at EXCEPT !.fn = @ + 1] \in [fn : Nat \ {0}, block : Nat \ {0}, inst : Nat \ {0}]
           /\ [at EXCEPT !.fn = @ + 1].fn = at.fn + 1
<1>1. at \in [fn : Nat \ {0}, block : Nat \ {0}, inst : Nat \ {0}]
  BY DEF Shapes
<1>2. at.fn \in Nat \ {0}
  BY <1>1
<1>3. PICK n \in Nat \ {0} : n = at.fn + 1
  BY <1>2
<1>4. [at EXCEPT !.fn = @ + 1] = [at EXCEPT !.fn = n]
  BY <1>1, <1>3
<1>5. /\ [at EXCEPT !.fn = n] \in [fn : Nat \ {0}, block : Nat \ {0}, inst : Nat \ {0}]
      /\ [at EXCEPT !.fn = n].fn = n
  BY <1>1
<1> QED
  BY <1>3, <1>4, <1>5

\* The disassembler adds an instruction of the object file.
LEMMA DecodeTypes ==
    ASSUME TypeInv, DecodeInstruction PROVE TypeInv'
<1>1. /\ phase = "decode" /\ pc \in Addrs(image)
      /\ funcs' = [funcs EXCEPT ![at.fn].insts = Append(@, pc)]
      /\ pc' = pc + Text(pc).size
      /\ UNCHANGED <<image, phase, mfunc, address_to_mbb, at>>
  BY DEF DecodeInstruction, Decoding
<1>2. PICK f \in 1..Len(funcs) : f = at.fn /\ funcs[f] \in FuncType
  BY Current DEF DecodeInstruction, Decoding
<1>3. Append(funcs[f].insts, pc) \in Seq(Addrs(image))
  BY <1>1, <1>2, AppendProperties DEF FuncType
<1>4. PICK new \in FuncType : new = [funcs[f] EXCEPT !.insts = Append(@, pc)]
  BY <1>2, <1>3 DEF FuncType
<1>5. funcs' = [funcs EXCEPT ![f] = new]
  BY <1>1, <1>2, <1>4
<1>6. [funcs EXCEPT ![f] = new] \in Seq(FuncType) /\ Len([funcs EXCEPT ![f] = new]) = Len(funcs)
  BY ExceptSeq DEF TypeInv, Shapes
<1>7. FuncType' = FuncType
  BY <1>1 DEF FuncType
<1>8. pc' \in Nat
  BY <1>1, TextType DEF TypeInv, Shapes
<1>9. Shapes'
  BY <1>1, <1>5, <1>6, <1>7, <1>8 DEF TypeInv, Shapes, MBBType, Item
<1>10. Table'
  BY <1>1, Phases DEF TypeInv, Table, Early
<1>11. Blocks'
  <2> SUFFICES ASSUME NEW g \in 1..Len(funcs')
               PROVE  /\ CutUp(g)' => funcs'[g].blocks = Cut(image'.text, funcs'[g].insts)
                      /\ Made(g)' => Len(mfunc'[g]) >= Len(funcs'[g].blocks)
    BY DEF Blocks
  <2>1. ~CutUp(g)' /\ ~Made(g)'
    BY <1>1 DEF CutUp, Made, Late
  <2> QED
    BY <2>1
<1> QED
  BY <1>9, <1>10, <1>11 DEF TypeInv

\* A function is cut into blocks; its first instruction begins one.
LEMMA IdentifyTypes ==
    ASSUME TypeInv, IdentifyBasicBlocks PROVE TypeInv'
<1>1. /\ phase = "identify" /\ UNCHANGED <<image, mfunc, address_to_mbb, pc>>
  BY DEF IdentifyBasicBlocks
<1>2. PICK f \in 1..Len(funcs) : f = at.fn /\ funcs[f] \in FuncType /\ Func = funcs[f]
  BY Current DEF IdentifyBasicBlocks
<1>3. PICK insts \in Seq(Addrs(image)) : insts = funcs[f].insts
  BY <1>2 DEF FuncType
<1>4. ~(Func.insts # << >> /\ Func.insts[1] \notin Leaders(image.text, Func.insts))
  <2> SUFFICES ASSUME insts # << >> PROVE insts[1] \in Leaders(image.text, insts)
    BY <1>2, <1>3
  <2>1. 1 \in DOMAIN insts
    BY EmptySeq, LenProperties
  <2> QED
    BY <2>1 DEF Leaders
<1>5. /\ funcs' = [funcs EXCEPT ![at.fn].blocks = Cut(image.text, Func.insts)]
      /\ at' = [at EXCEPT !.fn = @ + 1] /\ phase' = phase
  BY <1>4 DEF IdentifyBasicBlocks
<1>6. Cut(image.text, insts) \in Seq(Seq(Addrs(image)))
  BY CutIs
<1>6a. PICK blocks \in Seq(Seq(Addrs(image))) : blocks = Cut(image.text, insts)
  BY <1>6
<1>6b. /\ [funcs[f] EXCEPT !.blocks = blocks] \in FuncType
       /\ [funcs[f] EXCEPT !.blocks = blocks].insts = funcs[f].insts
       /\ [funcs[f] EXCEPT !.blocks = blocks].blocks = blocks
  BY <1>2 DEF FuncType
<1>7. PICK new \in FuncType :
        /\ new = [funcs[f] EXCEPT !.blocks = blocks]
        /\ new.insts = insts /\ new.blocks = blocks
  BY <1>3, <1>6b
<1>8. funcs' = [funcs EXCEPT ![f] = new]
  BY <1>2, <1>3, <1>5, <1>6a, <1>7
<1>9. /\ [funcs EXCEPT ![f] = new] \in Seq(FuncType)
      /\ Len([funcs EXCEPT ![f] = new]) = Len(funcs)
      /\ \A g \in 1..Len(funcs) : [funcs EXCEPT ![f] = new][g] = IF g = f THEN new ELSE funcs[g]
  BY ExceptSeq DEF TypeInv, Shapes
<1>10. FuncType' = FuncType
  BY <1>1 DEF FuncType
<1>11. at' \in [fn : Nat \ {0}, block : Nat \ {0}, inst : Nat \ {0}] /\ at'.fn = at.fn + 1
  BY <1>5, NextFunction DEF TypeInv
<1>12. Shapes'
  BY <1>1, <1>5, <1>8, <1>9, <1>10, <1>11 DEF TypeInv, Shapes, MBBType, Item
<1>13. Table'
  BY <1>1, <1>5 DEF TypeInv, Table, Early
<1>14. Blocks'
  <2> SUFFICES ASSUME NEW g \in 1..Len(funcs')
               PROVE  /\ CutUp(g)' => funcs'[g].blocks = Cut(image'.text, funcs'[g].insts)
                      /\ Made(g)' => Len(mfunc'[g]) >= Len(funcs'[g].blocks)
    BY DEF Blocks
  <2>1. ~Made(g)'
    BY <1>1, <1>5 DEF Made, Late
  <2>2. CASE g = f
    BY <1>1, <1>6a, <1>7, <1>8, <1>9, <2>1, <2>2
  <2>3. CASE g # f
    <3>1. g \in 1..Len(funcs) /\ funcs'[g] = funcs[g]
      BY <1>8, <1>9, <2>3
    <3>2. CutUp(g)' => g < at.fn + 1
      BY <1>1, <1>5, <1>11 DEF CutUp, Late
    <3>3. f \in Nat /\ g \in Nat
      BY <3>1, <1>2, LenProperties DEF TypeInv, Shapes
    <3>4. CutUp(g)' => CutUp(g)
      BY <1>1, <1>2, <2>3, <3>2, <3>3 DEF CutUp
    <3> QED
      BY <1>1, <2>1, <3>1, <3>4 DEF TypeInv, Blocks
  <2> QED
    BY <2>2, <2>3
<1> QED
  BY <1>12, <1>13, <1>14 DEF TypeInv

\* The table `new' names the MBBs of function fn in place of what `old' names.
TakesOver(old, new, fn, blocks) ==
    /\ DOMAIN new = {blocks[n][1] : n \in 1..Len(blocks)} \cup DOMAIN old
    /\ \A a \in DOMAIN new :
        \/ \E n \in 1..Len(blocks) : a = blocks[n][1] /\ new[a] = <<fn, n>>
        \/ /\ a \in DOMAIN old /\ new[a] = old[a]
           /\ \A n \in 1..Len(blocks) : a # blocks[n][1]

\* Every block of a function gets an empty MBB, which the table names.
LEMMA CreateIs ==
    ASSUME TypeInv, CreateMachineBasicBlocks, NEW blocks, blocks = Func.blocks
    PROVE  /\ phase = "create" /\ UNCHANGED <<image, phase, funcs, pc>>
           /\ at' = [at EXCEPT !.fn = @ + 1]
           /\ Len(blocks) \in Nat /\ DOMAIN blocks = 1..Len(blocks)
           /\ mfunc' = [mfunc EXCEPT ![at.fn] = [n \in 1..Len(blocks) |-> EmptyMBB]]
           /\ TakesOver(address_to_mbb, address_to_mbb', at.fn, blocks)
<1> DEFINE Starts == {blocks[n][1] : n \in 1..Len(blocks)}
           Number(a) == CHOOSE n \in 1..Len(blocks) : blocks[n][1] = a
<1>1. Func \in FuncType
  BY Current DEF CreateMachineBasicBlocks
<1>2. Len(blocks) \in Nat /\ DOMAIN blocks = 1..Len(blocks)
  BY <1>1, LenProperties DEF FuncType
<1>3. /\ phase = "create" /\ UNCHANGED <<image, phase, funcs, pc>>
      /\ at' = [at EXCEPT !.fn = @ + 1]
      /\ mfunc' = [mfunc EXCEPT ![at.fn] =
                     [n \in DOMAIN blocks |-> [instrs |-> << >>, succs |-> << >>]]]
  BY DEF CreateMachineBasicBlocks
<1>4. address_to_mbb' = [a \in Starts \cup DOMAIN address_to_mbb |->
                IF a \in Starts THEN <<at.fn, Number(a)>> ELSE address_to_mbb[a]]
  BY <1>2 DEF CreateMachineBasicBlocks
<1>5. \A a \in Starts : Number(a) \in 1..Len(blocks) /\ blocks[Number(a)][1] = a
  OBVIOUS
<1>6. \A a : a \in Starts <=> \E n \in 1..Len(blocks) : a = blocks[n][1]
  OBVIOUS
<1>7. mfunc' = [mfunc EXCEPT ![at.fn] = [n \in 1..Len(blocks) |-> EmptyMBB]]
  BY <1>2, <1>3 DEF EmptyMBB
<1>8. DOMAIN address_to_mbb' = Starts \cup DOMAIN address_to_mbb
  BY <1>4
<1>9. ASSUME NEW a \in DOMAIN address_to_mbb'
      PROVE \/ \E n \in 1..Len(blocks) : a = blocks[n][1] /\ address_to_mbb'[a] = <<at.fn, n>>
            \/ /\ a \in DOMAIN address_to_mbb /\ address_to_mbb'[a] = address_to_mbb[a]
               /\ \A n \in 1..Len(blocks) : a # blocks[n][1]
  <2> HIDE DEF Starts, Number
  <2>1. a \in Starts \cup DOMAIN address_to_mbb
    BY <1>8
  <2>2. address_to_mbb'[a] = IF a \in Starts THEN <<at.fn, Number(a)>> ELSE address_to_mbb[a]
    BY <1>4, <2>1
  <2>3. CASE a \in Starts
    <3>1. PICK n \in 1..Len(blocks) : n = Number(a) /\ blocks[n][1] = a
      BY <1>5, <2>3
    <3>2. address_to_mbb'[a] = <<at.fn, n>>
      BY <2>2, <2>3, <3>1
    <3> QED
      BY <3>1, <3>2
  <2>4. CASE a \notin Starts
    BY <1>6, <2>1, <2>2, <2>4
  <2> QED
    BY <2>3, <2>4
<1> QED
  BY <1>2, <1>3, <1>7, <1>8, <1>9 DEF TakesOver

\* The table names the MBBs that were made.
LEMMA CreateTypes ==
    ASSUME TypeInv, CreateMachineBasicBlocks PROVE TypeInv'
<1>1. PICK f \in 1..Len(funcs) : f = at.fn /\ funcs[f] \in FuncType /\ Func = funcs[f]
  BY Current DEF CreateMachineBasicBlocks
<1>2. PICK blocks : blocks = Func.blocks
  OBVIOUS
<1>3. /\ phase = "create" /\ UNCHANGED <<image, phase, funcs, pc>>
      /\ at' = [at EXCEPT !.fn = @ + 1]
      /\ Len(blocks) \in Nat
      /\ mfunc' = [mfunc EXCEPT ![f] = [n \in 1..Len(blocks) |-> EmptyMBB]]
      /\ TakesOver(address_to_mbb, address_to_mbb', f, blocks)
  <2>1. /\ phase = "create" /\ UNCHANGED <<image, phase, funcs, pc>>
        /\ at' = [at EXCEPT !.fn = @ + 1]
    BY DEF CreateMachineBasicBlocks
  <2>2. Len(blocks) \in Nat
    BY <1>2, CreateIs
  <2>3. mfunc' = [mfunc EXCEPT ![at.fn] = [n \in 1..Len(blocks) |-> EmptyMBB]]
    BY <1>2, CreateIs
  <2>4. TakesOver(address_to_mbb, address_to_mbb', at.fn, blocks)
    BY <1>2, CreateIs
  <2> QED
    BY <1>1, <2>1, <2>2, <2>3, <2>4
<1>4. EmptyMBB \in MBBType
  BY EmptySeq DEF EmptyMBB, MBBType
<1>5. PICK row \in Seq(MBBType) : row = [n \in 1..Len(blocks) |-> EmptyMBB] /\ Len(row) = Len(blocks)
  <2>1. [n \in 1..Len(blocks) |-> EmptyMBB] \in [1..Len(blocks) -> MBBType]
    BY <1>4
  <2>2. [n \in 1..Len(blocks) |-> EmptyMBB] \in Seq(MBBType)
    BY <1>3, <2>1, SeqDef
  <2>3. Len([n \in 1..Len(blocks) |-> EmptyMBB]) = Len(blocks)
    BY <1>3, <2>2, LenProperties
  <2> QED
    BY <2>2, <2>3
<1>6. mfunc' = [mfunc EXCEPT ![f] = row] /\ mfunc \in Seq(Seq(MBBType)) /\ f \in 1..Len(mfunc)
  BY <1>3, <1>5 DEF TypeInv, Shapes
<1>7. /\ [mfunc EXCEPT ![f] = row] \in Seq(Seq(MBBType)) /\ Len([mfunc EXCEPT ![f] = row]) = Len(mfunc)
      /\ \A g \in 1..Len(mfunc) : [mfunc EXCEPT ![f] = row][g] = IF g = f THEN row ELSE mfunc[g]
  BY <1>6, ExceptSeq
<1>8. at' \in [fn : Nat \ {0}, block : Nat \ {0}, inst : Nat \ {0}] /\ at'.fn = f + 1
  BY <1>1, <1>3, NextFunction DEF TypeInv
<1>9. FuncType' = FuncType
  BY <1>3 DEF FuncType
<1>10. Shapes'
  BY <1>3, <1>6, <1>7, <1>8, <1>9 DEF TypeInv, Shapes, MBBType, Item
<1>11. ASSUME NEW a \in DOMAIN address_to_mbb', NEW b, b = address_to_mbb'[a]
       PROVE  /\ b \in Nat \X Nat /\ b[1] \in 1..Len(funcs') /\ b[2] \in 1..Len(mfunc'[b[1]])
              /\ b[1] < f + 1
  <2>1. CASE \E n \in 1..Len(blocks) : b = <<f, n>>
    <3>1. PICK n \in 1..Len(blocks) : b = <<f, n>>
      BY <2>1
    <3>2. b[1] = f /\ b[2] = n
      BY <3>1
    <3>3. mfunc'[f] = row /\ Len(funcs) \in Nat
      BY <1>6, <1>7, LenProperties DEF TypeInv, Shapes
    <3> QED
      BY <1>3, <1>5, <3>1, <3>2, <3>3
  <2>2. CASE b = address_to_mbb[a] /\ a \in DOMAIN address_to_mbb
    <3>1. b = address_to_mbb[a] /\ a \in DOMAIN address_to_mbb
      BY <2>2
    <3>2. /\ b \in Nat \X Nat /\ b[1] \in 1..Len(funcs) /\ b[2] \in 1..Len(mfunc[b[1]])
          /\ b[1] < f
      BY <1>1, <1>3, <3>1 DEF TypeInv, Table, IsMBB
    <3>3. b[1] \in 1..Len(mfunc) /\ b[1] # f /\ b[1] < f + 1
      <4>1. f \in Nat /\ b[1] \in Nat
        BY <1>8, <1>1, <3>2 DEF TypeInv, Shapes
      <4> QED
        BY SMTT(30), <3>2, <4>1 DEF TypeInv, Shapes
    <3>4. mfunc'[b[1]] = mfunc[b[1]]
      BY <1>6, <1>7, <3>3
    <3> QED
      BY <1>3, <3>2, <3>3, <3>4
  <2> QED
    BY <1>3, <1>11, <2>1, <2>2 DEF TakesOver
<1>12. Table'
  BY <1>3, <1>8, <1>11 DEF Table, IsMBB, Early
<1>13. Blocks'
  <2> SUFFICES ASSUME NEW g \in 1..Len(funcs')
               PROVE  /\ CutUp(g)' => funcs'[g].blocks = Cut(image'.text, funcs'[g].insts)
                      /\ Made(g)' => Len(mfunc'[g]) >= Len(funcs'[g].blocks)
    BY DEF Blocks
  <2>1. g \in 1..Len(funcs) /\ funcs'[g] = funcs[g] /\ CutUp(g)
    BY <1>3 DEF CutUp
  <2>2. funcs'[g].blocks = Cut(image'.text, funcs'[g].insts)
    BY <1>3, <2>1 DEF TypeInv, Blocks
  <2>3. CASE g = f
    <3>1. mfunc'[g] = row /\ funcs'[g].blocks = blocks
      BY <1>1, <1>2, <1>6, <1>7, <2>1, <2>3
    <3> QED
      BY <1>3, <1>5, <2>2, <3>1
  <2>4. CASE g # f
    <3>1. mfunc'[g] = mfunc[g]
      BY <1>6, <1>7, <2>1, <2>4 DEF TypeInv, Shapes
    <3>2. f \in Nat /\ g \in Nat
      BY <2>1, <1>1, LenProperties DEF TypeInv, Shapes
    <3>3. Made(g)' => g < f + 1
      BY <1>3, <1>8 DEF Made, Late
    <3>4. Made(g)' => Made(g)
      BY <1>1, <1>3, <2>4, <3>2, <3>3 DEF Made
    <3> QED
      BY <2>1, <2>2, <3>1, <3>4 DEF TypeInv, Blocks
  <2> QED
    BY <2>3, <2>4
<1> QED
  BY <1>10, <1>12, <1>13 DEF TypeInv

\* The machine instruction made from i in function fn, and the MBBs its block gets as
\* successors.
Found(i) == HasTarget(i) /\ i.target \in DOMAIN address_to_mbb
Emitted(i, fn) ==
    IF ~Found(i) THEN [op |-> i.kind, ref |-> << >>]
    ELSE IF is_tail_call(i, fn, address_to_mbb[i.target])
    THEN [op |-> "tail", ref |-> <<address_to_mbb[i.target][1]>>]
    ELSE IF isCall(i) THEN [op |-> i.kind, ref |-> <<address_to_mbb[i.target][1]>>]
    ELSE [op |-> i.kind, ref |-> address_to_mbb[i.target]]
Joined(i, fn) ==
    IF Found(i) /\ ~is_call(i, fn, address_to_mbb[i.target])
    THEN <<address_to_mbb[i.target]>> ELSE << >>

Translate == TranslateTailCall \/ TranslateCall \/ TranslateBranch \/ TranslateOther

\* The four kinds of translation, in one.
LEMMA TranslateIs ==
    ASSUME Translate
    PROVE  /\ Translating
           /\ UNCHANGED <<image, phase, funcs, address_to_mbb, pc>>
           /\ at' = [at EXCEPT !.inst = @ + 1]
           /\ mfunc' = [mfunc EXCEPT
                    ![at.fn][at.block].instrs = Append(@, Emitted(Inst, at.fn)),
                    ![at.fn][at.block].succs = @ \o Joined(Inst, at.fn)]
<1>1. Translating /\ UNCHANGED <<image, phase, funcs, address_to_mbb, pc>>
      /\ at' = [at EXCEPT !.inst = @ + 1]
  BY Zenon DEF Translate, TranslateTailCall, TranslateCall, TranslateBranch, TranslateOther, Emit
<1>2. TargetFound <=> Found(Inst)
  BY DEF TargetFound, Found, Target, evaluateBranch
<1>3. TargetMBB = address_to_mbb[Inst.target]
  BY DEF TargetMBB, Target, evaluateBranch
<1>4. CASE TranslateTailCall
  <2>1. /\ Emitted(Inst, at.fn) = [op |-> "tail", ref |-> <<TargetMBB[1]>>]
        /\ Joined(Inst, at.fn) = << >>
    BY Zenon, <1>2, <1>3, <1>4 DEF TranslateTailCall, Emitted, Joined, is_call
  <2> QED
    BY <1>1, <1>4, <2>1 DEF TranslateTailCall, Emit
<1>5. CASE TranslateCall
  <2>1. /\ Emitted(Inst, at.fn) = [op |-> Inst.kind, ref |-> <<TargetMBB[1]>>]
        /\ Joined(Inst, at.fn) = << >>
    BY Zenon, <1>2, <1>3, <1>5 DEF TranslateCall, Emitted, Joined, is_call
  <2> QED
    BY <1>1, <1>5, <2>1 DEF TranslateCall, Emit
<1>6. CASE TranslateBranch
  <2>1. /\ Emitted(Inst, at.fn) = [op |-> Inst.kind, ref |-> TargetMBB]
        /\ Joined(Inst, at.fn) = <<TargetMBB>>
    BY Zenon, <1>2, <1>3, <1>6 DEF TranslateBranch, Emitted, Joined, is_call
  <2> QED
    BY <1>1, <1>6, <2>1 DEF TranslateBranch, Emit
<1>7. CASE TranslateOther
  <2>1. /\ Emitted(Inst, at.fn) = [op |-> Inst.kind, ref |-> NoRef]
        /\ Joined(Inst, at.fn) = << >>
    BY <1>2, <1>7 DEF TranslateOther, Emitted, Joined, NoRef
  <2> QED
    BY <1>1, <1>7, <2>1 DEF TranslateOther, Emit
<1> QED
  BY <1>1, <1>4, <1>5, <1>6, <1>7 DEF Translate

\* The block the translation is at.
LEMMA Translated ==
    ASSUME TypeInv, Translating
    PROVE  /\ at.fn \in 1..Len(mfunc) /\ at.fn \in 1..Len(funcs) /\ at.fn \in Nat
           /\ Func = funcs[at.fn] /\ Func.blocks \in Seq(Seq(Addrs(image)))
           /\ at.block \in 1..Len(Func.blocks) /\ at.block \in 1..Len(mfunc[at.fn])
           /\ Len(mfunc[at.fn]) \in Nat /\ Block = Func.blocks[at.block]
           /\ mfunc[at.fn][at.block] \in MBBType
           /\ at.inst \in 1..Len(Block) /\ Block[at.inst] \in Addrs(image)
<1>1. /\ at.fn \in 1..Len(funcs) /\ Func \in FuncType /\ Func = funcs[at.fn] /\ at.fn \in Nat
      /\ phase = "translate"
  BY Current DEF Translating
<1>2. at.fn \in 1..Len(mfunc) /\ mfunc[at.fn] \in Seq(MBBType)
  BY <1>1, ElementOfSeq DEF TypeInv, Shapes
<1>3. Len(mfunc[at.fn]) >= Len(Func.blocks) /\ Len(mfunc[at.fn]) \in Nat
  BY <1>1, <1>2, LenProperties DEF TypeInv, Blocks, Made, Late
<1>4. /\ Func.blocks \in Seq(Seq(Addrs(image))) /\ Len(Func.blocks) \in Nat
      /\ at.block \in Nat \ {0} /\ at.inst \in Nat \ {0}
  BY <1>1, LenProperties DEF FuncType, TypeInv, Shapes
<1>5. at.block \in 1..Len(Func.blocks) /\ at.block \in 1..Len(mfunc[at.fn])
  BY <1>3, <1>4 DEF Translating
<1>6. Block \in Seq(Addrs(image)) /\ Block = Func.blocks[at.block]
  BY <1>4, <1>5, ElementOfSeq DEF Block
<1>7. at.inst \in 1..Len(Block)
  BY <1>4, <1>6, LenProperties DEF Translating
<1>8. Block[at.inst] \in Addrs(image)
  BY <1>6, <1>7, ElementOfSeq
<1>9. mfunc[at.fn][at.block] \in MBBType
  BY <1>2, <1>5, ElementOfSeq
<1> QED
  BY <1>1, <1>2, <1>3, <1>4, <1>5, <1>6, <1>7, <1>8, <1>9

\* What is emitted is an instruction that refers to functions and MBBs.
LEMMA EmittedType ==
    ASSUME TypeInv, NEW a \in Addrs(image), NEW fn \in Nat
    PROVE  Emitted(Text(a), fn) \in Item /\ Joined(Text(a), fn) \in Seq(Nat \X Nat)
<1>1. Text(a).kind \in Kind
  BY TextType DEF TypeInv, Shapes
<1>2. CASE ~Found(Text(a))
  <2>1. [op |-> Text(a).kind, ref |-> << >>] \in Item
    BY <1>1 DEF Item
  <2> QED
    BY <1>2, <2>1, EmptySeq DEF Emitted, Joined
<1>3. CASE Found(Text(a))
  <2>1. PICK t \in Nat \X Nat : t = address_to_mbb[Text(a).target]
    BY <1>3 DEF Found, TypeInv, Table, IsMBB
  <2>2. PICK m \in Nat : m = t[1]
    OBVIOUS
  <2>3. /\ [op |-> "tail", ref |-> <<m>>] \in Item
        /\ [op |-> Text(a).kind, ref |-> <<m>>] \in Item
        /\ [op |-> Text(a).kind, ref |-> t] \in Item
    BY <1>1 DEF Item
  <2>4. Emitted(Text(a), fn) \in Item
    BY <1>3, <2>1, <2>2, <2>3 DEF Emitted
  <2>5. <<t>> \in Seq(Nat \X Nat) /\ << >> \in Seq(Nat \X Nat)
    BY EmptySeq
  <2>6. Joined(Text(a), fn) \in Seq(Nat \X Nat)
    BY <2>1, <2>5 DEF Joined
  <2> QED
    BY <2>4, <2>6
<1> QED
  BY <1>2, <1>3

\* The instruction goes to the end of the block it belongs to.
LEMMA EmitIs ==
    ASSUME TypeInv, Translate
    PROVE  \E new \in MBBType :
            /\ mfunc' = [mfunc EXCEPT ![at.fn][at.block] = new]
            /\ new.instrs = Append(mfunc[at.fn][at.block].instrs, Emitted(Inst, at.fn))
            /\ new.succs = mfunc[at.fn][at.block].succs \o Joined(Inst, at.fn)
<1> DEFINE old == mfunc[at.fn][at.block]
           instrs == Append(old.instrs, Emitted(Inst, at.fn))
           succs == old.succs \o Joined(Inst, at.fn)
           new == [old EXCEPT !.instrs = instrs, !.succs = succs]
<1>1. Translating
  BY TranslateIs
<1>2. old \in MBBType /\ Block[at.inst] \in Addrs(image) /\ at.fn \in Nat
  BY <1>1, Translated
<1>3. Emitted(Inst, at.fn) \in Item /\ Joined(Inst, at.fn) \in Seq(Nat \X Nat)
  BY <1>2, EmittedType DEF Inst
<1>4. old.instrs \in Seq(Item) /\ old.succs \in Seq(Nat \X Nat)
  BY <1>2 DEF MBBType
<1>5. instrs \in Seq(Item) /\ succs \in Seq(Nat \X Nat)
  BY <1>3, <1>4, AppendProperties, ConcatProperties
<1>6. mfunc' = [mfunc EXCEPT ![at.fn][at.block].instrs = instrs,
                             ![at.fn][at.block].succs = succs]
  BY Zenon, TranslateIs
<1> HIDE DEF instrs, succs
<1>7. new \in MBBType /\ new.instrs = instrs /\ new.succs = succs
  BY <1>2, <1>5 DEF MBBType
<1>8. mfunc' = [mfunc EXCEPT ![at.fn][at.block] = new]
  BY ZenonT(30), <1>1, <1>6, Translated DEF TypeInv, Shapes
<1> QED
  BY Zenon, <1>7, <1>8 DEF instrs, succs

\* The steps of the last phases keep every MBB and what the table names.
LEMMA GrowTypes ==
    ASSUME TypeInv, phase \in Late, UNCHANGED <<image, phase, funcs, pc>>,
           mfunc' \in Seq(Seq(MBBType)), Len(mfunc') = Len(mfunc),
           \A g \in 1..Len(mfunc) : Len(mfunc[g]) <= Len(mfunc'[g]),
           at' \in [fn : Nat \ {0}, block : Nat \ {0}, inst : Nat \ {0}],
           \A a \in DOMAIN address_to_mbb' :
                \/ a \in DOMAIN address_to_mbb /\ address_to_mbb'[a] = address_to_mbb[a]
                \/ /\ address_to_mbb'[a] \in Nat \X Nat
                   /\ address_to_mbb'[a][1] \in 1..Len(mfunc)
                   /\ address_to_mbb'[a][2] \in 1..Len(mfunc'[address_to_mbb'[a][1]])
    PROVE  TypeInv'
<1>1. FuncType' = FuncType
  BY DEF FuncType
<1>2. Shapes'
  BY <1>1 DEF TypeInv, Shapes, MBBType, Item
<1>3. \A g \in 1..Len(mfunc) : Len(mfunc[g]) \in Nat /\ Len(mfunc'[g]) \in Nat
  <2> SUFFICES ASSUME NEW g \in 1..Len(mfunc)
               PROVE  Len(mfunc[g]) \in Nat /\ Len(mfunc'[g]) \in Nat
    OBVIOUS
  <2>1. mfunc[g] \in Seq(MBBType) /\ mfunc'[g] \in Seq(MBBType)
    BY ElementOfSeq DEF TypeInv, Shapes
  <2> QED
    BY <2>1, LenProperties
<1>4. ASSUME NEW a \in DOMAIN address_to_mbb', NEW b, b = address_to_mbb'[a]
      PROVE  b \in Nat \X Nat /\ b[1] \in 1..Len(funcs') /\ b[2] \in 1..Len(mfunc'[b[1]])
  <2>1. CASE a \in DOMAIN address_to_mbb /\ b = address_to_mbb[a]
    <3>1. b \in Nat \X Nat /\ b[1] \in 1..Len(funcs) /\ b[2] \in 1..Len(mfunc[b[1]])
      BY <2>1 DEF TypeInv, Table, IsMBB
    <3>2. b[1] \in 1..Len(mfunc)
      BY <3>1 DEF TypeInv, Shapes
    <3>3. b[2] \in 1..Len(mfunc'[b[1]])
      BY <1>3, <3>1, <3>2
    <3> QED
      BY <3>1, <3>3
  <2>2. CASE /\ b \in Nat \X Nat
             /\ b[1] \in 1..Len(mfunc)
             /\ b[2] \in 1..Len(mfunc'[b[1]])
    BY <2>2 DEF TypeInv, Shapes
  <2> QED
    BY <1>4, <2>1, <2>2
<1>5. Table'
  BY <1>4 DEF Table, IsMBB, Early, Late
<1>6. Blocks'
  <2> SUFFICES ASSUME NEW g \in 1..Len(funcs')
               PROVE  /\ CutUp(g)' => funcs'[g].blocks = Cut(image'.text, funcs'[g].insts)
                      /\ Made(g)' => Len(mfunc'[g]) >= Len(funcs'[g].blocks)
    BY DEF Blocks
  <2>1. /\ funcs[g].blocks = Cut(image.text, funcs[g].insts)
        /\ Len(mfunc[g]) >= Len(funcs[g].blocks)
    BY DEF TypeInv, Blocks, CutUp, Made
  <2>2. funcs[g] \in FuncType
    BY ElementOfSeq DEF TypeInv, Shapes
  <2>3. Len(funcs[g].blocks) \in Nat
    BY <2>2, LenProperties DEF FuncType
  <2>4. g \in 1..Len(mfunc)
    BY DEF TypeInv, Shapes
  <2>5. Len(mfunc'[g]) >= Len(funcs[g].blocks)
    BY <1>3, <2>1, <2>3, <2>4
  <2> QED
    BY <2>1, <2>5
<1> QED
  BY <1>2, <1>5, <1>6 DEF TypeInv

\* The loop over the instructions, and the one over the blocks, go on.
LEMMA NextInst ==
    ASSUME Shapes
    PROVE  /\ [at EXCEPT !.inst = @ + 1] \in [fn : Nat \ {0}, block : Nat \ {0}, inst : Nat \ {0}]
           /\ [at EXCEPT !.inst = @ + 1].fn = at.fn
           /\ [at EXCEPT !.inst = @ + 1].block = at.block
           /\ [at EXCEPT !.inst = @ + 1].inst = at.inst + 1
<1>1. at \in [fn : Nat \ {0}, block : Nat \ {0}, inst : Nat \ {0}]
  BY DEF Shapes
<1>2. PICK n \in Nat \ {0} : n = at.inst + 1
  BY <1>1
<1>3. [at EXCEPT !.inst = @ + 1] = [at EXCEPT !.inst = n]
  BY <1>1, <1>2
<1>4. /\ [at EXCEPT !.inst = n] \in [fn : Nat \ {0}, block : Nat \ {0}, inst : Nat \ {0}]
      /\ [at EXCEPT !.inst = n].fn = at.fn /\ [at EXCEPT !.inst = n].block = at.block
      /\ [at EXCEPT !.inst = n].inst = n
  BY <1>1
<1> QED
  BY <1>2, <1>3, <1>4

\* Linking moves on to the next block of the function and leaves the rest of `at' alone.
LEMMA NextBlockOf ==
    ASSUME Shapes
    PROVE  /\ [at EXCEPT !.block = @ + 1] \in [fn : Nat \ {0}, block : Nat \ {0}, inst : Nat \ {0}]
           /\ [at EXCEPT !.block = @ + 1].fn = at.fn
           /\ [at EXCEPT !.block = @ + 1].block = at.block + 1
           /\ [at EXCEPT !.block = @ + 1].inst = at.inst
<1>1. at \in [fn : Nat \ {0}, block : Nat \ {0}, inst : Nat \ {0}]
  BY DEF Shapes
<1>2. PICK n \in Nat \ {0} : n = at.block + 1
  BY <1>1
<1>3. [at EXCEPT !.block = @ + 1] = [at EXCEPT !.block = n]
  BY <1>1, <1>2
<1>4. /\ [at EXCEPT !.block = n] \in [fn : Nat \ {0}, block : Nat \ {0}, inst : Nat \ {0}]
      /\ [at EXCEPT !.block = n].fn = at.fn /\ [at EXCEPT !.block = n].block = n
      /\ [at EXCEPT !.block = n].inst = at.inst
  BY <1>1
<1> QED
  BY <1>2, <1>3, <1>4

\* Translating an instruction changes one MBB.
LEMMA TranslateTypes ==
    ASSUME TypeInv, Translate PROVE TypeInv'
<1>1. /\ phase \in Late /\ UNCHANGED <<image, phase, funcs, pc>>
      /\ at' = [at EXCEPT !.inst = @ + 1]
      /\ address_to_mbb' = address_to_mbb
  BY TranslateIs DEF Translating, Late
<1>2. at' \in [fn : Nat \ {0}, block : Nat \ {0}, inst : Nat \ {0}]
  BY <1>1, NextInst DEF TypeInv
<1>3. PICK new \in MBBType : mfunc' = [mfunc EXCEPT ![at.fn][at.block] = new]
  BY EmitIs
<1>4. at.fn \in 1..Len(mfunc) /\ at.block \in 1..Len(mfunc[at.fn])
  BY Translated, TranslateIs
<1>5. mfunc \in Seq(Seq(MBBType))
  BY DEF TypeInv, Shapes
<1>6. /\ mfunc' \in Seq(Seq(MBBType)) /\ Len(mfunc') = Len(mfunc)
      /\ \A g \in 1..Len(mfunc) : Len(mfunc'[g]) = Len(mfunc[g])
  BY <1>3, <1>4, <1>5, SetBlock
<1>7. \A g \in 1..Len(mfunc) : Len(mfunc[g]) <= Len(mfunc'[g])
  <2> SUFFICES ASSUME NEW g \in 1..Len(mfunc) PROVE Len(mfunc[g]) <= Len(mfunc'[g])
    OBVIOUS
  <2>1. Len(mfunc[g]) \in Nat
    BY <1>5, ElementOfSeq, LenProperties
  <2> QED
    BY <1>6, <2>1
<1> QED
  BY Zenon, <1>1, <1>2, <1>6, <1>7, GrowTypes

Link == LinkBranch \/ LinkReturn \/ LinkFallThrough

\* Control may go on from the block to the next one, which is not yet a successor.
Continues ==
    /\ HasNext /\ ~isReturn(LastInst) /\ ~isUnconditionalBranch(LastInst)
    /\ isBranch(LastInst) =>
        \A k \in DOMAIN mfunc[at.fn][at.block].succs :
            mfunc[at.fn][at.block].succs[k] # NextMBB

\* The block that is linked.
LEMMA LinkedBlock ==
    ASSUME TypeInv, Linking
    PROVE  /\ at.fn \in 1..Len(mfunc) /\ at.fn \in 1..Len(funcs) /\ at.fn \in Nat
           /\ Func = funcs[at.fn] /\ Func.blocks \in Seq(Seq(Addrs(image)))
           /\ at.block \in 1..Len(Func.blocks) /\ at.block \in 1..Len(mfunc[at.fn])
           /\ Len(Func.blocks) <= Len(mfunc[at.fn])
           /\ Len(mfunc[at.fn]) \in Nat /\ Len(Func.blocks) \in Nat
           /\ Block = Func.blocks[at.block]
           /\ mfunc[at.fn] \in Seq(MBBType) /\ mfunc[at.fn][at.block] \in MBBType
<1>1. /\ at.fn \in 1..Len(funcs) /\ Func \in FuncType /\ Func = funcs[at.fn] /\ at.fn \in Nat
      /\ phase = "link"
  BY Current DEF Linking
<1>2. at.fn \in 1..Len(mfunc) /\ mfunc[at.fn] \in Seq(MBBType)
  BY <1>1, ElementOfSeq DEF TypeInv, Shapes
<1>3. Len(mfunc[at.fn]) >= Len(Func.blocks) /\ Len(mfunc[at.fn]) \in Nat
  BY <1>1, <1>2, LenProperties DEF TypeInv, Blocks, Made, Late
<1>4. /\ Func.blocks \in Seq(Seq(Addrs(image))) /\ Len(Func.blocks) \in Nat
      /\ at.block \in Nat \ {0}
  BY <1>1, LenProperties DEF FuncType, TypeInv, Shapes
<1>5. at.block \in 1..Len(Func.blocks) /\ at.block \in 1..Len(mfunc[at.fn])
  BY <1>3, <1>4 DEF Linking
<1>6. Block = Func.blocks[at.block]
  BY DEF Block
<1>7. mfunc[at.fn][at.block] \in MBBType
  BY <1>2, <1>5, ElementOfSeq
<1> QED
  BY <1>1, <1>2, <1>3, <1>4, <1>5, <1>6, <1>7

\* Linking adds the next block to the successors when control continues there, and
\* an empty MBB when the target of a branch has none.
Gained(mf) ==
    /\ mf \in Seq(Seq(MBBType)) /\ Len(mf) = Len(mfunc)
    /\ \A g \in 1..Len(mfunc) : Len(mf[g]) = Len(mfunc[g])
    /\ \A g \in 1..Len(mfunc) : \A n \in 1..Len(mfunc[g]) :
            g # at.fn \/ n # at.block => mf[g][n] = mfunc[g][n]
    /\ mf[at.fn][at.block].instrs = mfunc[at.fn][at.block].instrs
    /\ mf[at.fn][at.block].succs =
            IF Continues THEN Append(mfunc[at.fn][at.block].succs, NextMBB)
            ELSE mfunc[at.fn][at.block].succs

\* What WithSuccessor does where the block falls through: the current block gains NextMBB.
LEMMA WithSuccessorIs ==
    ASSUME TypeInv, Linking, Continues PROVE Gained(WithSuccessor(NextMBB))
<1> DEFINE old == mfunc[at.fn][at.block]
           succs == Append(old.succs, NextMBB)
           new == [old EXCEPT !.succs = succs]
<1>1. old \in MBBType /\ NextMBB \in Nat \X Nat
  BY LinkedBlock DEF NextMBB
<1>2. old.succs \in Seq(Nat \X Nat)
  BY <1>1 DEF MBBType
<1>3. succs \in Seq(Nat \X Nat)
  BY <1>1, <1>2, AppendProperties
<1>4. WithSuccessor(NextMBB) = [mfunc EXCEPT ![at.fn][at.block].succs = succs]
  BY DEF WithSuccessor
<1> HIDE DEF succs
<1>5. new \in MBBType /\ new.succs = succs /\ new.instrs = old.instrs
  BY <1>1, <1>3 DEF MBBType
<1>6. PICK mg : mg = [mfunc EXCEPT ![at.fn][at.block] = new]
  OBVIOUS
<1>7. WithSuccessor(NextMBB) = mg
  BY <1>4, <1>6, LinkedBlock DEF TypeInv, Shapes
<1>8. mfunc \in Seq(Seq(MBBType)) /\ at.fn \in 1..Len(mfunc) /\ at.block \in 1..Len(mfunc[at.fn])
  BY LinkedBlock DEF TypeInv, Shapes
<1> HIDE DEF new
<1>9. /\ mg \in Seq(Seq(MBBType)) /\ Len(mg) = Len(mfunc)
      /\ \A g \in 1..Len(mfunc) : Len(mg[g]) = Len(mfunc[g])
      /\ mg[at.fn][at.block] = new
      /\ \A g \in 1..Len(mfunc) : \A n \in 1..Len(mfunc[g]) :
                g # at.fn \/ n # at.block => mg[g][n] = mfunc[g][n]
  BY <1>5, <1>6, <1>8, SetBlock
<1> QED
  BY <1>5, <1>7, <1>9 DEF Gained, succs

\* A step of link_machine_basic_blocks, its branch and fall-through cases in one form: the block
\* gains successors, and an empty MBB is added exactly where a target has none.
LEMMA LinkIs ==
    ASSUME TypeInv, Link
    PROVE  /\ Linking /\ UNCHANGED <<image, phase, funcs, pc>>
           /\ at' = [at EXCEPT !.block = @ + 1]
           /\ \E mf : /\ Gained(mf)
                      /\ \/ /\ mfunc' = mf /\ address_to_mbb' = address_to_mbb
                            /\ isBranch(LastInst) /\ HasTarget(LastInst) =>
                                LastInst.target \in DOMAIN address_to_mbb
                         \/ /\ isBranch(LastInst) /\ HasTarget(LastInst)
                            /\ LastInst.target \notin DOMAIN address_to_mbb
                            /\ mfunc' = [mf EXCEPT ![at.fn] = Append(@, EmptyMBB)]
                            /\ address_to_mbb' =
                                [a \in {LastInst.target} \cup DOMAIN address_to_mbb |->
                                    IF a = LastInst.target THEN <<at.fn, Len(mf[at.fn]) + 1>>
                                    ELSE address_to_mbb[a]]
<1>1. Linking /\ UNCHANGED <<image, phase, funcs, pc>> /\ at' = [at EXCEPT !.block = @ + 1]
  BY DEF Link, LinkBranch, LinkReturn, LinkFallThrough, Linked
<1>2. ~Continues => Gained(mfunc)
  BY DEF Gained, TypeInv, Shapes
<1>3. Continues => Gained(WithSuccessor(NextMBB))
  BY <1>1, WithSuccessorIs
<1>4. CASE LinkBranch
  <2>1. PICK mf : mf = IF Continues THEN WithSuccessor(NextMBB) ELSE mfunc
    OBVIOUS
  <2>2. Gained(mf)
    BY <1>2, <1>3, <2>1
  <2>3. isBranch(LastInst) /\ ~isReturn(LastInst)
    BY <1>4 DEF LinkBranch, isBranch, isReturn
  <2>4. mf = IF /\ ~isUnconditionalBranch(LastInst) /\ HasNext
                /\ \A k \in DOMAIN MBB.succs : MBB.succs[k] # NextMBB
             THEN WithSuccessor(NextMBB) ELSE mfunc
    BY <2>1, <2>3 DEF Continues, MBB
  <2>5. get_or_create_mbb_for_address(mf)
    BY <1>4, <2>4 DEF LinkBranch
  <2>6. \/ /\ mfunc' = mf /\ address_to_mbb' = address_to_mbb
           /\ HasTarget(LastInst) => LastInst.target \in DOMAIN address_to_mbb
        \/ /\ HasTarget(LastInst) /\ LastInst.target \notin DOMAIN address_to_mbb
           /\ mfunc' = [mf EXCEPT ![at.fn] = Append(@, EmptyMBB)]
           /\ address_to_mbb' =
                [a \in {LastInst.target} \cup DOMAIN address_to_mbb |->
                    IF a = LastInst.target THEN <<at.fn, Len(mf[at.fn]) + 1>>
                    ELSE address_to_mbb[a]]
    BY <2>5 DEF get_or_create_mbb_for_address, LinkTarget, evaluateBranch
  <2> QED
    BY <1>1, <2>2, <2>3, <2>6
<1>5. CASE LinkReturn
  <2>1. isReturn(LastInst) /\ ~isBranch(LastInst) /\ ~Continues
    BY <1>5 DEF LinkReturn, isBranch, isReturn, Continues
  <2> QED
    BY <1>1, <1>2, <1>5, <2>1 DEF LinkReturn
<1>6. CASE LinkFallThrough
  <2>1. /\ ~isReturn(LastInst) /\ ~isBranch(LastInst) /\ ~isUnconditionalBranch(LastInst)
        /\ Continues <=> HasNext
    BY <1>6 DEF LinkFallThrough, isBranch, isUnconditionalBranch, Continues
  <2> QED
    BY <1>1, <1>2, <1>3, <1>6, <2>1 DEF LinkFallThrough
<1> QED
  BY <1>4, <1>5, <1>6 DEF Link

\* Linking keeps the types.
LEMMA LinkTypes ==
    ASSUME TypeInv, Link PROVE TypeInv'
<1>1. /\ Linking /\ UNCHANGED <<image, phase, funcs, pc>>
      /\ at' = [at EXCEPT !.block = @ + 1]
  BY LinkIs
<1>2. phase \in Late
  BY <1>1 DEF Linking, Late
<1>3. at' \in [fn : Nat \ {0}, block : Nat \ {0}, inst : Nat \ {0}]
  BY <1>1, NextBlockOf DEF TypeInv
<1>4. PICK mf :
        /\ Gained(mf)
        /\ \/ mfunc' = mf /\ address_to_mbb' = address_to_mbb
           \/ /\ LastInst.target \notin DOMAIN address_to_mbb
              /\ mfunc' = [mf EXCEPT ![at.fn] = Append(@, EmptyMBB)]
              /\ address_to_mbb' =
                    [a \in {LastInst.target} \cup DOMAIN address_to_mbb |->
                        IF a = LastInst.target THEN <<at.fn, Len(mf[at.fn]) + 1>>
                        ELSE address_to_mbb[a]]
  BY LinkIs
<1>5. \A g \in 1..Len(mfunc) : Len(mfunc[g]) \in Nat
  <2> SUFFICES ASSUME NEW g \in 1..Len(mfunc) PROVE Len(mfunc[g]) \in Nat
    OBVIOUS
  <2>1. mfunc[g] \in Seq(MBBType)
    BY ElementOfSeq DEF TypeInv, Shapes
  <2> QED
    BY <2>1, LenProperties
<1>6. CASE mfunc' = mf /\ address_to_mbb' = address_to_mbb
  BY <1>1, <1>2, <1>3, <1>4, <1>5, <1>6, GrowTypes DEF Gained
<1>7. CASE /\ mfunc' = [mf EXCEPT ![at.fn] = Append(@, EmptyMBB)]
           /\ address_to_mbb' =
                    [a \in {LastInst.target} \cup DOMAIN address_to_mbb |->
                        IF a = LastInst.target THEN <<at.fn, Len(mf[at.fn]) + 1>>
                        ELSE address_to_mbb[a]]
  <2>1. EmptyMBB \in MBBType
    BY EmptySeq DEF EmptyMBB, MBBType
  <2>2. PICK f \in 1..Len(mf) : f = at.fn /\ f \in Nat /\ Len(mf[f]) \in Nat
    BY <1>1, <1>4, <1>5, LinkedBlock DEF Gained
  <2>3. mf \in Seq(Seq(MBBType)) /\ mfunc' = [mf EXCEPT ![f] = Append(@, EmptyMBB)]
    BY <1>4, <1>7, <2>2 DEF Gained
  <2>4. /\ mfunc' \in Seq(Seq(MBBType)) /\ Len(mfunc') = Len(mf)
        /\ \A g \in 1..Len(mf) : Len(mfunc'[g]) = IF g = f THEN Len(mf[g]) + 1 ELSE Len(mf[g])
    BY <2>1, <2>3, AddBlock
  <2>5. \A g \in 1..Len(mfunc) : Len(mfunc[g]) <= Len(mfunc'[g])
    <3> SUFFICES ASSUME NEW g \in 1..Len(mfunc) PROVE Len(mfunc[g]) <= Len(mfunc'[g])
      OBVIOUS
    <3>1. Len(mf[g]) = Len(mfunc[g]) /\ g \in 1..Len(mf)
      BY <1>4 DEF Gained
    <3>2. PICK n \in Nat : n = Len(mf[g])
      BY <1>5, <3>1
    <3>3. Len(mfunc'[g]) = IF g = f THEN n + 1 ELSE n
      BY <2>4, <3>1, <3>2
    <3> QED
      BY <3>1, <3>2, <3>3
  <2>6. ASSUME NEW a \in DOMAIN address_to_mbb'
        PROVE  \/ a \in DOMAIN address_to_mbb /\ address_to_mbb'[a] = address_to_mbb[a]
               \/ /\ address_to_mbb'[a] \in Nat \X Nat
                  /\ address_to_mbb'[a][1] \in 1..Len(mfunc)
                  /\ address_to_mbb'[a][2] \in 1..Len(mfunc'[address_to_mbb'[a][1]])
    <3>1. CASE a # LastInst.target
      BY <1>7, <3>1
    <3>2. CASE a = LastInst.target
      <4>1. PICK n \in Nat : n = Len(mf[f]) + 1 /\ n \in 1..Len(mfunc'[f])
        BY <2>2, <2>4
      <4>2. address_to_mbb'[a] = <<f, n>>
        BY <1>7, <2>2, <3>2, <4>1
      <4>3. f \in 1..Len(mfunc)
        BY <1>4, <2>2 DEF Gained
      <4> QED
        BY <2>2, <4>1, <4>2, <4>3
    <3> QED
      BY <3>1, <3>2
  <2>7. Len(mfunc') = Len(mfunc)
    BY <1>4, <2>4 DEF Gained
  <2> QED
    BY <1>1, <1>2, <1>3, <2>4, <2>5, <2>6, <2>7, GrowTypes
<1> QED
  BY <1>4, <1>6, <1>7

\* The next phase begins when the loop over the functions has ended.
LEMMA PhaseTypes ==
    ASSUME TypeInv, NextPhase PROVE TypeInv'
<1>1. /\ phase \in DOMAIN Following /\ at.fn > Len(funcs) /\ phase' = Following[phase]
      /\ at' = [fn |-> 1, block |-> 1, inst |-> 1]
      /\ UNCHANGED <<image, funcs, mfunc, address_to_mbb, pc>>
  BY DEF NextPhase, Enter
<1>2. FuncType' = FuncType
  BY <1>1 DEF FuncType
<1>3. phase' \in {"identify", "create", "translate", "link", "done"}
  BY <1>1, Phases
<1>4. Shapes'
  BY <1>1, <1>2, <1>3, Phases DEF TypeInv, Shapes, MBBType, Item
<1>5. phase' \in Early \cup {"create"} => phase \in Early
  BY <1>1, Phases DEF Early
<1>6. Table'
  BY <1>1, <1>5 DEF TypeInv, Table, IsMBB, Early
<1>7. Blocks'
  <2> SUFFICES ASSUME NEW g \in 1..Len(funcs')
               PROVE  /\ CutUp(g)' => funcs'[g].blocks = Cut(image'.text, funcs'[g].insts)
                      /\ Made(g)' => Len(mfunc'[g]) >= Len(funcs'[g].blocks)
    BY DEF Blocks
  <2>1. g \in 1..Len(funcs) /\ at.fn \in Nat /\ Len(funcs) \in Nat
    BY <1>1, LenProperties DEF TypeInv, Shapes
  <2>2. g < at.fn /\ ~(g < 1)
    BY <1>1, <2>1
  <2>3. at'.fn = 1
    BY <1>1
  <2>4. CutUp(g)' => phase' \in {"create", "translate", "link", "done"}
    BY <2>2, <2>3 DEF CutUp, Late
  <2>5. CutUp(g)' => CutUp(g)
    BY <1>1, <2>2, <2>4, Phases DEF CutUp, Late
  <2>6. Made(g)' => phase' \in {"translate", "link", "done"}
    BY <2>2, <2>3 DEF Made, Late
  <2>7. Made(g)' => Made(g)
    BY <1>1, <2>2, <2>6, Phases DEF Made, Late
  <2> QED
    BY <1>1, <2>1, <2>5, <2>7 DEF TypeInv, Blocks
<1> QED
  BY <1>4, <1>6, <1>7 DEF TypeInv

\* The other steps move the loop counters and the disassembler.
LEMMA LoopTypes ==
    ASSUME TypeInv, SkipIllegalByte \/ FinishFunction \/ NextBlock \/ FinishLinking
    PROVE  TypeInv'
<1>1. /\ UNCHANGED <<image, phase, funcs, mfunc, address_to_mbb>>
      /\ phase \notin {"identify", "create"}
  BY DEF SkipIllegalByte, FinishFunction, NextBlock, FinishLinking, Decoding
<1>2. at \in [fn : Nat \ {0}, block : Nat \ {0}, inst : Nat \ {0}] /\ pc \in Nat
  BY DEF TypeInv, Shapes
<1>3. CASE SkipIllegalByte
  <2>1. pc' \in Nat /\ at' = at
    BY <1>2, <1>3 DEF SkipIllegalByte
  <2> QED
    BY <1>1, <1>2, <2>1, MoveTypes
<1>4. CASE FinishFunction
  <2>1. at' \in [fn : Nat \ {0}, block : Nat \ {0}, inst : Nat \ {0}]
    BY <1>4, NextFunction DEF FinishFunction, TypeInv
  <2>2. pc' = IF at.fn < Len(funcs) THEN funcs[at.fn + 1].start ELSE 0
    BY <1>4 DEF FinishFunction
  <2>3. at.fn < Len(funcs) => funcs[at.fn + 1].start \in Nat
    <3> SUFFICES ASSUME at.fn < Len(funcs) PROVE funcs[at.fn + 1].start \in Nat
      OBVIOUS
    <3>1. PICK n \in Nat : n = at.fn /\ n + 1 \in 1..Len(funcs)
      BY <1>2, LenProperties DEF TypeInv, Shapes
    <3>2. funcs[n + 1] \in FuncType
      BY <3>1, ElementOfSeq DEF TypeInv, Shapes
    <3> QED
      BY <3>1, <3>2 DEF FuncType
  <2>4. pc' \in Nat
    BY <2>2, <2>3
  <2> QED
    BY <1>1, <2>1, <2>4, MoveTypes
<1>5. CASE NextBlock
  <2>1. at' \in [fn : Nat \ {0}, block : Nat \ {0}, inst : Nat \ {0}]
    <3>1. PICK m \in Nat \ {0} : m = at.fn + 1
      BY <1>2
    <3>2. PICK n \in Nat \ {0} : n = at.block + 1
      BY <1>2
    <3>3. [at EXCEPT !.block = n, !.inst = 1] = [fn |-> at.fn, block |-> n, inst |-> 1]
      <4>1. at = [fn |-> at.fn, block |-> at.block, inst |-> at.inst]
        BY <1>2
      <4>2. [at EXCEPT !.block = n, !.inst = 1] = [[at EXCEPT !.block = n] EXCEPT !.inst = 1]
        OBVIOUS
      <4>3. [at EXCEPT !.block = n] = [fn |-> at.fn, block |-> n, inst |-> at.inst]
        BY <4>1
      <4>4. [[fn |-> at.fn, block |-> n, inst |-> at.inst] EXCEPT !.inst = 1]
                = [fn |-> at.fn, block |-> n, inst |-> 1]
        OBVIOUS
      <4> QED
        BY <4>2, <4>3, <4>4
    <3>4. \/ at' = [fn |-> at.fn + 1, block |-> 1, inst |-> 1]
          \/ at' = [at EXCEPT !.block = @ + 1, !.inst = 1]
      BY <1>5 DEF NextBlock
    <3>5. [at EXCEPT !.block = @ + 1, !.inst = 1] = [at EXCEPT !.block = n, !.inst = 1]
      BY <1>2, <3>2
    <3>6. \/ at' = [fn |-> m, block |-> 1, inst |-> 1]
          \/ at' = [fn |-> at.fn, block |-> n, inst |-> 1]
      BY <3>1, <3>3, <3>4, <3>5
    <3>7. at.fn \in Nat \ {0} /\ 1 \in Nat \ {0}
      BY <1>2
    <3> QED
      BY <3>1, <3>2, <3>6, <3>7
  <2>2. pc' = pc
    BY <1>5 DEF NextBlock
  <2> QED
    BY <1>1, <1>2, <2>1, <2>2, MoveTypes
<1>6. CASE FinishLinking
  <2>1. at' = [fn |-> at.fn + 1, block |-> 1, inst |-> 1] /\ pc' = pc
    BY <1>6 DEF FinishLinking
  <2>2. at.fn + 1 \in Nat \ {0}
    BY <1>2
  <2>3. at' \in [fn : Nat \ {0}, block : Nat \ {0}, inst : Nat \ {0}]
    BY <2>1, <2>2
  <2> QED
    BY <1>1, <1>2, <2>1, <2>3, MoveTypes
<1> QED
  BY <1>3, <1>4, <1>5, <1>6

\* No step leaves the types.
LEMMA NextTypes == TypeInv /\ [Next]_vars => TypeInv'
<1> SUFFICES ASSUME TypeInv, [Next]_vars PROVE TypeInv'
  OBVIOUS
<1>1. CASE UNCHANGED vars
  <2>1. UNCHANGED <<image, phase, funcs, mfunc, address_to_mbb, at, pc>>
    BY <1>1 DEF vars
  <2>2. FuncType' = FuncType
    BY <2>1 DEF FuncType
  <2>3. Shapes'
    BY <2>1, <2>2 DEF TypeInv, Shapes, MBBType, Item
  <2>4. Table'
    BY <2>1 DEF TypeInv, Table, Early, IsMBB
  <2>5. Blocks'
    BY <2>1 DEF TypeInv, Blocks, CutUp, Made, Late
  <2> QED
    BY <2>3, <2>4, <2>5 DEF TypeInv
<1>2. CASE Next
  BY <1>2, CollectTypes, DecodeTypes, IdentifyTypes, CreateTypes, TranslateTypes, LinkTypes,
     LoopTypes, PhaseTypes DEF Next, Translate, Link
<1> QED
  BY <1>1, <1>2

\* In any state the types are right.
LEMMA TypesHold == Spec => []TypeInv
<1> QED
  BY InitTypes, NextTypes, PTL DEF Spec

\* TypeInv is what TypeOK says of the state.
LEMMA TypesImply == TypeInv => TypeOK
<1> SUFFICES ASSUME TypeInv PROVE TypeOK
  OBVIOUS
<1>1. phase \in DOMAIN Following \cup {"symbols", "done", "error"}
  BY DEF TypeInv, Shapes
<1>2. FunctionIndex = 1..Len(funcs) /\ DOMAIN mfunc = FunctionIndex
  BY LenProperties DEF TypeInv, Shapes, FunctionIndex
<1>3. ASSUME NEW f \in FunctionIndex
      PROVE  funcs[f].insts \in Seq(Addrs(image)) /\ funcs[f].blocks \in Seq(Seq(Addrs(image)))
  <2>1. funcs[f] \in FuncType
    BY <1>2, ElementOfSeq DEF TypeInv, Shapes
  <2> QED
    BY <2>1 DEF FuncType
<1>4. ASSUME NEW a \in DOMAIN address_to_mbb
      PROVE  /\ address_to_mbb[a][1] \in FunctionIndex
             /\ address_to_mbb[a][2] \in BlockIndex(address_to_mbb[a][1])
  <2>1. PICK b : b = address_to_mbb[a] /\ b[1] \in 1..Len(funcs) /\ b[2] \in 1..Len(mfunc[b[1]])
    BY DEF TypeInv, Table, IsMBB
  <2>2. mfunc[b[1]] \in Seq(MBBType)
    BY <2>1, ElementOfSeq DEF TypeInv, Shapes
  <2>3. BlockIndex(b[1]) = 1..Len(mfunc[b[1]])
    BY <2>2, LenProperties DEF BlockIndex
  <2> QED
    BY <1>2, <2>1, <2>3
<1>5. at \in [fn : Nat \ {0}, block : Nat \ {0}, inst : Nat \ {0}] /\ pc \in Nat
  BY DEF TypeInv, Shapes
<1> QED
  BY <1>1, <1>2, <1>3, <1>4, <1>5 DEF TypeOK

\* Whatever the bytes are, functions, blocks and MBBs are what the translator's tables
\* say they are: a name in address_to_mbb is that of an MBB that exists
\* (mctomir-transform.cpp, convert_section), in object files of any size.
THEOREM TypesCorrect == Spec => []TypeOK
<1> QED
  BY TypesHold, TypesImply, PTL

-----------------------------------------------------------------------------
(* The blocks of a function are its instructions.                          *)

\* The place of the first instruction of block n, or past the last.
Start(text, insts, n) ==
    IF n = Len(Cut(text, insts)) + 1 THEN Len(insts) + 1 ELSE First(text, insts, n)

\* Blocks lie one after another.
LEMMA Starts ==
    ASSUME NEW T, NEW text, NEW insts \in Seq(T)
    PROVE  /\ Len(Cut(text, insts)) \in Nat /\ Len(insts) \in Nat
           /\ \A n \in 1..(Len(Cut(text, insts)) + 1) : Start(text, insts, n) \in 1..(Len(insts) + 1)
           /\ \A n \in 1..Len(Cut(text, insts)) :
                /\ Len(Cut(text, insts)[n]) \in Nat \ {0}
                /\ Start(text, insts, n) = First(text, insts, n)
                /\ Start(text, insts, n) + Len(Cut(text, insts)[n]) = Start(text, insts, n + 1)
           /\ \A m, n \in 1..(Len(Cut(text, insts)) + 1) :
                m < n => Start(text, insts, m) < Start(text, insts, n)
           /\ insts = << >> => Start(text, insts, 1) = 1
<1>1. PICK size \in Nat : size = Len(Cut(text, insts)) /\ size = Cardinality(Firsts(text, insts))
  BY FirstIs, CutIs
<1>2. PICK len \in Nat : len = Len(insts)
  BY LenProperties
<1>3. \A n \in 1..size : First(text, insts, n) \in 1..len
  BY <1>1, <1>2, FirstIs
<1>4. ASSUME NEW n \in 1..(size + 1)
      PROVE  Start(text, insts, n) = IF n = size + 1 THEN len + 1 ELSE First(text, insts, n)
  BY <1>1, <1>2 DEF Start
<1>5. ASSUME NEW n \in 1..size
      PROVE  /\ Len(Cut(text, insts)[n]) \in Nat \ {0}
             /\ Start(text, insts, n) = First(text, insts, n)
             /\ Start(text, insts, n) + Len(Cut(text, insts)[n]) = Start(text, insts, n + 1)
  <2>1. PICK x \in 1..len : x = First(text, insts, n)
    BY <1>3
  <2>2. PICK y \in x..len : y = EndOf(text, insts, n) /\ Len(Cut(text, insts)[n]) = y - x + 1
    BY <1>1, <1>2, <2>1, CutIs
  <2>3. n \in 1..(size + 1) /\ n # size + 1 /\ n + 1 \in 1..(size + 1)
    BY <1>1
  <2>4. Start(text, insts, n) = x
    BY <1>4, <2>1, <2>3
  <2>5. x + Len(Cut(text, insts)[n]) =
            IF n = size THEN len + 1 ELSE First(text, insts, n + 1)
    <3>1. First(text, insts, n) + Len(Cut(text, insts)[n]) =
            IF n = Len(Cut(text, insts)) THEN Len(insts) + 1 ELSE First(text, insts, n + 1)
      BY <1>1, Adjacent
    <3> QED
      BY <1>1, <1>2, <2>1, <3>1
  <2>6. Start(text, insts, n + 1) = IF n = size THEN len + 1 ELSE First(text, insts, n + 1)
    BY <1>1, <1>4, <2>3
  <2>7. Len(Cut(text, insts)[n]) \in Nat \ {0}
    BY <1>2, <2>1, <2>2
  <2> QED
    BY <2>1, <2>4, <2>5, <2>6, <2>7
<1>6. ASSUME NEW m \in 1..(size + 1), NEW n \in 1..(size + 1), m < n
      PROVE  Start(text, insts, m) < Start(text, insts, n)
  <2>1. m \in 1..size /\ m # size + 1
    BY <1>1, <1>6
  <2>2. PICK x \in 1..len : x = First(text, insts, m) /\ Start(text, insts, m) = x
    BY <1>3, <1>4, <2>1
  <2>3. CASE n = size + 1
    BY <1>2, <1>4, <2>2, <2>3
  <2>4. CASE n # size + 1
    <3>1. n \in 1..size
      BY <1>1, <2>4
    <3>2. First(text, insts, m) < First(text, insts, n)
      BY <1>1, <1>6, <2>1, <3>1, FirstIs
    <3> QED
      BY <1>4, <2>2, <2>4, <3>2
  <2> QED
    BY <2>3, <2>4
<1>7. insts = << >> => Start(text, insts, 1) = 1
  <2> SUFFICES ASSUME insts = << >> PROVE Start(text, insts, 1) = 1
    OBVIOUS
  <2>1. len = 0
    BY <1>2, EmptySeq
  <2>2. size = 0
    <3>1. 1 \in 1..size => First(text, insts, 1) \in 1..0
      BY <1>3, <2>1
    <3> QED
      BY <1>1, <3>1
  <2> QED
    BY <1>4, <2>1, <2>2
<1>8. ASSUME NEW n \in 1..(size + 1) PROVE Start(text, insts, n) \in 1..(len + 1)
  <2>1. CASE n = size + 1
    BY <1>2, <1>4, <2>1
  <2>2. CASE n # size + 1
    <3>1. n \in 1..size
      BY <1>1, <2>2
    <3>2. PICK x \in 1..len : x = First(text, insts, n)
      BY <1>3, <3>1
    <3> QED
      BY <1>2, <1>4, <2>2, <3>2
  <2> QED
    BY <2>1, <2>2
<1> QED
  BY <1>1, <1>2, <1>5, <1>6, <1>7, <1>8

\* The places in the blocks before block n are as many as the instructions before it.
LEMMA PlacesBefore ==
    ASSUME NEW T, NEW text, NEW insts \in Seq(T), NEW n \in 1..(Len(Cut(text, insts)) + 1)
    PROVE  Cardinality({p \in (1..n) \X DOMAIN insts :
                            p[1] < n /\ p[2] \in DOMAIN Cut(text, insts)[p[1]]})
            = Start(text, insts, n) - 1
<1> DEFINE P == {p \in (1..n) \X DOMAIN insts :
                    p[1] < n /\ p[2] \in DOMAIN Cut(text, insts)[p[1]]}
           h == [p \in P |-> Start(text, insts, p[1]) + p[2] - 1]
<1>1. PICK size \in Nat : size = Len(Cut(text, insts))
  BY Starts
<1>2. PICK len \in Nat : len = Len(insts) /\ DOMAIN insts = 1..len
  BY LenProperties
<1>3. PICK bound \in 1..(len + 1) : bound = Start(text, insts, n)
  BY <1>1, <1>2, Starts
<1>4. ASSUME NEW m \in 1..size
      PROVE  /\ Start(text, insts, m) \in 1..(len + 1)
             /\ Start(text, insts, m + 1) \in 1..(len + 1)
             /\ Len(Cut(text, insts)[m]) \in Nat \ {0}
             /\ DOMAIN Cut(text, insts)[m] = 1..Len(Cut(text, insts)[m])
             /\ Start(text, insts, m) + Len(Cut(text, insts)[m]) = Start(text, insts, m + 1)
             /\ Start(text, insts, m) = First(text, insts, m)
  <2>1. m \in 1..(size + 1) /\ m + 1 \in 1..(size + 1)
    BY <1>1
  <2>2. Cut(text, insts)[m] \in Seq(T)
    BY <1>1, CutIs, ElementOfSeq
  <2> QED
    BY <1>1, <1>2, <2>1, <2>2, Starts, LenProperties
<1>5. ASSUME NEW j \in 1..(size + 1), NEW k \in 1..(size + 1), j <= k
      PROVE  Start(text, insts, j) <= Start(text, insts, k)
  <2>1. CASE j = k
    <3>1. Start(text, insts, j) \in 1..(len + 1)
      BY <1>1, <1>2, Starts
    <3> QED
      BY <2>1, <3>1
  <2>2. CASE j < k
    <3>1. Start(text, insts, j) < Start(text, insts, k)
      BY <1>1, <2>2, Starts
    <3>2. Start(text, insts, j) \in 1..(len + 1) /\ Start(text, insts, k) \in 1..(len + 1)
      BY <1>1, <1>2, Starts
    <3> QED
      BY <3>1, <3>2
  <2> QED
    BY <1>5, <2>1, <2>2
<1>6. ASSUME NEW p \in P
      PROVE  /\ p[1] \in 1..size /\ p[1] < n /\ p[2] \in 1..Len(Cut(text, insts)[p[1]])
             /\ p = <<p[1], p[2]>>
             /\ h[p] = Start(text, insts, p[1]) + p[2] - 1
             /\ h[p] \in Nat
             /\ Start(text, insts, p[1]) <= h[p]
             /\ h[p] < Start(text, insts, p[1] + 1)
  <2>1. p[1] \in 1..n /\ p[1] < n /\ p = <<p[1], p[2]>> /\ p[2] \in DOMAIN Cut(text, insts)[p[1]]
    OBVIOUS
  <2>2. p[1] \in 1..size
    BY <1>1, <2>1
  <2>3. PICK x \in 1..(len + 1) : x = Start(text, insts, p[1])
    BY <1>4, <2>2
  <2>4. PICK y \in Nat \ {0} : y = Len(Cut(text, insts)[p[1]]) /\ p[2] \in 1..y
    BY <1>4, <2>1, <2>2
  <2>5. x + y = Start(text, insts, p[1] + 1)
    BY <1>4, <2>2, <2>3, <2>4
  <2>6. h[p] = x + p[2] - 1
    BY <2>3
  <2> HIDE DEF P, h
  <2>7. PICK k \in 1..y : k = p[2]
    BY <2>4
  <2>8. x + k - 1 \in Nat /\ x <= x + k - 1 /\ x + k - 1 < x + y
    BY SMTT(30), <1>2, <2>7
  <2>9. h[p] \in Nat /\ x <= h[p] /\ h[p] < x + y
    BY <2>6, <2>7, <2>8
  <2> QED
    BY <2>1, <2>2, <2>3, <2>4, <2>5, <2>6, <2>9
<1>7. \A p \in P : h[p] \in 1..(bound - 1)
  <2> SUFFICES ASSUME NEW p \in P PROVE h[p] \in 1..(bound - 1)
    OBVIOUS
  <2> HIDE DEF P, h
  <2>1. p[1] + 1 \in 1..(size + 1) /\ p[1] + 1 <= n /\ n \in 1..(size + 1)
    BY <1>1, <1>6
  <2>2. Start(text, insts, p[1] + 1) <= bound
    BY <1>3, <1>5, <2>1
  <2>3. Start(text, insts, p[1]) \in 1..(len + 1) /\ Start(text, insts, p[1] + 1) \in 1..(len + 1)
    BY <1>4, <1>6
  <2> QED
    BY SMTT(30), <1>3, <1>6, <2>2, <2>3
<1>8. \A p, q \in P : h[p] = h[q] => p = q
  <2>1. ASSUME NEW p \in P, NEW q \in P, h[p] = h[q], p[1] < q[1] PROVE FALSE
    <3> HIDE DEF P, h
    <3>0. p[1] \in 1..size /\ q[1] \in 1..size
      BY <1>6
    <3>1. p[1] + 1 \in 1..(size + 1) /\ q[1] \in 1..(size + 1) /\ p[1] + 1 <= q[1]
      BY <1>1, <2>1, <3>0
    <3>2. Start(text, insts, p[1] + 1) <= Start(text, insts, q[1])
      BY <1>5, <3>1
    <3>3. Start(text, insts, q[1]) \in 1..(len + 1) /\ Start(text, insts, p[1] + 1) \in 1..(len + 1)
      BY <1>4, <1>6
    <3> QED
      BY SMTT(30), <1>6, <2>1, <3>2, <3>3
  <2> SUFFICES ASSUME NEW p \in P, NEW q \in P, h[p] = h[q] PROVE p = q
    OBVIOUS
  <2> HIDE DEF P, h
  <2>2. p[1] \in 1..size /\ q[1] \in 1..size
    BY <1>6
  <2>3. p[1] = q[1]
    <3>1. ~(p[1] < q[1]) /\ ~(q[1] < p[1])
      BY <2>1
    <3> QED
      BY <2>2, <3>1
  <2>4. PICK x \in 1..(len + 1) : x = Start(text, insts, p[1])
    BY <1>4, <2>2
  <2>5. x + p[2] - 1 = x + q[2] - 1
    BY <1>6, <2>3, <2>4
  <2>6. p[2] \in Nat /\ q[2] \in Nat
    BY SMTT(30), <1>6
  <2>7. p[2] = q[2]
    BY <2>4, <2>5, <2>6
  <2> QED
    BY <1>6, <2>3, <2>7
<1>9. \A i \in 1..(bound - 1) : \E p \in P : h[p] = i
  <2> SUFFICES ASSUME NEW i \in 1..(bound - 1) PROVE \E p \in P : h[p] = i
    OBVIOUS
  <2>1. i \in 1..len
    BY <1>2, <1>3
  <2>2. PICK m \in 1..size : \E k \in 1..Len(Cut(text, insts)[m]) : i = First(text, insts, m) + k - 1
    BY <1>1, <1>2, <2>1, EveryInstruction
  <2>3. PICK k \in 1..Len(Cut(text, insts)[m]) : i = First(text, insts, m) + k - 1
    BY <2>2
  <2>4. PICK x \in 1..(len + 1) : x = Start(text, insts, m) /\ x = First(text, insts, m)
    BY <1>4
  <2>5. k \in Nat /\ k \in 1..len
    <3>1. PICK y \in Nat \ {0} : y = Len(Cut(text, insts)[m]) /\ x + y \in 1..(len + 1)
      BY <1>4, <2>4
    <3> QED
      BY <1>2, <2>4, <3>1
  <2>6. m < n
    <3> SUFFICES ASSUME n <= m PROVE FALSE
      BY <1>1
    <3>1. m \in 1..(size + 1) /\ n \in 1..(size + 1)
      BY <1>1
    <3>2. bound <= x
      BY <1>3, <1>5, <2>4, <3>1
    <3> QED
      BY <1>3, <2>3, <2>4, <2>5, <3>2
  <2>7. k \in DOMAIN Cut(text, insts)[m]
    BY <1>4
  <2>8. m \in 1..n /\ k \in DOMAIN insts
    BY <1>1, <1>2, <2>5, <2>6
  <2>9. <<m, k>> \in P
    BY <2>6, <2>7, <2>8
  <2>10. h[<<m, k>>] = i
    BY <2>3, <2>4, <2>9
  <2> HIDE DEF P, h
  <2> QED
    BY <2>9, <2>10
<1>10. h \in [P -> 1..(bound - 1)]
  BY <1>7
<1> HIDE DEF h, P
<1>11. h \in Injection(P, 1..(bound - 1)) /\ h \in Surjection(P, 1..(bound - 1))
  BY <1>8, <1>9, <1>10 DEF Injection, IsInjective, Surjection
<1>12. IsFiniteSet(1..(bound - 1)) /\ Cardinality(1..(bound - 1)) = bound - 1
  <2>1. PICK b \in Nat : b = bound - 1
    BY <1>2, <1>3
  <2>2. 1 \in Int /\ b \in Int
    BY <2>1
  <2>3. IsFiniteSet(1..b) /\ Cardinality(1..b) = IF 1 > b THEN 0 ELSE b - 1 + 1
    BY <2>2, FS_Interval
  <2> QED
    BY <2>1, <2>3
<1>13. IsFiniteSet(P)
  <2>1. IsFiniteSet((1..n) \X DOMAIN insts)
    <3>1. 1 \in Int /\ n \in Int /\ len \in Int
      BY <1>1, <1>2
    <3>2. IsFiniteSet(1..n) /\ IsFiniteSet(1..len)
      BY <3>1, FS_Interval
    <3> QED
      BY <1>2, <3>2, FS_Product
  <2> QED
    BY <2>1, FS_Subset DEF P
<1>14. h \in Bijection(P, 1..(bound - 1))
  BY <1>11 DEF Bijection
<1>15. Cardinality(P) = Cardinality(1..(bound - 1))
  BY <1>12, <1>13, <1>14, FS_Bijection DEF ExistsBijection
<1> QED
  BY <1>3, <1>12, <1>15 DEF P

\* What ends a block, and what goes into the middle of one: neither is in a cut.
LEMMA NoneInside ==
    ASSUME NEW T, NEW text, NEW insts \in Seq(T), NEW n \in 1..Len(Cut(text, insts)),
           NEW k \in 1..Len(Cut(text, insts)[n])
    PROVE  /\ k < Len(Cut(text, insts)[n]) =>
                ~(isBranch(text[Cut(text, insts)[n][k]]) \/ isReturn(text[Cut(text, insts)[n][k]]))
           /\ k > 1 => \A j \in DOMAIN insts :
                isBranch(text[insts[j]]) /\ HasTarget(text[insts[j]]) =>
                    text[insts[j]].target # Cut(text, insts)[n][k]
<1>1. PICK len \in Nat : len = Len(insts) /\ DOMAIN insts = 1..len
  BY LenProperties
<1>2. PICK x \in 1..len : x = First(text, insts, n)
  BY <1>1, CutIs
<1>3. PICK y \in Nat : y = Len(Cut(text, insts)[n]) /\ k \in 1..y
  BY Starts
<1>4. \A i \in 1..y :
        /\ x + i - 1 \in 1..len /\ Cut(text, insts)[n][i] = insts[x + i - 1]
        /\ x + i - 1 \in Firsts(text, insts) <=> i = 1
  <2>1. \A i \in 1..Len(Cut(text, insts)[n]) :
            /\ First(text, insts, n) + i - 1 \in 1..Len(insts)
            /\ Cut(text, insts)[n][i] = insts[First(text, insts, n) + i - 1]
    BY CutIs
  <2>2. \A i \in 1..Len(Cut(text, insts)[n]) :
            First(text, insts, n) + i - 1 \in Firsts(text, insts) <=> i = 1
    BY InsideBlocks
  <2> QED
    BY <1>1, <1>2, <1>3, <2>1, <2>2
<1>5. PICK p \in 1..len : p = x + k - 1 /\ Cut(text, insts)[n][k] = insts[p]
  BY <1>3, <1>4
<1>6. ASSUME k < y, isBranch(text[insts[p]]) \/ isReturn(text[insts[p]]) PROVE FALSE
  <2>1. k + 1 \in 1..y /\ k + 1 # 1 /\ x + (k + 1) - 1 = p + 1
    BY SMTT(30), <1>2, <1>3, <1>5, <1>6
  <2>2. p + 1 \in 1..len /\ p < len /\ p + 1 \notin Firsts(text, insts)
    <3>1. x + (k + 1) - 1 \in 1..len /\ x + (k + 1) - 1 \notin Firsts(text, insts)
      BY <1>4, <2>1
    <3>2. p + 1 \in 1..len /\ p + 1 \notin Firsts(text, insts)
      BY <2>1, <3>1
    <3> QED
      BY <1>1, <3>2
  <2>3. insts[p + 1] \in Leaders(text, insts)
    BY <1>1, <1>5, <1>6, <2>2 DEF Leaders
  <2> QED
    BY <1>1, <2>2, <2>3 DEF Firsts
<1>7. ASSUME k > 1, NEW j \in DOMAIN insts, isBranch(text[insts[j]]), HasTarget(text[insts[j]]),
             text[insts[j]].target = insts[p]
      PROVE  FALSE
  <2>1. p \notin Firsts(text, insts)
    BY <1>3, <1>4, <1>5, <1>7
  <2>2. insts[p] \in Leaders(text, insts)
    BY <1>7 DEF Leaders, evaluateBranch
  <2> QED
    BY <1>1, <1>5, <2>1, <2>2 DEF Firsts
<1> QED
  BY <1>3, <1>5, <1>6, <1>7

\* The blocks of a function, once it is cut.
LEMMA CutBlocks ==
    ASSUME TypeInv, NEW f \in FunctionIndex, CutUp(f)
    PROVE  /\ funcs[f].insts \in Seq(Addrs(image)) /\ funcs[f].blocks \in Seq(Seq(Addrs(image)))
           /\ funcs[f].blocks = Cut(image.text, funcs[f].insts)
<1>1. f \in 1..Len(funcs)
  BY LenProperties DEF FunctionIndex, TypeInv, Shapes
<1>2. funcs[f] \in FuncType
  BY <1>1, ElementOfSeq DEF TypeInv, Shapes
<1> QED
  BY <1>1, <1>2 DEF FuncType, TypeInv, Blocks

\* What BlocksPartition says of a function.
Places(insts, blocks, n) ==
    {p \in (1..n) \X DOMAIN insts : p[1] < n /\ p[2] \in DOMAIN blocks[p[1]]}
PartitionOf(text, insts, blocks) ==
    /\ Cardinality(Places(insts, blocks, Len(blocks) + 1)) = Len(insts)
    /\ \A n \in DOMAIN blocks :
        /\ blocks[n] # << >>
        /\ \A k \in DOMAIN blocks[n] :
            /\ blocks[n][k] = insts[Cardinality(Places(insts, blocks, n)) + k]
            /\ k < Len(blocks[n]) =>
                ~(isBranch(text[blocks[n][k]]) \/ isReturn(text[blocks[n][k]]))
            /\ k > 1 => \A j \in DOMAIN insts :
                isBranch(text[insts[j]]) /\ HasTarget(text[insts[j]]) =>
                    text[insts[j]].target # blocks[n][k]

\* Blocks that are cut have it.
LEMMA PartitionOfCut ==
    ASSUME NEW T, NEW text, NEW insts \in Seq(T), NEW blocks, blocks = Cut(text, insts)
    PROVE  PartitionOf(text, insts, blocks)
<1>2. insts \in Seq(T) /\ blocks \in Seq(Seq(T))
  BY CutIs
<1>3. PICK size \in Nat : size = Len(blocks) /\ DOMAIN blocks = 1..size
  BY <1>2, LenProperties
<1>4. PICK len \in Nat : len = Len(insts)
  BY <1>2, LenProperties
<1>5. ASSUME NEW n \in 1..(size + 1)
      PROVE  Cardinality(Places(insts, blocks, n)) = Start(text, insts, n) - 1
  <2>1. Places(insts, blocks, n) = {p \in (1..n) \X DOMAIN insts :
                            p[1] < n /\ p[2] \in DOMAIN Cut(text, insts)[p[1]]}
    BY DEF Places
  <2>2. n \in 1..(Len(Cut(text, insts)) + 1)
    BY <1>2, <1>3
  <2> QED
    BY SMTT(30), <1>2, <2>1, <2>2, PlacesBefore
<1>6. Cardinality(Places(insts, blocks, Len(blocks) + 1)) = Len(insts)
  <2>1. size + 1 \in 1..(size + 1)
    OBVIOUS
  <2>2. Start(text, insts, size + 1) = len + 1
    BY <1>2, <1>3, <1>4 DEF Start
  <2> QED
    BY <1>3, <1>4, <1>5, <2>1, <2>2
<1>7. ASSUME NEW n \in DOMAIN blocks
      PROVE  /\ blocks[n] # << >>
             /\ \A k \in DOMAIN blocks[n] :
                    /\ blocks[n][k] = insts[Cardinality(Places(insts, blocks, n)) + k]
                    /\ k < Len(blocks[n]) =>
                        ~(isBranch(text[blocks[n][k]]) \/ isReturn(text[blocks[n][k]]))
                    /\ k > 1 => \A j \in DOMAIN insts :
                        isBranch(text[insts[j]]) /\ HasTarget(text[insts[j]]) =>
                            text[insts[j]].target # blocks[n][k]
  <2>1. n \in 1..size /\ n \in 1..(size + 1) /\ n \in 1..Len(Cut(text, insts))
    BY <1>2, <1>3
  <2>2. PICK y \in Nat \ {0} : y = Len(blocks[n])
    BY <1>2, <2>1, Starts
  <2>2a. /\ Start(text, insts, n) \in 1..(Len(insts) + 1)
         /\ Start(text, insts, n) = First(text, insts, n)
    <3>1. /\ \A m \in 1..(Len(Cut(text, insts)) + 1) : Start(text, insts, m) \in 1..(Len(insts) + 1)
          /\ \A m \in 1..Len(Cut(text, insts)) : Start(text, insts, m) = First(text, insts, m)
      BY <1>2, Starts
    <3>2. n \in 1..(Len(Cut(text, insts)) + 1)
      BY <1>2, <1>3, <2>1
    <3> QED
      BY <2>1, <3>1, <3>2
  <2>3. blocks[n] # << >>
    BY <2>2, EmptySeq
  <2>4. DOMAIN blocks[n] = 1..y
    <3>1. blocks[n] \in Seq(T)
      BY <1>2, <1>3, <2>1, ElementOfSeq
    <3> QED
      BY <2>2, <3>1, LenProperties
  <2>5. PICK x \in 1..(len + 1) : x = Start(text, insts, n) /\ x = First(text, insts, n)
    BY <1>4, <2>2a
  <2>6. Cardinality(Places(insts, blocks, n)) = x - 1
    BY <1>5, <2>1, <2>5
  <2>7. ASSUME NEW k \in 1..y
        PROVE  blocks[n][k] = insts[Cardinality(Places(insts, blocks, n)) + k]
    <3>1. blocks[n][k] = insts[x + k - 1]
      <4>1. \A m \in 1..Len(Cut(text, insts)) : \A i \in 1..Len(Cut(text, insts)[m]) :
                Cut(text, insts)[m][i] = insts[First(text, insts, m) + i - 1]
        BY <1>2, CutIs
      <4> QED
        BY <1>2, <2>1, <2>2, <2>5, <4>1
    <3>2. x - 1 + k = x + k - 1
      BY <2>5
    <3> QED
      BY <2>6, <3>1, <3>2
  <2>8. ASSUME NEW k \in 1..y
        PROVE  /\ k < Len(blocks[n]) =>
                    ~(isBranch(text[blocks[n][k]]) \/ isReturn(text[blocks[n][k]]))
               /\ k > 1 => \A j \in DOMAIN insts :
                    isBranch(text[insts[j]]) /\ HasTarget(text[insts[j]]) =>
                        text[insts[j]].target # blocks[n][k]
    <3>1. k \in 1..Len(Cut(text, insts)[n])
      BY <1>2, <2>2
    <3>2. /\ k < Len(Cut(text, insts)[n]) =>
                ~(isBranch(text[Cut(text, insts)[n][k]]) \/ isReturn(text[Cut(text, insts)[n][k]]))
          /\ k > 1 => \A j \in DOMAIN insts :
                isBranch(text[insts[j]]) /\ HasTarget(text[insts[j]]) =>
                    text[insts[j]].target # Cut(text, insts)[n][k]
      BY ZenonT(30), <1>2, <2>1, <3>1, NoneInside
    <3> QED
      BY <1>2, <3>2
  <2> QED
    BY <2>3, <2>4, <2>7, <2>8
<1> QED
  BY <1>6, <1>7 DEF PartitionOf

\* So a translator that is past the cutting keeps BlocksPartition.
LEMMA PartitionImplied == TypeInv => BlocksPartition
<1> SUFFICES ASSUME TypeInv, phase \in {"create", "translate", "link", "done"}
             PROVE  \A f \in FunctionIndex :
                        PartitionOf(image.text, funcs[f].insts, funcs[f].blocks)
  BY DEF BlocksPartition, PartitionOf, Places, Before, Text
<1> SUFFICES ASSUME NEW f \in FunctionIndex
             PROVE  PartitionOf(image.text, funcs[f].insts, funcs[f].blocks)
  OBVIOUS
<1>1. CutUp(f)
  BY DEF CutUp, Late
<1> QED
  BY <1>1, CutBlocks, PartitionOfCut

\* Whatever the bytes are: the blocks of a function are its instructions in order, none
\* lost and none twice, none is empty, branches and returns end them and no branch
\* of the function goes into the middle of one (mctomir-transform.cpp:189,
\* identify_basic_blocks).
THEOREM BlocksExact == Spec => []BlocksPartition
<1> QED
  BY TypesHold, PartitionImplied, PTL

-----------------------------------------------------------------------------
(* Linear sweeps: what is decoded of a function is its body.               *)

IsCode(img) ==
    /\ Addrs(img) \subseteq Nat
    /\ \A a \in Addrs(img) : img.text[a].size \in Nat \ {0}

SizeAt(img, a) == img.text[a].size

\* The sweep over s has come to p and has decoded insts: they are of the body of
\* s, one after the other, and cover the addresses that decode.
Swept(img, s, insts, p) ==
    /\ s.start <= p
    /\ \A k \in 1..Len(insts) :
        /\ insts[k] \in Addrs(img) /\ s.start <= insts[k]
        /\ insts[k] + SizeAt(img, insts[k]) <= p
        /\ insts[k] \in Body(img, s)
    /\ \A j, k \in 1..Len(insts) : j < k => insts[j] + SizeAt(img, insts[j]) <= insts[k]
    /\ \A a \in s.start..(p - 1) : a \in Addrs(img) =>
        \E k \in 1..Len(insts) : insts[k] <= a /\ a < insts[k] + SizeAt(img, insts[k])
    /\ p < s.start + s.size => \A S \in Sweeps(img, s) : p \in S

\* It begins at the symbol.
LEMMA SweepBegins ==
    ASSUME NEW img, NEW s, s.start \in Nat, s.size \in Nat
    PROVE  Swept(img, s, << >>, s.start)
<1>1. Len(<< >>) = 0
  BY EmptySeq
<1>2. \A S \in Sweeps(img, s) : s.start \in S
  BY DEF Sweeps
<1>3. s.start..(s.start - 1) = {}
  OBVIOUS
<1> QED
  BY <1>1, <1>2, <1>3 DEF Swept

\* It goes on to the next address.
LEMMA SweepNext ==
    ASSUME NEW img, NEW s, s.start \in Nat, s.size \in Nat, NEW p \in Nat,
           p < s.start + s.size, \A S \in Sweeps(img, s) : p \in S
    PROVE  NextAddress(img, p) < s.start + s.size =>
                \A S \in Sweeps(img, s) : NextAddress(img, p) \in S
BY DEF Sweeps

\* A byte that does not decode leaves the sweep where a linear sweep would be.
LEMMA SweepSkips ==
    ASSUME NEW img, IsCode(img), NEW s, s.start \in Nat, s.size \in Nat, NEW p \in Nat,
           NEW insts \in Seq(Addrs(img)), Swept(img, s, insts, p),
           p < s.start + s.size, p \notin Addrs(img)
    PROVE  Swept(img, s, insts, p + 1)
<1>1. NextAddress(img, p) = p + 1
  BY DEF NextAddress
<1>2. p + 1 < s.start + s.size => \A S \in Sweeps(img, s) : p + 1 \in S
  BY <1>1, SweepNext DEF Swept
<1>3. \A k \in 1..Len(insts) : insts[k] \in Nat /\ SizeAt(img, insts[k]) \in Nat
  BY DEF Swept, IsCode, SizeAt
<1>4. \A k \in 1..Len(insts) :
        /\ insts[k] \in Addrs(img) /\ s.start <= insts[k]
        /\ insts[k] + SizeAt(img, insts[k]) <= p + 1
        /\ insts[k] \in Body(img, s)
  BY <1>3 DEF Swept
<1>5. \A a \in s.start..((p + 1) - 1) : a = p \/ a \in s.start..(p - 1)
  OBVIOUS
<1> QED
  BY <1>2, <1>4, <1>5 DEF Swept

\* An instruction that decodes is the next one of a linear sweep.
LEMMA SweepDecodes ==
    ASSUME NEW img, IsCode(img), NEW s, s.start \in Nat, s.size \in Nat, NEW p \in Nat,
           NEW insts \in Seq(Addrs(img)), Swept(img, s, insts, p),
           p < s.start + s.size, p \in Addrs(img)
    PROVE  Swept(img, s, Append(insts, p), p + SizeAt(img, p))
<1>1. NextAddress(img, p) = p + SizeAt(img, p)
  BY DEF NextAddress, SizeAt
<1>2. p + SizeAt(img, p) < s.start + s.size =>
            \A S \in Sweeps(img, s) : p + SizeAt(img, p) \in S
  BY <1>1, SweepNext DEF Swept
<1>3. PICK new : new = Append(insts, p)
  OBVIOUS
<1>4. PICK len \in Nat : len = Len(insts)
  BY LenProperties
<1>5. /\ Len(new) = len + 1 /\ new[len + 1] = p
      /\ \A k \in 1..len : new[k] = insts[k]
  BY <1>3, <1>4, AppendProperties
<1>6. PICK size \in Nat \ {0} : size = SizeAt(img, p)
  BY DEF IsCode, SizeAt
<1>7. \A k \in 1..len : insts[k] \in Nat /\ SizeAt(img, insts[k]) \in Nat
  BY <1>4 DEF Swept, IsCode, SizeAt
<1>8. p \in Body(img, s)
  <2>1. p \in s.start..(s.start + s.size - 1)
    BY DEF Swept
  <2> QED
    BY <2>1 DEF Swept, Body
<1>9. s.start <= p + size
  BY <1>6 DEF Swept
<1>10. ASSUME NEW k \in 1..(len + 1)
       PROVE  /\ new[k] \in Addrs(img) /\ s.start <= new[k]
              /\ new[k] + SizeAt(img, new[k]) <= p + size
              /\ new[k] \in Body(img, s)
  <2>1. CASE k = len + 1
    BY <1>5, <1>6, <1>8, <2>1 DEF Swept
  <2>2. CASE k # len + 1
    <3>1. k \in 1..len /\ new[k] = insts[k]
      BY <1>4, <1>5, <2>2
    <3>2. /\ insts[k] \in Addrs(img) /\ s.start <= insts[k]
          /\ insts[k] + SizeAt(img, insts[k]) <= p
          /\ insts[k] \in Body(img, s)
      BY <1>4, <3>1 DEF Swept
    <3>3. insts[k] + SizeAt(img, insts[k]) <= p + size
      BY <1>6, <1>7, <3>1, <3>2
    <3> QED
      BY <3>1, <3>2, <3>3
  <2> QED
    BY <2>1, <2>2
<1>11. ASSUME NEW j \in 1..(len + 1), NEW k \in 1..(len + 1), j < k
       PROVE  new[j] + SizeAt(img, new[j]) <= new[k]
  <2>1. j \in 1..len /\ new[j] = insts[j]
    BY <1>4, <1>5, <1>11
  <2>2. CASE k = len + 1
    BY <1>4, <1>5, <2>1, <2>2 DEF Swept
  <2>3. CASE k # len + 1
    <3>1. k \in 1..len /\ new[k] = insts[k]
      BY <1>4, <1>5, <2>3
    <3> QED
      BY <1>4, <1>11, <2>1, <3>1 DEF Swept
  <2> QED
    BY <2>2, <2>3
<1>12. ASSUME NEW a \in s.start..((p + size) - 1), a \in Addrs(img)
       PROVE  \E k \in 1..(len + 1) : new[k] <= a /\ a < new[k] + SizeAt(img, new[k])
  <2>1. CASE a < p
    <3>1. a \in s.start..(p - 1)
      BY <2>1
    <3>2. PICK k \in 1..len : insts[k] <= a /\ a < insts[k] + SizeAt(img, insts[k])
      BY <1>4, <1>12, <3>1 DEF Swept
    <3>3. k \in 1..(len + 1) /\ new[k] = insts[k]
      BY <1>4, <1>5
    <3> QED
      BY <3>2, <3>3
  <2>2. CASE ~(a < p)
    <3>1. p <= a /\ a < p + size
      BY <1>6, <2>2
    <3>2. len + 1 \in 1..(len + 1)
      BY <1>4
    <3> QED
      BY <1>5, <1>6, <3>1, <3>2
  <2> QED
    BY <2>1, <2>2
<1>13. Swept(img, s, new, p + size)
  BY <1>2, <1>4, <1>5, <1>6, <1>9, <1>10, <1>11, <1>12 DEF Swept
<1> QED
  BY <1>3, <1>6, <1>13

\* At the end it has decoded the body.
LEMMA SweepExact ==
    ASSUME NEW img, IsCode(img), NEW s, s.start \in Nat, s.size \in Nat, NEW p \in Nat,
           NEW insts \in Seq(Addrs(img)), Swept(img, s, insts, p),
           p >= s.start + s.size
    PROVE  \A a : a \in Body(img, s) <=> \E k \in 1..Len(insts) : a = insts[k]
<1> DEFINE end == s.start + s.size
           V == {a \in s.start..(end - 1) :
                    \A k \in 1..Len(insts) :
                        ~(insts[k] < a /\ a < insts[k] + SizeAt(img, insts[k]))}
<1>1. PICK len \in Nat : len = Len(insts)
  BY LenProperties
<1>2. /\ \A k \in 1..len : /\ insts[k] \in Addrs(img) /\ s.start <= insts[k]
                           /\ insts[k] \in Body(img, s) /\ insts[k] \in Nat
                           /\ SizeAt(img, insts[k]) \in Nat \ {0}
      /\ \A j, k \in 1..len : j < k => insts[j] + SizeAt(img, insts[j]) <= insts[k]
      /\ \A a \in s.start..(p - 1) : a \in Addrs(img) =>
            \E k \in 1..len : insts[k] <= a /\ a < insts[k] + SizeAt(img, insts[k])
  BY <1>1 DEF Swept, IsCode, SizeAt
<1>3. ASSUME NEW a \in V, a \in Addrs(img) PROVE \E k \in 1..len : a = insts[k]
  <2>1. a \in s.start..(p - 1) /\ a \in Nat
    OBVIOUS
  <2>2. PICK k \in 1..len : insts[k] <= a /\ a < insts[k] + SizeAt(img, insts[k])
    BY <1>2, <1>3, <2>1
  <2>3. ~(insts[k] < a)
    BY <1>1, <1>3, <2>2
  <2> QED
    BY <1>2, <2>1, <2>2, <2>3
<1>4. ASSUME NEW a \in V, NextAddress(img, a) < end PROVE NextAddress(img, a) \in V
  <2>1. a \in Nat /\ s.start <= a /\ a < end
    OBVIOUS
  <2>2. CASE a \in Addrs(img)
    <3>1. PICK j \in 1..len : a = insts[j]
      BY <1>3, <2>2
    <3>2. PICK z \in Nat \ {0} : z = SizeAt(img, a)
      BY <1>2, <3>1
    <3>3. NextAddress(img, a) = a + z
      BY <2>2, <3>2 DEF NextAddress, SizeAt
    <3>4. a + z \in s.start..(end - 1)
      BY <1>4, <2>1, <3>2, <3>3
    <3>5. ASSUME NEW k \in 1..len, insts[k] < a + z, a + z < insts[k] + SizeAt(img, insts[k])
          PROVE  FALSE
      <4>1. PICK y \in Nat : y = insts[k]
        BY <1>2
      <4>2. PICK w \in Nat : w = SizeAt(img, insts[k])
        BY <1>2
      <4>3. CASE j < k
        <5>1. a + z <= y
          BY <1>2, <3>1, <3>2, <4>1, <4>3
        <5> QED
          BY <2>1, <3>2, <3>5, <4>1, <5>1
      <4>4. CASE k < j
        <5>1. y + w <= a
          BY <1>2, <3>1, <4>1, <4>2, <4>4
        <5> QED
          BY <2>1, <3>2, <3>5, <4>1, <4>2, <5>1
      <4>5. CASE k = j
        BY <2>1, <3>1, <3>2, <3>5, <4>1, <4>2, <4>5
      <4> QED
        BY <1>1, <4>3, <4>4, <4>5
    <3> QED
      BY <1>1, <3>3, <3>4, <3>5
  <2>3. CASE a \notin Addrs(img)
    <3>1. NextAddress(img, a) = a + 1
      BY <2>3 DEF NextAddress
    <3>2. a + 1 \in s.start..(end - 1)
      BY <1>4, <2>1, <3>1
    <3>3. ASSUME NEW k \in 1..len, insts[k] < a + 1, a + 1 < insts[k] + SizeAt(img, insts[k])
          PROVE  FALSE
      <4>1. PICK y \in Nat : y = insts[k] /\ y \in Addrs(img)
        BY <1>2
      <4>2. PICK w \in Nat : w = SizeAt(img, insts[k])
        BY <1>2
      <4>3. y # a
        BY <2>3, <4>1
      <4>4. y < a /\ a < y + w
        BY SMTT(30), <2>1, <3>3, <4>1, <4>2, <4>3
      <4> QED
        BY <1>1, <4>1, <4>2, <4>4
    <3> QED
      BY <1>1, <3>1, <3>2, <3>3
  <2> QED
    BY <2>2, <2>3
<1>5. ASSUME NEW a \in Body(img, s) PROVE \E k \in 1..len : a = insts[k]
  <2>1. a \in s.start..(end - 1) /\ a \in Addrs(img) /\ \A S \in Sweeps(img, s) : a \in S
    BY DEF Body
  <2>2. s.start \in V
    <3>1. s.start \in s.start..(end - 1)
      BY <2>1
    <3>2. \A k \in 1..len : ~(insts[k] < s.start)
      BY <1>2
    <3> QED
      BY <1>1, <3>1, <3>2
  <2>3. V \in SUBSET (s.start..(end - 1))
    OBVIOUS
  <2>4. \A b \in V : NextAddress(img, b) < end => NextAddress(img, b) \in V
    BY <1>4
  <2> HIDE DEF V
  <2>5. V \in Sweeps(img, s)
    BY <2>2, <2>3, <2>4 DEF Sweeps
  <2>6. a \in V
    BY <2>1, <2>5
  <2> QED
    BY <1>3, <2>1, <2>6
<1> QED
  BY <1>1, <1>2, <1>5

\* The functions are the symbols, in some order; each is decoded completely, the
\* current one up to pc.
Numbering(sym) ==
    /\ sym \in [1..Len(funcs) -> Functions(image)]
    /\ \A i, j \in 1..Len(funcs) : sym[i] = sym[j] => i = j
    /\ \A s \in Functions(image) : \E i \in 1..Len(funcs) : sym[i] = s
    /\ \A i \in 1..Len(funcs) :
        funcs[i].start = sym[i].start /\ funcs[i].end = sym[i].start + sym[i].size

Complete(img, s, insts) == \E p \in Nat : p >= s.start + s.size /\ Swept(img, s, insts, p)

Progress(i, s) ==
    /\ phase # "decode" \/ i < at.fn => Complete(image, s, funcs[i].insts)
    /\ phase = "decode" /\ i = at.fn => Swept(image, s, funcs[i].insts, pc)
    /\ phase = "decode" /\ i > at.fn => funcs[i].insts = << >>

SweepInv ==
    phase # "symbols" =>
        \E sym : Numbering(sym) /\ \A i \in 1..Len(funcs) : Progress(i, sym[i])

\* Symbols and code of the object file.
LEMMA CodeType ==
    ASSUME TypeInv
    PROVE  /\ IsCode(image) /\ \A s \in Functions(image) : s.start \in Nat /\ s.size \in Nat
           /\ Len(funcs) \in Nat /\ at.fn \in Nat /\ pc \in Nat
           /\ \A i \in 1..Len(funcs) :
                funcs[i] \in FuncType /\ funcs[i].insts \in Seq(Addrs(image))
<1>1. image \in Images /\ funcs \in Seq(FuncType) /\ at.fn \in Nat /\ pc \in Nat
  BY DEF TypeInv, Shapes
<1>2. \A i \in 1..Len(funcs) : funcs[i] \in FuncType
  BY <1>1, ElementOfSeq
<1>3. \A i \in 1..Len(funcs) : funcs[i].insts \in Seq(Addrs(image))
  BY <1>2 DEF FuncType
<1>4. Len(funcs) \in Nat
  BY <1>1, LenProperties
<1> QED
  BY <1>1, <1>2, <1>3, <1>4, TextType DEF IsCode, Text

\* The symbols are numbered when they are sorted.
LEMMA CollectSweeps ==
    ASSUME TypeInv, CollectSymbols PROVE SweepInv'
<1>1. PICK n \in Nat : n = Cardinality(Functions(image)) /\ IsFiniteSet(Functions(image))
  BY TextType DEF TypeInv, Shapes
<1>2. PICK order \in [1..n -> Functions(image)] :
        /\ Functions(image) = {order[i] : i \in 1..n}
        /\ funcs' = [i \in 1..n |->
                        [start |-> order[i].start,
                         end |-> order[i].start + order[i].size,
                         insts |-> << >>, blocks |-> << >>]]
        /\ pc' = IF 1..n = {} THEN 0 ELSE order[1].start
  <2>1. PICK order \in [1..n -> Functions(image)] :
        /\ Functions(image) = {order[i] : i \in DOMAIN order}
        /\ funcs' = [i \in DOMAIN order |->
                        [start |-> order[i].start,
                         end |-> order[i].start + order[i].size,
                         insts |-> << >>, blocks |-> << >>]]
        /\ pc' = IF DOMAIN order = {} THEN 0 ELSE order[1].start
    BY <1>1 DEF CollectSymbols
  <2>2. DOMAIN order = 1..n
    OBVIOUS
  <2> QED
    BY <2>1, <2>2
<1>3. phase' = "decode" /\ at'.fn = 1 /\ image' = image
  BY DEF CollectSymbols, Enter
<1>4. \A i \in 1..n : order[i].start \in Nat /\ order[i].size \in Nat
  BY <1>2, CodeType
<1>5. Len(funcs') = n
  <2>1. PICK T : T = {funcs'[i] : i \in 1..n}
    OBVIOUS
  <2>2. funcs' \in [1..n -> T]
    BY <1>2, <2>1
  <2>3. funcs' \in Seq(T)
    BY <1>1, <2>2, SeqDef
  <2> QED
    BY <1>1, <2>2, <2>3, LenProperties
<1>6. \A i, j \in 1..n : order[i] = order[j] => i = j
  <2>1. IsFiniteSet(1..n) /\ Cardinality(1..n) = n
    <3>1. 1 \in Int /\ n \in Int
      BY <1>1
    <3>2. IsFiniteSet(1..n) /\ Cardinality(1..n) = IF 1 > n THEN 0 ELSE n - 1 + 1
      BY <3>1, FS_Interval
    <3> QED
      BY <1>1, <3>2
  <2>2. order \in Surjection(1..n, Functions(image))
    BY <1>2 DEF Surjection
  <2>3. order \in Injection(1..n, Functions(image))
    BY <1>1, <2>1, <2>2, FS_Surjection
  <2> QED
    BY <2>3 DEF Injection, IsInjective
<1>7. \A i \in 1..n : /\ funcs'[i].start = order[i].start
                      /\ funcs'[i].end = order[i].start + order[i].size
                      /\ funcs'[i].insts = << >>
  BY <1>2
<1>8. Numbering(order)'
  BY <1>2, <1>3, <1>5, <1>6, <1>7 DEF Numbering
<1>9. ASSUME NEW i \in 1..n
      PROVE  /\ ~(phase' # "decode" \/ i < at'.fn)
             /\ i = at'.fn => Swept(image', order[i], funcs'[i].insts, pc')
             /\ funcs'[i].insts = << >>
  <2>1. ~(phase' # "decode" \/ i < at'.fn)
    BY <1>3
  <2>2. i = at'.fn => pc' = order[i].start
    BY <1>2, <1>3
  <2>3. Swept(image, order[i], << >>, order[i].start)
    BY <1>4, SweepBegins
  <2> QED
    BY <1>3, <1>7, <2>1, <2>2, <2>3
<1>10. \A i \in 1..Len(funcs') : Progress(i, order[i])'
  BY <1>5, <1>9 DEF Progress
<1> QED
  BY <1>8, <1>10 DEF SweepInv

\* Later steps leave what was decoded.
LEMMA SweepsKept ==
    ASSUME SweepInv, phase \notin {"symbols", "decode"}, phase' \notin {"symbols", "decode"},
           image' = image, Len(funcs') = Len(funcs),
           \A i \in 1..Len(funcs) :
                /\ funcs'[i].start = funcs[i].start /\ funcs'[i].end = funcs[i].end
                /\ funcs'[i].insts = funcs[i].insts
    PROVE  SweepInv'
<1>1. PICK sym : Numbering(sym) /\ \A i \in 1..Len(funcs) : Progress(i, sym[i])
  BY DEF SweepInv
<1>2. Numbering(sym)'
  BY <1>1 DEF Numbering
<1>3. ASSUME NEW i \in 1..Len(funcs) PROVE Complete(image', sym[i], funcs'[i].insts)
  BY <1>1 DEF Progress
<1>4. \A i \in 1..Len(funcs') : Progress(i, sym[i])'
  BY <1>3 DEF Progress
<1> QED
  BY <1>2, <1>4 DEF SweepInv

\* The steps of the disassembler.
LEMMA DecodeSweeps ==
    ASSUME TypeInv, SweepInv, DecodeInstruction \/ SkipIllegalByte
    PROVE  SweepInv'
<1>1. /\ phase = "decode" /\ phase' = "decode" /\ at.fn <= Len(funcs) /\ pc < Func.end
      /\ image' = image /\ at' = at
  BY DEF DecodeInstruction, SkipIllegalByte, Decoding
<1>2. PICK sym : Numbering(sym) /\ \A i \in 1..Len(funcs) : Progress(i, sym[i])
  BY <1>1 DEF SweepInv
<1>3. PICK f \in 1..Len(funcs) : f = at.fn /\ Func = funcs[f] /\ funcs[f] \in FuncType
  BY <1>1, Current
<1>4. PICK s \in Functions(image) : s = sym[f] /\ s.start \in Nat /\ s.size \in Nat
  BY <1>2, CodeType DEF Numbering
<1>5. PICK insts \in Seq(Addrs(image)) : insts = funcs[f].insts
  BY CodeType
<1>6. Swept(image, s, insts, pc) /\ pc < s.start + s.size /\ pc \in Nat /\ IsCode(image)
  BY <1>1, <1>2, <1>3, <1>4, <1>5, CodeType DEF Progress, Numbering
<1>7. CASE DecodeInstruction
  <2>1. pc \in Addrs(image) /\ pc' = pc + SizeAt(image, pc)
    BY <1>7 DEF DecodeInstruction, Text, SizeAt
  <2>2. Swept(image, s, Append(insts, pc), pc')
    BY <1>4, <1>6, <2>1, SweepDecodes
  <2>3. PICK new \in FuncType : /\ new = [funcs[f] EXCEPT !.insts = Append(insts, pc)]
                                /\ new.insts = Append(insts, pc)
                                /\ new.start = funcs[f].start /\ new.end = funcs[f].end
    <3>1. PICK more \in Seq(Addrs(image)) : more = Append(insts, pc)
      BY <2>1, AppendProperties
    <3>2. /\ [funcs[f] EXCEPT !.insts = more] \in FuncType
          /\ [funcs[f] EXCEPT !.insts = more].insts = more
          /\ [funcs[f] EXCEPT !.insts = more].start = funcs[f].start
          /\ [funcs[f] EXCEPT !.insts = more].end = funcs[f].end
      BY <1>3 DEF FuncType
    <3> QED
      BY <3>1, <3>2
  <2>4. funcs' = [funcs EXCEPT ![f] = new]
    BY <1>3, <1>5, <1>7, <2>3 DEF DecodeInstruction
  <2>5. /\ Len([funcs EXCEPT ![f] = new]) = Len(funcs)
        /\ \A g \in 1..Len(funcs) : [funcs EXCEPT ![f] = new][g] = IF g = f THEN new ELSE funcs[g]
    BY ExceptSeq DEF TypeInv, Shapes
  <2>6. Numbering(sym)'
    BY <1>1, <1>2, <2>3, <2>4, <2>5 DEF Numbering
  <2>7. ASSUME NEW i \in 1..Len(funcs')
        PROVE  /\ i < at.fn => Complete(image, sym[i], funcs'[i].insts)
               /\ i = at.fn => Swept(image, sym[i], funcs'[i].insts, pc')
               /\ i > at.fn => funcs'[i].insts = << >>
    <3>1. CASE i = f
      <4>1. i = at.fn /\ ~(i < at.fn) /\ ~(i > at.fn)
        BY <1>3, <3>1, CodeType
      <4> QED
        BY <1>4, <2>2, <2>3, <2>4, <2>5, <3>1, <4>1
    <3>2. CASE i # f
      <4>1. i \in 1..Len(funcs) /\ funcs'[i] = funcs[i] /\ i # at.fn
        BY <1>3, <2>4, <2>5, <3>2
      <4> QED
        BY <1>1, <1>2, <4>1 DEF Progress
    <3> QED
      BY <3>1, <3>2
  <2>8. \A i \in 1..Len(funcs') : Progress(i, sym[i])'
    BY <1>1, <2>7 DEF Progress
  <2> QED
    BY <2>6, <2>8 DEF SweepInv
<1>8. CASE SkipIllegalByte
  <2>1. pc \notin Addrs(image) /\ pc' = pc + 1 /\ funcs' = funcs
    BY <1>8 DEF SkipIllegalByte
  <2>2. Swept(image, s, insts, pc')
    BY <1>4, <1>6, <2>1, SweepSkips
  <2>3. Numbering(sym)'
    BY <1>1, <1>2, <2>1 DEF Numbering
  <2>4. \A i \in 1..Len(funcs') : Progress(i, sym[i])'
    BY <1>1, <1>2, <1>3, <1>4, <1>5, <2>1, <2>2 DEF Progress
  <2> QED
    BY <2>3, <2>4 DEF SweepInv
<1> QED
  BY <1>7, <1>8

\* The disassembler goes on to the next function at the end of one.
LEMMA FinishSweeps ==
    ASSUME TypeInv, SweepInv, FinishFunction
    PROVE  SweepInv'
<1>1. /\ phase = "decode" /\ phase' = "decode" /\ at.fn <= Len(funcs) /\ pc >= Func.end
      /\ image' = image /\ funcs' = funcs /\ at' = [at EXCEPT !.fn = @ + 1]
      /\ pc' = IF at.fn < Len(funcs) THEN funcs[at.fn + 1].start ELSE 0
  BY DEF FinishFunction, Decoding
<1>2. PICK sym : Numbering(sym) /\ \A i \in 1..Len(funcs) : Progress(i, sym[i])
  BY <1>1 DEF SweepInv
<1>3. PICK f \in 1..Len(funcs) : f = at.fn /\ Func = funcs[f] /\ f \in Nat /\ Len(funcs) \in Nat
  BY <1>1, Current
<1>4. at'.fn = f + 1
  BY <1>1, <1>3, NextFunction DEF TypeInv
<1>5. Numbering(sym)'
  BY <1>1, <1>2 DEF Numbering
<1>6. ASSUME NEW i \in 1..Len(funcs)
      PROVE  /\ i < f + 1 => Complete(image, sym[i], funcs[i].insts)
             /\ i = f + 1 => Swept(image, sym[i], funcs[i].insts, pc')
             /\ i > f + 1 => funcs[i].insts = << >>
  <2>1. Progress(i, sym[i]) /\ i \in Nat
    BY <1>2, <1>3
  <2>2. CASE i < f
    BY <1>1, <1>3, <2>1, <2>2 DEF Progress
  <2>3. CASE i = f
    <3>1. Swept(image, sym[i], funcs[i].insts, pc) /\ pc >= sym[i].start + sym[i].size
      BY <1>1, <1>2, <1>3, <2>1, <2>3 DEF Progress, Numbering
    <3>2. Complete(image, sym[i], funcs[i].insts)
      BY <3>1, CodeType DEF Complete
    <3> QED
      BY <1>3, <2>3, <3>2
  <2>4. CASE i = f + 1
    <3>1. at.fn < Len(funcs) /\ i > at.fn
      BY <1>3, <2>4
    <3>2. pc' = sym[i].start /\ funcs[i].insts = << >>
      BY <1>1, <1>2, <1>3, <2>1, <2>4, <3>1 DEF Progress, Numbering
    <3>3. sym[i].start \in Nat /\ sym[i].size \in Nat
      BY <1>2, CodeType DEF Numbering
    <3>4. Swept(image, sym[i], << >>, sym[i].start)
      BY <3>3, SweepBegins
    <3> QED
      BY <1>3, <2>4, <3>2, <3>4
  <2>5. CASE i > f + 1
    BY <1>1, <1>3, <2>1, <2>5 DEF Progress
  <2> QED
    BY <1>3, <2>1, <2>2, <2>3, <2>4, <2>5
<1>7. \A i \in 1..Len(funcs') : Progress(i, sym[i])'
  BY <1>1, <1>4, <1>6 DEF Progress
<1> QED
  BY <1>5, <1>7 DEF SweepInv

\* Cutting a function changes its blocks only.
LEMMA IdentifyIs ==
    ASSUME TypeInv, IdentifyBasicBlocks
    PROVE  /\ phase = "identify" /\ phase' = "identify" /\ image' = image
           /\ Len(funcs') = Len(funcs)
           /\ \A i \in 1..Len(funcs) :
                /\ funcs'[i].start = funcs[i].start /\ funcs'[i].end = funcs[i].end
                /\ funcs'[i].insts = funcs[i].insts
<1>1. PICK f \in 1..Len(funcs) : f = at.fn /\ Func = funcs[f] /\ funcs[f] \in FuncType
  BY Current DEF IdentifyBasicBlocks
<1>2. PICK insts \in Seq(Addrs(image)) : insts = funcs[f].insts
  BY CodeType
<1>3. Func.insts # << >> => Func.insts[1] \in Leaders(image.text, Func.insts)
  <2> SUFFICES ASSUME insts # << >> PROVE insts[1] \in Leaders(image.text, insts)
    BY <1>1, <1>2
  <2>1. 1 \in DOMAIN insts
    BY EmptySeq, LenProperties
  <2> QED
    BY <2>1 DEF Leaders
<1>4. /\ phase = "identify" /\ phase' = "identify" /\ image' = image
      /\ funcs' = [funcs EXCEPT ![at.fn].blocks = Cut(image.text, Func.insts)]
  BY <1>3 DEF IdentifyBasicBlocks
<1>5. PICK blocks \in Seq(Seq(Addrs(image))) : blocks = Cut(image.text, Func.insts)
  BY <1>1, <1>2, CutIs
<1>6. PICK new \in FuncType : new = [funcs[f] EXCEPT !.blocks = blocks]
  BY <1>1 DEF FuncType
<1>7. new.start = funcs[f].start /\ new.end = funcs[f].end /\ new.insts = funcs[f].insts
  BY <1>1, <1>6 DEF FuncType
<1>8. funcs' = [funcs EXCEPT ![f] = new]
  BY <1>1, <1>4, <1>5, <1>6
<1>9. /\ Len([funcs EXCEPT ![f] = new]) = Len(funcs)
      /\ \A g \in 1..Len(funcs) : [funcs EXCEPT ![f] = new][g] = IF g = f THEN new ELSE funcs[g]
  BY ExceptSeq DEF TypeInv, Shapes
<1> QED
  BY <1>4, <1>7, <1>8, <1>9

\* Every function is decoded when the cutting begins.
LEMMA PhaseSweeps ==
    ASSUME TypeInv, SweepInv, NextPhase PROVE SweepInv'
<1>1. /\ phase \in DOMAIN Following /\ at.fn > Len(funcs) /\ phase' = Following[phase]
      /\ UNCHANGED <<image, funcs>>
  BY DEF NextPhase, Enter
<1>2. phase # "symbols" /\ phase' \notin {"symbols", "decode"}
  BY <1>1, Phases
<1>3. PICK sym : Numbering(sym) /\ \A i \in 1..Len(funcs) : Progress(i, sym[i])
  BY <1>2 DEF SweepInv
<1>4. Numbering(sym)'
  BY <1>1, <1>3 DEF Numbering
<1>5. ASSUME NEW i \in 1..Len(funcs) PROVE Complete(image', sym[i], funcs'[i].insts)
  <2>1. i < at.fn
    BY <1>1, CodeType
  <2> QED
    BY <1>1, <1>3, <2>1 DEF Progress
<1>6. \A i \in 1..Len(funcs') : Progress(i, sym[i])'
  BY <1>1, <1>2, <1>5 DEF Progress
<1> QED
  BY <1>4, <1>6 DEF SweepInv

\* No step leaves what is decoded.
LEMMA NextSweeps == TypeInv /\ SweepInv /\ [Next]_vars => SweepInv'
<1> SUFFICES ASSUME TypeInv, SweepInv, [Next]_vars PROVE SweepInv'
  OBVIOUS
<1>1. CASE UNCHANGED vars
  BY <1>1 DEF vars, SweepInv, Numbering, Progress
<1>2. CASE CollectSymbols
  BY <1>2, CollectSweeps
<1>3. CASE DecodeInstruction \/ SkipIllegalByte
  BY <1>3, DecodeSweeps
<1>4. CASE FinishFunction
  BY <1>4, FinishSweeps
<1>5. CASE IdentifyBasicBlocks
  BY <1>5, IdentifyIs, SweepsKept
<1>6. CASE CreateMachineBasicBlocks \/ Translate \/ Link \/ NextBlock \/ FinishLinking
  <2>1. phase \in {"create", "translate", "link"} /\ UNCHANGED <<image, phase, funcs>>
    BY Zenon, <1>6, TranslateIs, LinkIs
       DEF CreateMachineBasicBlocks, NextBlock, FinishLinking, Translating, Linking
  <2> QED
    BY <2>1, SweepsKept
<1>7. CASE NextPhase
  BY <1>7, PhaseSweeps
<1> QED
  BY <1>1, <1>2, <1>3, <1>4, <1>5, <1>6, <1>7 DEF Next, Translate, Link

\* The sweep invariant holds for every object file.
LEMMA SweepsHold == Spec => []SweepInv
<1>1. Init => SweepInv
  BY DEF Init, SweepInv
<1> QED
  BY <1>1, TypesHold, NextSweeps, PTL DEF Spec

-----------------------------------------------------------------------------
(* Structured object files.                                                *)

IsEntrySymbol(img, t) == \E g \in Functions(img) : t = g.start /\ t \in Body(img, g)

\* What Structured says of bodies.
LEMMA StructuredIs ==
    ASSUME NEW img, Structured(img)
    PROVE  \A f \in Functions(img) :
            /\ \A g \in Functions(img) : \A a :
                a \in Body(img, f) /\ a \in Body(img, g) => f = g
            /\ \A a \in Body(img, f) :
                /\ \A t \in MachineFlow(img, a) :
                    t \in Body(img, f) \/ (img.text[a].kind = "jmp" /\ IsEntrySymbol(img, t))
                /\ img.text[a].kind = "call" => IsEntrySymbol(img, img.text[a].target)
<1> DEFINE F == Functions(img)
           body == [f \in F |-> Body(img, f)]
           Entries == {f.start : f \in {g \in F : g.start \in body[g]}}
<1>1. \A f \in F : body[f] = Body(img, f)
  OBVIOUS
<1>2. \A f \in F :
        /\ \A g \in F \ {f} : body[f] \cap body[g] = {}
        /\ \A a \in body[f] :
            /\ MachineFlow(img, a) \subseteq
                    body[f] \cup (IF img.text[a].kind = "jmp" THEN Entries ELSE {})
            /\ img.text[a].kind = "call" => img.text[a].target \in Entries
  BY DEF Structured
<1>3. \A t \in Entries : IsEntrySymbol(img, t)
  BY <1>1 DEF IsEntrySymbol
<1> HIDE DEF F, body, Entries
<1>4. ASSUME NEW f \in F
      PROVE  /\ \A g \in F : \A a : a \in Body(img, f) /\ a \in Body(img, g) => f = g
             /\ \A a \in Body(img, f) :
                /\ \A t \in MachineFlow(img, a) :
                    t \in Body(img, f) \/ (img.text[a].kind = "jmp" /\ IsEntrySymbol(img, t))
                /\ img.text[a].kind = "call" => IsEntrySymbol(img, img.text[a].target)
  <2>1. ASSUME NEW g \in F, NEW a, a \in Body(img, f), a \in Body(img, g) PROVE f = g
    <3> SUFFICES ASSUME f # g PROVE FALSE
      OBVIOUS
    <3>1. body[f] \cap body[g] = {}
      BY <1>2
    <3> QED
      BY <1>1, <2>1, <3>1
  <2>2. ASSUME NEW a \in Body(img, f), NEW t \in MachineFlow(img, a)
        PROVE  t \in Body(img, f) \/ (img.text[a].kind = "jmp" /\ IsEntrySymbol(img, t))
    <3>1. a \in body[f] /\ body[f] = Body(img, f)
      BY <1>1
    <3>2. t \in body[f] \cup (IF img.text[a].kind = "jmp" THEN Entries ELSE {})
      BY <1>2, <3>1
    <3> QED
      BY <1>3, <3>1, <3>2
  <2>3. ASSUME NEW a \in Body(img, f), img.text[a].kind = "call"
        PROVE  IsEntrySymbol(img, img.text[a].target)
    <3>1. a \in body[f]
      BY <1>1
    <3> QED
      BY <1>2, <1>3, <2>3, <3>1
  <2> QED
    BY <2>1, <2>2, <2>3
<1> QED
  BY <1>4 DEF F

IsInst(f, a) == \E k \in 1..Len(funcs[f].insts) : a = funcs[f].insts[k]
IsEntry(g, a) == 1 \in 1..Len(funcs[g].insts) /\ a = funcs[g].insts[1]

\* Instructions are apart, those of different functions too, and control goes from
\* them to instructions of the function or, by jumps and calls, to first ones.
Exact ==
    \A f \in 1..Len(funcs) :
        /\ \A j, k \in 1..Len(funcs[f].insts) :
            j < k => funcs[f].insts[j] + SizeAt(image, funcs[f].insts[j]) <= funcs[f].insts[k]
        /\ \A g \in 1..Len(funcs) : \A a : IsInst(f, a) /\ IsInst(g, a) => f = g
        /\ \A a : IsInst(f, a) =>
            /\ \A t \in MachineFlow(image, a) :
                \/ IsInst(f, t)
                \/ Text(a).kind = "jmp" /\ \E g \in 1..Len(funcs) : IsEntry(g, t)
            /\ Text(a).kind = "call" => \E g \in 1..Len(funcs) : IsEntry(g, Text(a).target)

\* In a structured object file the tables of the functions are exactly its code: bodies,
\* entries and the functions that targets lie in.
LEMMA ExactHolds ==
    ASSUME TypeInv, SweepInv, Structured(image), phase \notin {"symbols", "decode"}
    PROVE  Exact
<1>1. PICK sym : Numbering(sym) /\ \A i \in 1..Len(funcs) : Progress(i, sym[i])
  BY DEF SweepInv
<1>2. \A f \in 1..Len(funcs) :
        /\ sym[f] \in Functions(image)
        /\ sym[f].start \in Nat /\ sym[f].size \in Nat
        /\ funcs[f].insts \in Seq(Addrs(image))
        /\ Len(funcs[f].insts) \in Nat
  BY <1>1, CodeType, LenProperties DEF Numbering
<1>3. ASSUME NEW f \in 1..Len(funcs)
      PROVE  \E p \in Nat : /\ p >= sym[f].start + sym[f].size
                            /\ Swept(image, sym[f], funcs[f].insts, p)
  BY <1>1 DEF Progress, Complete
<1>4. ASSUME NEW f \in 1..Len(funcs), NEW a
      PROVE  a \in Body(image, sym[f]) <=> IsInst(f, a)
  <2>1. PICK p \in Nat : /\ p >= sym[f].start + sym[f].size
                         /\ Swept(image, sym[f], funcs[f].insts, p)
    BY <1>3
  <2>2. PICK insts \in Seq(Addrs(image)) : insts = funcs[f].insts
    BY <1>2
  <2>3. PICK s : s = sym[f] /\ s.start \in Nat /\ s.size \in Nat
    BY <1>2
  <2>4. IsCode(image) /\ p >= s.start + s.size /\ Swept(image, s, insts, p)
    BY <2>1, <2>2, <2>3, CodeType
  <2>5. a \in Body(image, s) <=> \E k \in 1..Len(insts) : a = insts[k]
    BY <2>3, <2>4, SweepExact
  <2> QED
    BY <2>2, <2>3, <2>5 DEF IsInst
<1>5. ASSUME NEW t, IsEntrySymbol(image, t) PROVE \E g \in 1..Len(funcs) : IsEntry(g, t)
  <2>1. PICK s \in Functions(image) : t = s.start /\ t \in Body(image, s)
    BY <1>5 DEF IsEntrySymbol
  <2>2. PICK g \in 1..Len(funcs) : s = sym[g]
    BY <1>1 DEF Numbering
  <2>3. PICK len \in Nat : len = Len(funcs[g].insts)
    BY <1>2
  <2>4. PICK k \in 1..len : t = funcs[g].insts[k]
    BY ZenonT(30), <1>4, <2>1, <2>2, <2>3 DEF IsInst
  <2>5. PICK p \in Nat : Swept(image, s, funcs[g].insts, p)
    BY <1>3, <2>2
  <2>6. 1 \in 1..len
    BY <2>3
  <2>7. PICK first \in Nat : /\ first = funcs[g].insts[1] /\ s.start <= first
                             /\ SizeAt(image, first) \in Nat \ {0}
    <3>1. funcs[g].insts[1] \in Addrs(image) /\ s.start <= funcs[g].insts[1]
      BY <2>3, <2>5, <2>6 DEF Swept
    <3> QED
      BY <3>1, CodeType DEF IsCode, SizeAt
  <2>8. k # 1 => first + SizeAt(image, first) <= t
    BY <2>3, <2>4, <2>5, <2>6, <2>7 DEF Swept
  <2>9. t \in Nat
    BY <1>2, <2>1, <2>2
  <2>10. t = first
    BY <2>1, <2>4, <2>7, <2>8, <2>9
  <2> QED
    BY <2>3, <2>6, <2>7, <2>10 DEF IsEntry
<1>6. ASSUME NEW f \in 1..Len(funcs)
      PROVE  /\ \A j, k \in 1..Len(funcs[f].insts) :
                j < k => funcs[f].insts[j] + SizeAt(image, funcs[f].insts[j]) <= funcs[f].insts[k]
             /\ \A g \in 1..Len(funcs) : \A a : IsInst(f, a) /\ IsInst(g, a) => f = g
             /\ \A a : IsInst(f, a) =>
                /\ \A t \in MachineFlow(image, a) :
                    \/ IsInst(f, t)
                    \/ Text(a).kind = "jmp" /\ \E g \in 1..Len(funcs) : IsEntry(g, t)
                /\ Text(a).kind = "call" => \E g \in 1..Len(funcs) : IsEntry(g, Text(a).target)
  <2>1. PICK p \in Nat : Swept(image, sym[f], funcs[f].insts, p)
    BY <1>3
  <2>2. \A j, k \in 1..Len(funcs[f].insts) :
            j < k => funcs[f].insts[j] + SizeAt(image, funcs[f].insts[j]) <= funcs[f].insts[k]
    BY <2>1 DEF Swept
  <2>3. ASSUME NEW g \in 1..Len(funcs), NEW a, IsInst(f, a), IsInst(g, a) PROVE f = g
    <3>1. a \in Body(image, sym[f]) /\ a \in Body(image, sym[g])
      BY <1>4, <2>3
    <3>2. sym[f] = sym[g]
      BY <1>2, <3>1, StructuredIs
    <3> QED
      BY <1>1, <3>2 DEF Numbering
  <2>4. ASSUME NEW a, IsInst(f, a)
        PROVE  /\ \A t \in MachineFlow(image, a) :
                    \/ IsInst(f, t)
                    \/ Text(a).kind = "jmp" /\ \E g \in 1..Len(funcs) : IsEntry(g, t)
               /\ Text(a).kind = "call" => \E g \in 1..Len(funcs) : IsEntry(g, Text(a).target)
    <3>1. a \in Body(image, sym[f])
      BY <1>4, <2>4
    <3>2. /\ \A t \in MachineFlow(image, a) :
                \/ t \in Body(image, sym[f])
                \/ image.text[a].kind = "jmp" /\ IsEntrySymbol(image, t)
          /\ image.text[a].kind = "call" => IsEntrySymbol(image, image.text[a].target)
      BY <1>2, <3>1, StructuredIs
    <3> QED
      BY <1>4, <1>5, <3>2 DEF Text
  <2> QED
    BY <2>2, <2>3, <2>4
<1> QED
  BY <1>6 DEF Exact

\* Blocks follow each other as the instructions do.
LaidOut(insts, blocks) ==
    \A n \in 1..Len(blocks) : \A k \in 1..Len(blocks[n]) :
        \E p \in 1..Len(insts) :
            /\ blocks[n][k] = insts[p]
            /\ k < Len(blocks[n]) => p < Len(insts) /\ blocks[n][k + 1] = insts[p + 1]
            /\ k = Len(blocks[n]) /\ n < Len(blocks) =>
                p < Len(insts) /\ blocks[n + 1][1] = insts[p + 1]
            /\ k = Len(blocks[n]) /\ n = Len(blocks) => p = Len(insts)

\* First instructions of blocks, and the instructions after others.
LEMMA CutPlaces ==
    ASSUME NEW T, NEW text, NEW insts \in Seq(T), NEW blocks, blocks = Cut(text, insts)
    PROVE  /\ \A n \in 1..Len(blocks) : 1 \in 1..Len(blocks[n]) /\ Len(blocks[n]) \in Nat
           /\ \A p \in Firsts(text, insts) : \E n \in 1..Len(blocks) : blocks[n][1] = insts[p]
           /\ insts # << >> => 1 \in 1..Len(blocks) /\ blocks[1][1] = insts[1]
           /\ LaidOut(insts, blocks)
<1>1. PICK size \in Nat : size = Len(blocks)
  BY Starts
<1>2. PICK len \in Nat : len = Len(insts)
  BY Starts
<1>3. /\ \A n \in 1..size : /\ First(text, insts, n) \in 1..len
                            /\ Len(blocks[n]) \in Nat \ {0}
      /\ \A n \in 1..size : \A k \in 1..Len(blocks[n]) :
            /\ First(text, insts, n) + k - 1 \in 1..len
            /\ blocks[n][k] = insts[First(text, insts, n) + k - 1]
  <2>1. \A n \in 1..size : /\ First(text, insts, n) \in 1..len
                           /\ \A k \in 1..Len(blocks[n]) :
                                /\ First(text, insts, n) + k - 1 \in 1..len
                                /\ blocks[n][k] = insts[First(text, insts, n) + k - 1]
    <3>1. \A n \in 1..Len(Cut(text, insts)) :
            /\ First(text, insts, n) \in 1..Len(insts)
            /\ \A k \in 1..Len(Cut(text, insts)[n]) :
                /\ First(text, insts, n) + k - 1 \in 1..Len(insts)
                /\ Cut(text, insts)[n][k] = insts[First(text, insts, n) + k - 1]
      BY SMTT(30), CutIs
    <3> QED
      BY <1>1, <1>2, <3>1
  <2>2. \A n \in 1..size : Len(blocks[n]) \in Nat \ {0}
    BY <1>1, Starts
  <2> QED
    BY <2>1, <2>2
<1>4. ASSUME NEW n \in 1..size PROVE 1 \in 1..Len(blocks[n]) /\ Len(blocks[n]) \in Nat
  BY <1>3
<1>5. ASSUME NEW n \in 1..size PROVE blocks[n][1] = insts[First(text, insts, n)]
  <2>1. blocks[n][1] = insts[First(text, insts, n) + 1 - 1]
    BY <1>3, <1>4
  <2>2. PICK x \in 1..len : x = First(text, insts, n)
    BY <1>3
  <2>3. x + 1 - 1 = x
    OBVIOUS
  <2> QED
    BY <2>1, <2>2, <2>3
<1>6. ASSUME NEW p \in Firsts(text, insts)
      PROVE  \E n \in 1..size : First(text, insts, n) = p /\ blocks[n][1] = insts[p]
  <2>1. p \in 1..Len(insts)
    BY LenProperties DEF Firsts
  <2>2. PICK n \in 1..size : \E k \in 1..Len(blocks[n]) : p = First(text, insts, n) + k - 1
    BY <1>1, <2>1, EveryInstruction
  <2>3. PICK k \in 1..Len(blocks[n]) : p = First(text, insts, n) + k - 1
    BY <2>2
  <2>4. First(text, insts, n) + k - 1 \in Firsts(text, insts) <=> k = 1
    BY <1>1, InsideBlocks
  <2>5. PICK x \in 1..len : x = First(text, insts, n)
    BY <1>3
  <2>6. p = x
    BY <2>3, <2>4, <2>5
  <2> QED
    BY <1>5, <2>5, <2>6
<1>7. ASSUME insts # << >> PROVE 1 \in 1..size /\ blocks[1][1] = insts[1]
  <2>1. 1 \in Firsts(text, insts)
    BY <1>7, FirstIs
  <2>2. PICK n \in 1..size : First(text, insts, n) = 1
    BY <1>6, <2>1
  <2>3. 1 \in 1..size
    BY <1>1
  <2>4. n = 1
    <3> SUFFICES ASSUME n # 1 PROVE FALSE
      OBVIOUS
    <3>1. size = Cardinality(Firsts(text, insts)) /\ 1 < n
      BY <1>1, CutIs
    <3>2. First(text, insts, 1) < First(text, insts, n)
      BY <2>3, <3>1, FirstIs
    <3> QED
      BY <1>3, <2>2, <2>3, <3>2
  <2> QED
    BY <1>5, <2>2, <2>3, <2>4
<1>8. ASSUME NEW n \in 1..size, NEW k \in 1..Len(blocks[n])
      PROVE  \E p \in 1..len :
                /\ blocks[n][k] = insts[p]
                /\ k < Len(blocks[n]) => p < len /\ blocks[n][k + 1] = insts[p + 1]
                /\ k = Len(blocks[n]) /\ n < size => p < len /\ blocks[n + 1][1] = insts[p + 1]
                /\ k = Len(blocks[n]) /\ n = size => p = len
  <2>1. PICK x \in 1..len : x = First(text, insts, n)
    BY <1>3
  <2>2. PICK y \in Nat \ {0} : y = Len(blocks[n]) /\ k \in 1..y
    BY <1>3
  <2>3. PICK p \in 1..len : p = x + k - 1 /\ blocks[n][k] = insts[p]
    BY <1>3, <2>1, <2>2
  <2>4. k < y => p < len /\ blocks[n][k + 1] = insts[p + 1]
    <3> SUFFICES ASSUME k < y PROVE p < len /\ blocks[n][k + 1] = insts[p + 1]
      OBVIOUS
    <3>1. k + 1 \in 1..y /\ x + (k + 1) - 1 = p + 1
      BY <2>2, <2>3
    <3>2. x + (k + 1) - 1 \in 1..len /\ blocks[n][k + 1] = insts[x + (k + 1) - 1]
      BY <1>3, <2>1, <2>2, <3>1
    <3> QED
      BY <1>2, <3>1, <3>2
  <2>5. x + y = IF n = size THEN len + 1 ELSE First(text, insts, n + 1)
    <3>1. First(text, insts, n) + Len(Cut(text, insts)[n]) =
            IF n = Len(Cut(text, insts)) THEN Len(insts) + 1 ELSE First(text, insts, n + 1)
      BY <1>1, Adjacent
    <3> QED
      BY <1>1, <1>2, <2>1, <2>2, <3>1
  <2>6. k = y /\ n < size => p < len /\ blocks[n + 1][1] = insts[p + 1]
    <3> SUFFICES ASSUME k = y, n < size PROVE p < len /\ blocks[n + 1][1] = insts[p + 1]
      OBVIOUS
    <3>1. n + 1 \in 1..size /\ n # size
      BY <1>1
    <3>2. PICK z \in 1..len : z = First(text, insts, n + 1)
      BY <1>3, <3>1
    <3>3. x + y = z /\ z = p + 1
      BY <2>3, <2>5, <3>1, <3>2
    <3>4. blocks[n + 1][1] = insts[z]
      BY <1>5, <3>1, <3>2
    <3> QED
      BY <1>2, <3>3, <3>4
  <2>7. k = y /\ n = size => p = len
    BY <1>2, <2>3, <2>5
  <2> QED
    BY <2>1, <2>2, <2>3, <2>4, <2>6, <2>7
<1>9. LaidOut(insts, blocks)
  BY <1>1, <1>2, <1>8 DEF LaidOut
<1> QED
  BY <1>1, <1>2, <1>4, <1>6, <1>7, <1>9

\* The first instruction of block n of function f is at a.
StartsAt(f, n, a) ==
    f \in 1..Len(funcs) /\ n \in 1..Len(funcs[f].blocks) /\ a = funcs[f].blocks[n][1]

\* The place of an instruction of a block among those of its function.
LEMMA BlockInst ==
    ASSUME TypeInv, NEW f \in 1..Len(funcs), CutUp(f)
    PROVE  /\ funcs[f].insts \in Seq(Addrs(image)) /\ Len(funcs[f].insts) \in Nat
           /\ Len(funcs[f].blocks) \in Nat
           /\ \A n \in 1..Len(funcs[f].blocks) :
                1 \in 1..Len(funcs[f].blocks[n]) /\ Len(funcs[f].blocks[n]) \in Nat
           /\ \A n \in 1..Len(funcs[f].blocks) : \A k \in 1..Len(funcs[f].blocks[n]) :
                IsInst(f, funcs[f].blocks[n][k]) /\ funcs[f].blocks[n][k] \in Addrs(image)
           /\ \A a : IsEntry(f, a) => StartsAt(f, 1, a)
           /\ \A k \in 1..Len(funcs[f].insts) :
                funcs[f].insts[k] \in Leaders(image.text, funcs[f].insts) =>
                    \E n \in 1..Len(funcs[f].blocks) : StartsAt(f, n, funcs[f].insts[k])
<1>1. PICK insts \in Seq(Addrs(image)) : insts = funcs[f].insts
  BY CodeType
<1>2. PICK blocks : blocks = funcs[f].blocks
  OBVIOUS
<1>3. PICK text : text = image.text
  OBVIOUS
<1>4. blocks = Cut(text, insts)
  BY <1>1, <1>2, <1>3 DEF TypeInv, Blocks
<1>5. Len(insts) \in Nat /\ DOMAIN insts = 1..Len(insts)
  BY LenProperties
<1>6. Len(blocks) \in Nat
  BY <1>4, Starts
<1>7. /\ \A n \in 1..Len(blocks) : 1 \in 1..Len(blocks[n]) /\ Len(blocks[n]) \in Nat
      /\ \A p \in Firsts(text, insts) : \E n \in 1..Len(blocks) : blocks[n][1] = insts[p]
      /\ insts # << >> => 1 \in 1..Len(blocks) /\ blocks[1][1] = insts[1]
  <2>1. \A n \in 1..Len(blocks) : 1 \in 1..Len(blocks[n]) /\ Len(blocks[n]) \in Nat
    <3>1. \A n \in 1..Len(Cut(text, insts)) : Len(Cut(text, insts)[n]) \in Nat \ {0}
      BY Starts
    <3> QED
      BY <1>4, <3>1
  <2>2. \A p \in Firsts(text, insts) : \E n \in 1..Len(blocks) : blocks[n][1] = insts[p]
    BY <1>4, CutPlaces
  <2>3. insts # << >> => 1 \in 1..Len(blocks) /\ blocks[1][1] = insts[1]
    BY <1>4, CutPlaces
  <2> QED
    BY <2>1, <2>2, <2>3
<1>8. ASSUME NEW n \in 1..Len(blocks), NEW k \in 1..Len(blocks[n])
      PROVE  IsInst(f, blocks[n][k]) /\ blocks[n][k] \in Addrs(image)
  <2>1. PICK p \in 1..Len(insts) : blocks[n][k] = insts[p]
    <3>1. LaidOut(insts, blocks)
      BY <1>4, CutPlaces
    <3> QED
      BY <3>1 DEF LaidOut
  <2>2. insts[p] \in Addrs(image)
    BY ElementOfSeq
  <2> QED
    BY <1>1, <2>1, <2>2 DEF IsInst
<1>9. ASSUME NEW a, IsEntry(f, a) PROVE StartsAt(f, 1, a)
  <2>1. insts # << >> /\ a = insts[1]
    BY <1>1, <1>9, EmptySeq DEF IsEntry
  <2> QED
    BY <1>2, <1>7, <2>1 DEF StartsAt
<1>10. ASSUME NEW k \in 1..Len(insts), insts[k] \in Leaders(text, insts)
       PROVE  \E n \in 1..Len(blocks) : StartsAt(f, n, insts[k])
  <2>1. k \in Firsts(text, insts)
    BY <1>5, <1>10 DEF Firsts
  <2> QED
    BY <1>2, <1>7, <2>1 DEF StartsAt
<1> QED
  BY <1>1, <1>2, <1>3, <1>5, <1>6, <1>7, <1>8, <1>9, <1>10

\* Where each kind of instruction goes.
LEMMA FlowIs ==
    ASSUME NEW img, NEW a, NEW i, i = img.text[a]
    PROVE  /\ i.kind \in {"plain", "call", "jalr"} =>
                MachineFlow(img, a) = {a + SizeAt(img, a)}
           /\ i.kind = "cbr" => MachineFlow(img, a) = {i.target, a + SizeAt(img, a)}
           /\ i.kind = "jmp" => MachineFlow(img, a) = {i.target}
           /\ i.kind \in {"jr", "ret"} => MachineFlow(img, a) = {}
<1>1. MachineFlow(img, a) =
        {i.target : t \in {"cbr", "jmp"} \cap {i.kind}}
        \cup {a + SizeAt(img, a) : t \in {"cbr", "plain", "call", "jalr"} \cap {i.kind}}
  BY DEF MachineFlow, SizeAt
<1>2. \A t : t \in MachineFlow(img, a) <=>
            \/ i.kind \in {"cbr", "jmp"} /\ t = i.target
            \/ i.kind \in {"cbr", "plain", "call", "jalr"} /\ t = a + SizeAt(img, a)
  BY <1>1
<1>3. ASSUME i.kind \in {"plain", "call", "jalr"} PROVE MachineFlow(img, a) = {a + SizeAt(img, a)}
  BY <1>2, <1>3
<1>4. ASSUME i.kind = "cbr" PROVE MachineFlow(img, a) = {i.target, a + SizeAt(img, a)}
  BY <1>2, <1>4
<1>5. ASSUME i.kind = "jmp" PROVE MachineFlow(img, a) = {i.target}
  BY <1>2, <1>5
<1>6. ASSUME i.kind \in {"jr", "ret"} PROVE MachineFlow(img, a) = {}
  BY <1>2, <1>6
<1> QED
  BY <1>3, <1>4, <1>5, <1>6

\* No instruction comes twice.
LEMMA InstsApart ==
    ASSUME TypeInv, Exact, NEW f \in 1..Len(funcs), NEW insts, insts = funcs[f].insts
    PROVE  /\ Len(insts) \in Nat
           /\ \A k \in 1..Len(insts) : insts[k] \in Nat /\ SizeAt(image, insts[k]) \in Nat \ {0}
           /\ \A j, k \in 1..Len(insts) : j < k => insts[j] + SizeAt(image, insts[j]) <= insts[k]
           /\ \A j, k \in 1..Len(insts) : insts[j] = insts[k] => j = k
<1>1. insts \in Seq(Addrs(image)) /\ IsCode(image)
  BY CodeType
<1>2. Len(insts) \in Nat
  BY <1>1, LenProperties
<1>3. \A k \in 1..Len(insts) : insts[k] \in Addrs(image)
  BY <1>1, ElementOfSeq
<1>4. \A k \in 1..Len(insts) : insts[k] \in Nat /\ SizeAt(image, insts[k]) \in Nat \ {0}
  BY <1>1, <1>3 DEF IsCode, SizeAt
<1>5. \A j, k \in 1..Len(insts) : j < k => insts[j] + SizeAt(image, insts[j]) <= insts[k]
  BY DEF Exact
<1>6. ASSUME NEW j \in 1..Len(insts), NEW k \in 1..Len(insts), insts[j] = insts[k], j < k
      PROVE  FALSE
  <2>1. PICK x \in Nat : x = insts[j] /\ x = insts[k]
    BY <1>4, <1>6
  <2>2. PICK y \in Nat \ {0} : y = SizeAt(image, insts[j])
    BY <1>4
  <2>3. x + y <= x
    BY <1>5, <1>6, <2>1, <2>2
  <2> QED
    BY <2>3
<1>7. \A j, k \in 1..Len(insts) : insts[j] = insts[k] => j = k
  <2> SUFFICES ASSUME NEW j \in 1..Len(insts), NEW k \in 1..Len(insts), insts[j] = insts[k]
               PROVE  j = k
    OBVIOUS
  <2>1. ~(j < k) /\ ~(k < j)
    BY <1>6
  <2> QED
    BY <1>2, <2>1
<1> QED
  BY <1>2, <1>4, <1>5, <1>7

\* No two blocks start at one address.
LEMMA StartsDiffer ==
    ASSUME TypeInv, Exact, NEW f, NEW g, NEW n, NEW m, NEW a,
           StartsAt(f, n, a), StartsAt(g, m, a), CutUp(f), CutUp(g)
    PROVE  f = g /\ n = m
<1>1. /\ f \in 1..Len(funcs) /\ n \in 1..Len(funcs[f].blocks) /\ a = funcs[f].blocks[n][1]
      /\ g \in 1..Len(funcs) /\ m \in 1..Len(funcs[g].blocks) /\ a = funcs[g].blocks[m][1]
  BY DEF StartsAt
<1>2. IsInst(f, a)
  BY <1>1, BlockInst
<1>3. IsInst(g, a)
  BY <1>1, BlockInst
<1>4. f = g
  BY <1>1, <1>2, <1>3 DEF Exact
<1>5. PICK insts \in Seq(Addrs(image)) : insts = funcs[f].insts
  BY <1>1, CodeType
<1>6. PICK text, blocks : text = image.text /\ blocks = funcs[f].blocks /\ blocks = Cut(text, insts)
  BY <1>1, <1>5 DEF TypeInv, Blocks
<1>7. PICK len \in Nat : len = Len(insts)
  BY LenProperties
<1>8. \A j, k \in 1..len : insts[j] = insts[k] => j = k
  BY SMTT(30), <1>1, <1>5, <1>7, InstsApart
<1>9. PICK size \in Nat : size = Len(blocks) /\ size = Cardinality(Firsts(text, insts))
  BY <1>6, CutIs, FirstIs
<1>10. ASSUME NEW i \in 1..size
       PROVE  First(text, insts, i) \in 1..len /\ blocks[i][1] = insts[First(text, insts, i)]
  <2>1. First(text, insts, i) \in 1..len
    BY <1>7, <1>9, FirstIs
  <2>2. 1 \in 1..Len(blocks[i])
    BY <1>1, <1>6, <1>9, BlockInst
  <2>3. blocks[i][1] = insts[First(text, insts, i) + 1 - 1]
    BY <1>6, <1>9, <2>2, CutIs
  <2>4. PICK x \in 1..len : x = First(text, insts, i)
    BY <2>1
  <2>5. x + 1 - 1 = x
    OBVIOUS
  <2> QED
    BY <2>3, <2>4, <2>5
<1>11. n \in 1..size /\ m \in 1..size
  BY <1>1, <1>4, <1>6, <1>9
<1>12. First(text, insts, n) = First(text, insts, m)
  <2>1. blocks[n][1] = a /\ blocks[m][1] = a
    BY <1>1, <1>4, <1>6
  <2>2. insts[First(text, insts, n)] = insts[First(text, insts, m)]
    BY <1>10, <1>11, <2>1
  <2> QED
    BY <1>8, <1>10, <1>11, <2>2
<1>13. \A j, k \in 1..size : j < k => First(text, insts, j) < First(text, insts, k)
  BY <1>9, FirstIs
<1>14. ~(n < m) /\ ~(m < n)
  BY <1>10, <1>11, <1>12, <1>13
<1> QED
  BY <1>4, <1>9, <1>11, <1>14

\* The instruction at a, at place k of block n, is followed by the next one.
GoesOn(f, n, k, a) ==
    /\ FallThrough(f, n, k) = {a + SizeAt(image, a)}
    /\ k = Len(funcs[f].blocks[n]) =>
        n + 1 \in 1..Len(funcs[f].blocks) /\ StartsAt(f, n + 1, a + SizeAt(image, a))

\* What follows an instruction that control goes on from is the next one.
LEMMA FallsThrough ==
    ASSUME TypeInv, Exact, NEW f \in 1..Len(funcs), CutUp(f),
           NEW n \in 1..Len(funcs[f].blocks), NEW k \in 1..Len(funcs[f].blocks[n]),
           NEW a, a = funcs[f].blocks[n][k], Text(a).kind \in {"plain", "cbr", "call", "jalr"}
    PROVE  GoesOn(f, n, k, a)
<1> SUFFICES /\ FallThrough(f, n, k) = {a + SizeAt(image, a)}
             /\ k = Len(funcs[f].blocks[n]) =>
                n + 1 \in 1..Len(funcs[f].blocks) /\ StartsAt(f, n + 1, a + SizeAt(image, a))
  BY DEF GoesOn
<1>1. PICK insts \in Seq(Addrs(image)) : insts = funcs[f].insts
  BY CodeType
<1>2. PICK text, blocks : text = image.text /\ blocks = funcs[f].blocks /\ blocks = Cut(text, insts)
  BY <1>1 DEF TypeInv, Blocks
<1>3. PICK len \in Nat : len = Len(insts)
  BY LenProperties
<1>4. PICK p \in 1..len :
        /\ a = insts[p]
        /\ k < Len(blocks[n]) => p < len /\ blocks[n][k + 1] = insts[p + 1]
        /\ k = Len(blocks[n]) /\ n < Len(blocks) => p < len /\ blocks[n + 1][1] = insts[p + 1]
        /\ k = Len(blocks[n]) /\ n = Len(blocks) => p = len
  <2>1. n \in 1..Len(blocks) /\ k \in 1..Len(blocks[n])
    BY <1>2
  <2>2. \E q \in 1..Len(insts) :
            /\ blocks[n][k] = insts[q]
            /\ k < Len(blocks[n]) => q < Len(insts) /\ blocks[n][k + 1] = insts[q + 1]
            /\ k = Len(blocks[n]) /\ n < Len(blocks) =>
                q < Len(insts) /\ blocks[n + 1][1] = insts[q + 1]
            /\ k = Len(blocks[n]) /\ n = Len(blocks) => q = Len(insts)
    <3>1. LaidOut(insts, blocks)
      BY <1>2, CutPlaces
    <3> QED
      BY <2>1, <3>1 DEF LaidOut
  <2> QED
    BY <1>2, <1>3, <2>2
<1>5. /\ \A j \in 1..len : insts[j] \in Nat /\ SizeAt(image, insts[j]) \in Nat \ {0}
      /\ \A i, j \in 1..len : i < j => insts[i] + SizeAt(image, insts[i]) <= insts[j]
  BY <1>1, <1>3, InstsApart
<1>6. PICK y \in Nat \ {0} : y = SizeAt(image, a)
  BY <1>4, <1>5
<1>7. PICK x \in Nat : x = a
  BY <1>4, <1>5
<1>8. a + SizeAt(image, a) \in MachineFlow(image, a)
  BY FlowIs DEF Text
<1>9. IsInst(f, a + SizeAt(image, a))
  <2>1. IsInst(f, a)
    BY <1>1, <1>3, <1>4 DEF IsInst
  <2>2. Text(a).kind # "jmp"
    OBVIOUS
  <2> QED
    BY <1>8, <2>1, <2>2 DEF Exact
<1>10. PICK m \in 1..len : insts[m] = x + y
  BY <1>1, <1>3, <1>6, <1>7, <1>9 DEF IsInst
<1>11. p < m
  <2> SUFFICES ASSUME m <= p PROVE FALSE
    BY <1>3
  <2>1. CASE m = p
    BY <1>4, <1>6, <1>7, <1>10, <2>1
  <2>2. CASE m < p
    <3>1. PICK z \in Nat : z = SizeAt(image, insts[m])
      BY <1>5
    <3>2. (x + y) + z <= x
      BY <1>4, <1>5, <1>7, <1>10, <2>2, <3>1
    <3> QED
      BY <3>2
  <2> QED
    BY <1>3, <2>1, <2>2
<1>12. p < len /\ p + 1 \in 1..len
  BY <1>3, <1>11
<1>13. insts[p + 1] = x + y
  <2>1. PICK w \in Nat : w = insts[p + 1]
    BY <1>5, <1>12
  <2>2. PICK z \in Nat \ {0} : z = SizeAt(image, insts[p + 1])
    BY <1>5, <1>12
  <2>3. p < p + 1
    OBVIOUS
  <2>4. x + y <= w
    BY <1>4, <1>5, <1>6, <1>7, <1>12, <2>1, <2>3
  <2>5. m # p + 1 => p + 1 < m
    BY <1>3, <1>11
  <2>6. m # p + 1 => w + z <= x + y
    BY <1>5, <1>10, <1>12, <2>1, <2>2, <2>5
  <2>7. m = p + 1
    <3> SUFFICES ASSUME m # p + 1 PROVE FALSE
      OBVIOUS
    <3>1. w + z <= x + y /\ x + y <= w
      BY <2>4, <2>6
    <3> QED
      BY <3>1
  <2> QED
    BY <1>10, <2>7
<1>14. Len(blocks) \in Nat /\ Len(blocks[n]) \in Nat /\ n \in 1..Len(blocks) /\ k \in 1..Len(blocks[n])
  BY <1>2, BlockInst
<1>15. CASE k < Len(blocks[n])
  <2>1. FallThrough(f, n, k) = {blocks[n][k + 1]}
    BY <1>2, <1>15 DEF FallThrough
  <2>2. blocks[n][k + 1] = x + y
    BY <1>4, <1>13, <1>15
  <2>3. k # Len(blocks[n])
    BY <1>14, <1>15
  <2> QED
    BY <1>2, <1>6, <1>7, <2>1, <2>2, <2>3
<1>16. CASE k = Len(blocks[n])
  <2>1. n < Len(blocks)
    BY <1>3, <1>4, <1>12, <1>14, <1>16
  <2>2. blocks[n + 1][1] = x + y /\ n + 1 \in 1..Len(blocks)
    BY <1>4, <1>13, <1>14, <1>16, <2>1
  <2>3. FallThrough(f, n, k) = {blocks[n + 1][1]}
    BY <1>2, <1>14, <1>16, <2>1 DEF FallThrough
  <2> QED
    BY <1>2, <1>6, <1>7, <2>2, <2>3 DEF StartsAt
<1> QED
  BY <1>14, <1>15, <1>16

\* Every direct transfer goes to the beginning of a block: a branch to one of its
\* function, a call to the first one of a function, a jump to either.
LEMMA TargetStarts ==
    ASSUME TypeInv, Exact, phase \in Late \cup {"create"}, NEW f \in 1..Len(funcs),
           NEW n \in 1..Len(funcs[f].blocks), NEW k \in 1..Len(funcs[f].blocks[n]),
           NEW a, a = funcs[f].blocks[n][k]
    PROVE  /\ Text(a).kind = "cbr" => \E m : StartsAt(f, m, Text(a).target)
           /\ Text(a).kind = "jmp" =>
                \/ \E m : StartsAt(f, m, Text(a).target)
                \/ ~IsInst(f, Text(a).target) /\ \E g : StartsAt(g, 1, Text(a).target)
           /\ Text(a).kind = "call" => \E g : StartsAt(g, 1, Text(a).target)
<1>1. \A g : CutUp(g)
  BY DEF CutUp
<1>2. IsInst(f, a)
  BY <1>1, BlockInst
<1>3. PICK p \in 1..Len(funcs[f].insts) : a = funcs[f].insts[p]
  BY <1>2 DEF IsInst
<1>4. DOMAIN funcs[f].insts = 1..Len(funcs[f].insts)
  BY CodeType, LenProperties
<1>5. ASSUME Text(a).kind \in {"cbr", "jmp"}, IsInst(f, Text(a).target)
      PROVE  \E m : StartsAt(f, m, Text(a).target)
  <2>1. Text(a).target \in Leaders(image.text, funcs[f].insts)
    <3>1. isBranch(image.text[funcs[f].insts[p]]) /\ HasTarget(image.text[funcs[f].insts[p]])
      BY <1>3, <1>5 DEF isBranch, HasTarget, Text
    <3> QED
      BY Zenon, <1>3, <1>4, <3>1 DEF Leaders, evaluateBranch, Text
  <2>2. PICK q \in 1..Len(funcs[f].insts) : Text(a).target = funcs[f].insts[q]
    BY <1>5 DEF IsInst
  <2> QED
    BY <1>1, <2>1, <2>2, BlockInst
<1>6. ASSUME NEW t, \E g \in 1..Len(funcs) : IsEntry(g, t) PROVE \E g : StartsAt(g, 1, t)
  BY <1>1, <1>6, BlockInst
<1>7. ASSUME Text(a).kind = "cbr" PROVE \E m : StartsAt(f, m, Text(a).target)
  <2>1. Text(a).target \in MachineFlow(image, a)
    BY <1>7, FlowIs DEF Text
  <2>2. IsInst(f, Text(a).target)
    BY <1>2, <1>7, <2>1 DEF Exact
  <2> QED
    BY <1>5, <1>7, <2>2
<1>8. ASSUME Text(a).kind = "jmp"
      PROVE  \/ \E m : StartsAt(f, m, Text(a).target)
             \/ ~IsInst(f, Text(a).target) /\ \E g : StartsAt(g, 1, Text(a).target)
  <2>1. Text(a).target \in MachineFlow(image, a)
    BY <1>8, FlowIs DEF Text
  <2>2. IsInst(f, Text(a).target) \/ \E g \in 1..Len(funcs) : IsEntry(g, Text(a).target)
    BY <1>2, <2>1 DEF Exact
  <2> QED
    BY <1>5, <1>6, <1>8, <2>2
<1>9. ASSUME Text(a).kind = "call" PROVE \E g : StartsAt(g, 1, Text(a).target)
  <2>1. \E g \in 1..Len(funcs) : IsEntry(g, Text(a).target)
    BY <1>2, <1>9 DEF Exact
  <2> QED
    BY <1>6, <2>1
<1> QED
  BY <1>7, <1>8, <1>9

-----------------------------------------------------------------------------
(* The table of blocks.                                                    *)

\* The table names the blocks of the functions whose MBBs are made, each under the
\* address it begins at.
TableInv ==
    phase \in Late \cup {"create"} =>
        /\ \A f \in 1..Len(funcs) : Made(f) => Len(mfunc[f]) = Len(funcs[f].blocks)
        /\ \A f \in 1..Len(funcs) : Made(f) => \A n \in 1..Len(funcs[f].blocks) :
            /\ funcs[f].blocks[n][1] \in DOMAIN address_to_mbb
            /\ address_to_mbb[funcs[f].blocks[n][1]] = <<f, n>>
        /\ \A a \in DOMAIN address_to_mbb :
            \E f \in 1..Len(funcs) : Made(f) /\ \E n : StartsAt(f, n, a)

\* The MBBs of a function are added to it.
LEMMA CreateTable ==
    ASSUME TypeInv, Exact, TableInv, CreateMachineBasicBlocks PROVE TableInv'
<1>1. PICK f \in 1..Len(funcs) : f = at.fn /\ Func = funcs[f] /\ funcs[f] \in FuncType /\ f \in Nat
  BY Current DEF CreateMachineBasicBlocks
<1>2. PICK blocks : blocks = funcs[f].blocks /\ blocks = Func.blocks
  BY <1>1
<1>3. /\ phase = "create" /\ UNCHANGED <<image, phase, funcs, pc>>
      /\ at' = [at EXCEPT !.fn = @ + 1]
  BY DEF CreateMachineBasicBlocks
<1>4. Len(blocks) \in Nat
  BY <1>2, CreateIs
<1>5. mfunc' = [mfunc EXCEPT ![f] = [n \in 1..Len(blocks) |-> EmptyMBB]]
  BY <1>1, <1>2, CreateIs
<1>7. TakesOver(address_to_mbb, address_to_mbb', f, blocks)
  BY <1>1, <1>2, CreateIs
<1>6. DOMAIN address_to_mbb' =
                {blocks[n][1] : n \in 1..Len(blocks)} \cup DOMAIN address_to_mbb
  BY <1>7 DEF TakesOver
<1>8. at'.fn = f + 1
  BY <1>1, <1>3, NextFunction DEF TypeInv
<1>9. /\ \A g \in 1..Len(mfunc) : g # f => mfunc'[g] = mfunc[g]
      /\ Len(mfunc'[f]) = Len(blocks)
  <2>1. PICK row : row = [n \in 1..Len(blocks) |-> EmptyMBB]
    OBVIOUS
  <2>2. row \in [1..Len(blocks) -> {EmptyMBB}]
    BY <2>1
  <2>3. row \in Seq({EmptyMBB})
    BY <1>4, <2>2, SeqDef
  <2>4. Len(row) = Len(blocks)
    BY <1>4, <2>2, <2>3, LenProperties
  <2>5. mfunc \in Seq(Seq(MBBType)) /\ DOMAIN mfunc = 1..Len(mfunc) /\ Len(mfunc) = Len(funcs)
    BY LenProperties DEF TypeInv, Shapes
  <2>6. f \in DOMAIN mfunc /\ mfunc' = [mfunc EXCEPT ![f] = row]
    BY <1>5, <2>1, <2>5
  <2> QED
    BY <2>4, <2>5, <2>6
<1>10. ASSUME NEW g \in 1..Len(funcs) PROVE CutUp(g) /\ (Made(g) <=> g < f) /\ g \in Nat
  BY <1>1, <1>3, CodeType DEF CutUp, Made, Late
<1>11. ASSUME NEW g \in 1..Len(funcs) PROVE Made(g)' <=> g < f + 1
  BY <1>3, <1>8 DEF Made, Late
<1>12. /\ \A g \in 1..Len(funcs) : g < f => Len(mfunc[g]) = Len(funcs[g].blocks)
       /\ \A g \in 1..Len(funcs) : g < f => \A n \in 1..Len(funcs[g].blocks) :
            /\ funcs[g].blocks[n][1] \in DOMAIN address_to_mbb
            /\ address_to_mbb[funcs[g].blocks[n][1]] = <<g, n>>
       /\ \A a \in DOMAIN address_to_mbb :
            \E g \in 1..Len(funcs) : g < f /\ \E n : StartsAt(g, n, a)
  BY <1>3, <1>10 DEF TableInv
<1>13. ASSUME NEW g \in 1..Len(funcs), g < f + 1
       PROVE  /\ Len(mfunc'[g]) = Len(funcs[g].blocks)
              /\ \A n \in 1..Len(funcs[g].blocks) :
                    /\ funcs[g].blocks[n][1] \in DOMAIN address_to_mbb'
                    /\ address_to_mbb'[funcs[g].blocks[n][1]] = <<g, n>>
  <2>1. CASE g = f
    <3>1. Len(mfunc'[g]) = Len(funcs[g].blocks)
      BY <1>2, <1>9, <2>1
    <3>2. ASSUME NEW n \in 1..Len(blocks)
          PROVE  /\ blocks[n][1] \in DOMAIN address_to_mbb'
                 /\ address_to_mbb'[blocks[n][1]] = <<f, n>>
      <4>1. PICK a : a = blocks[n][1] /\ a \in DOMAIN address_to_mbb'
        BY <1>6
      <4>2. PICK m \in 1..Len(blocks) : a = blocks[m][1] /\ address_to_mbb'[a] = <<f, m>>
        BY <1>7, <4>1 DEF TakesOver
      <4>3. StartsAt(f, n, a) /\ StartsAt(f, m, a)
        BY <1>2, <4>1, <4>2 DEF StartsAt
      <4>4. n = m
        BY <1>10, <4>3, StartsDiffer
      <4> QED
        BY <4>1, <4>2, <4>4
    <3> QED
      BY <1>2, <2>1, <3>1, <3>2
  <2>2. CASE g # f
    <3>1. g < f
      BY <1>1, <1>10, <1>13, <2>2
    <3>2. Len(mfunc'[g]) = Len(funcs[g].blocks)
      BY <1>9, <1>12, <2>2, <3>1 DEF TypeInv, Shapes
    <3>3. ASSUME NEW n \in 1..Len(funcs[g].blocks)
          PROVE  /\ funcs[g].blocks[n][1] \in DOMAIN address_to_mbb'
                 /\ address_to_mbb'[funcs[g].blocks[n][1]] = <<g, n>>
      <4>1. PICK a : a = funcs[g].blocks[n][1]
        OBVIOUS
      <4>2. a \in DOMAIN address_to_mbb /\ address_to_mbb[a] = <<g, n>>
        BY <1>12, <3>1, <4>1
      <4>3. StartsAt(g, n, a)
        BY <4>1 DEF StartsAt
      <4>4. \A m \in 1..Len(blocks) : a # blocks[m][1]
        <5> SUFFICES ASSUME NEW m \in 1..Len(blocks), a = blocks[m][1] PROVE FALSE
          OBVIOUS
        <5>1. StartsAt(f, m, a)
          BY <1>2 DEF StartsAt
        <5> QED
          BY <1>10, <2>2, <4>3, <5>1, StartsDiffer
      <4> QED
        BY <1>6, <1>7, <4>1, <4>2, <4>4 DEF TakesOver
    <3> QED
      BY <3>2, <3>3
  <2> QED
    BY <2>1, <2>2
<1>14. ASSUME NEW a \in DOMAIN address_to_mbb'
       PROVE  \E g \in 1..Len(funcs) : g < f + 1 /\ \E n : StartsAt(g, n, a)
  <2>1. CASE \E n \in 1..Len(blocks) : a = blocks[n][1]
    <3>1. \E n : StartsAt(f, n, a)
      BY <1>2, <2>1 DEF StartsAt
    <3> QED
      BY <1>1, <3>1
  <2>2. CASE a \in DOMAIN address_to_mbb
    <3>1. PICK g \in 1..Len(funcs) : g < f /\ \E n : StartsAt(g, n, a)
      BY <1>12, <2>2
    <3>2. g < f + 1
      BY <1>1, <1>10, <3>1
    <3> QED
      BY <3>1, <3>2
  <2> QED
    BY <1>7, <2>1, <2>2 DEF TakesOver
<1>15. \A g, n, a : StartsAt(g, n, a)' <=> StartsAt(g, n, a)
  BY <1>3 DEF StartsAt
<1> QED
  BY <1>3, <1>11, <1>13, <1>14, <1>15 DEF TableInv

\* Steps of the last phases that make no MBB leave the table.
LEMMA TableKept ==
    ASSUME TableInv, phase \in Late, UNCHANGED <<image, phase, funcs, address_to_mbb>>,
           \A g \in 1..Len(funcs) : Len(mfunc'[g]) = Len(mfunc[g])
    PROVE  TableInv'
<1>1. \A g : Made(g) /\ Made(g)'
  BY DEF Made
<1>2. \A g, n, a : StartsAt(g, n, a)' <=> StartsAt(g, n, a)
  BY DEF StartsAt
<1> QED
  BY <1>1, <1>2 DEF TableInv

\* So does going on to the next phase.
LEMMA PhaseTable ==
    ASSUME TypeInv, TableInv, NextPhase PROVE TableInv'
<1>1. /\ phase \in DOMAIN Following /\ at.fn > Len(funcs) /\ phase' = Following[phase]
      /\ at'.fn = 1 /\ UNCHANGED <<image, funcs, mfunc, address_to_mbb, pc>>
  BY DEF NextPhase, Enter
<1>2. \A g, n, a : StartsAt(g, n, a)' <=> StartsAt(g, n, a)
  BY <1>1 DEF StartsAt
<1>3. \A g \in 1..Len(funcs) : g < at.fn /\ ~(g < 1)
  BY <1>1, CodeType
<1>4. CASE phase = "decode"
  <2>1. phase' = "identify"
    BY <1>1, <1>4, Phases
  <2> QED
    BY <2>1 DEF TableInv, Late
<1>5. CASE phase = "identify"
  <2>1. phase' = "create" /\ DOMAIN address_to_mbb = {}
    BY <1>1, <1>5, Phases DEF TypeInv, Table, Early
  <2>2. \A g \in 1..Len(funcs) : ~Made(g)'
    BY <1>1, <1>3, <2>1 DEF Made, Late
  <2> QED
    BY <1>1, <2>1, <2>2 DEF TableInv
<1>6. CASE phase \in {"create", "translate", "link"}
  <2>1. \A g \in 1..Len(funcs) : Made(g) /\ Made(g)'
    BY <1>1, <1>3, <1>6, Phases DEF Made, Late
  <2>2. phase \in Late \cup {"create"}
    BY <1>6 DEF Late
  <2> QED
    BY <1>1, <1>2, <2>1, <2>2 DEF TableInv
<1> QED
  BY <1>1, <1>4, <1>5, <1>6, Phases

\* Every branch that is linked goes to a block the table names.
LEMMA LinkFinds ==
    ASSUME TypeInv, Exact, TableInv, Linking, isBranch(LastInst), HasTarget(LastInst)
    PROVE  LastInst.target \in DOMAIN address_to_mbb
<1>1. PICK f \in 1..Len(funcs) : f = at.fn /\ Func = funcs[f] /\ phase \in Late
  BY LinkedBlock DEF Linking, Late
<1>2. PICK n \in 1..Len(funcs[f].blocks) : n = at.block /\ Block = funcs[f].blocks[n]
  BY <1>1, LinkedBlock
<1>3. \A g : CutUp(g) /\ Made(g)
  BY <1>1 DEF CutUp, Made
<1>4. PICK k \in 1..Len(funcs[f].blocks[n]) : k = Len(funcs[f].blocks[n])
  <2>1. PICK y : y = Len(funcs[f].blocks[n]) /\ y \in Nat /\ 1 \in 1..y
    BY <1>2, <1>3, BlockInst
  <2>2. y \in 1..y
    BY <2>1
  <2> QED
    BY <2>1, <2>2
<1>5. PICK a : a = funcs[f].blocks[n][k] /\ LastInst = Text(a)
  BY <1>2, <1>4 DEF LastInst
<1>6. Text(a).kind \in {"cbr", "jmp"}
  BY <1>5 DEF isBranch, HasTarget
<1>7. \E g, m : StartsAt(g, m, Text(a).target)
  BY <1>1, <1>5, <1>6, TargetStarts
<1>8. PICK g, m : StartsAt(g, m, Text(a).target)
  BY <1>7
<1> QED
  BY <1>1, <1>3, <1>5, <1>8 DEF TableInv, StartsAt

\* So no MBB is made when blocks are linked.
LEMMA LinkExact ==
    ASSUME TypeInv, Exact, TableInv, Link
    PROVE  /\ Linking /\ UNCHANGED <<image, phase, funcs, address_to_mbb, pc>>
           /\ at' = [at EXCEPT !.block = @ + 1] /\ Gained(mfunc')
BY LinkIs, LinkFinds

\* No step leaves the table.
LEMMA NextTable ==
    ASSUME TypeInv, SweepInv, TableInv, Structured(image), [Next]_vars PROVE TableInv'
<1>1. phase \notin {"symbols", "decode"} => Exact
  BY ExactHolds
<1>2. CASE UNCHANGED vars
  BY <1>2 DEF vars, TableInv, Made, StartsAt
<1>3. CASE CollectSymbols \/ DecodeInstruction \/ SkipIllegalByte \/ FinishFunction
  <2>1. phase' = "decode"
    BY <1>3 DEF CollectSymbols, DecodeInstruction, SkipIllegalByte, FinishFunction, Enter, Decoding
  <2> QED
    BY <2>1 DEF TableInv, Late
<1>4. CASE IdentifyBasicBlocks
  <2>1. phase' = "identify"
    BY <1>4, IdentifyIs
  <2> QED
    BY <2>1 DEF TableInv, Late
<1>5. CASE CreateMachineBasicBlocks
  <2>1. Exact
    BY <1>1, <1>5 DEF CreateMachineBasicBlocks
  <2> QED
    BY <1>5, <2>1, CreateTable
<1>6. CASE Translate
  <2>1. phase \in Late /\ UNCHANGED <<image, phase, funcs, address_to_mbb>>
    BY <1>6, TranslateIs DEF Translating, Late
  <2>2. PICK new \in MBBType : mfunc' = [mfunc EXCEPT ![at.fn][at.block] = new]
    BY <1>6, EmitIs
  <2>3. mfunc \in Seq(Seq(MBBType)) /\ at.fn \in 1..Len(mfunc) /\ at.block \in 1..Len(mfunc[at.fn])
    BY <1>6, Translated, TranslateIs DEF TypeInv, Shapes
  <2>4. \A g \in 1..Len(mfunc) : Len(mfunc'[g]) = Len(mfunc[g])
    BY <2>2, <2>3, SetBlock
  <2> QED
    BY Zenon, <2>1, <2>4, TableKept DEF TypeInv, Shapes
<1>7. CASE Link
  <2>1. Exact
    BY <1>1, <1>7, LinkIs DEF Linking
  <2>2. /\ phase \in Late /\ UNCHANGED <<image, phase, funcs, address_to_mbb>>
        /\ \A g \in 1..Len(mfunc) : Len(mfunc'[g]) = Len(mfunc[g])
    BY <1>7, <2>1, LinkExact DEF Linking, Late, Gained
  <2> QED
    BY <2>2, TableKept DEF TypeInv, Shapes
<1>8. CASE NextBlock \/ FinishLinking
  <2>1. phase \in Late /\ UNCHANGED <<image, phase, funcs, mfunc, address_to_mbb>>
    BY <1>8 DEF NextBlock, FinishLinking, Late
  <2> QED
    BY <2>1, TableKept
<1>9. CASE NextPhase
  BY <1>9, PhaseTable
<1> QED
  BY <1>2, <1>3, <1>4, <1>5, <1>6, <1>7, <1>8, <1>9 DEF Next, Translate, Link

-----------------------------------------------------------------------------
(* The MIR.                                                                *)

\* The successors of the MBB of block n of fn, which ends with i; `more' blocks follow.
LinkedTo(i, fn, n, more) ==
    IF /\ more /\ ~isReturn(i) /\ ~isUnconditionalBranch(i)
       /\ isBranch(i) => \A k \in DOMAIN Joined(i, fn) : Joined(i, fn)[k] # <<fn, n + 1>>
    THEN Append(Joined(i, fn), <<fn, n + 1>>) ELSE Joined(i, fn)

\* c instructions of the block are translated; `linked' when its successors are.
Filled(mbb, block, fn, n, more, c, linked) ==
    /\ c \in 0..Len(block) /\ Len(mbb.instrs) = c
    /\ \A k \in 1..c : mbb.instrs[k] = Emitted(Text(block[k]), fn)
    /\ mbb.succs = IF c < Len(block) THEN << >>
                   ELSE IF linked THEN LinkedTo(Text(block[Len(block)]), fn, n, more)
                   ELSE Joined(Text(block[Len(block)]), fn)

More(f, n) == n < Len(funcs[f].blocks)
Count(f, n) ==
    IF phase = "create" \/ (phase = "translate" /\ (f > at.fn \/ (f = at.fn /\ n > at.block)))
    THEN 0
    ELSE IF phase = "translate" /\ f = at.fn /\ n = at.block THEN at.inst - 1
    ELSE Len(funcs[f].blocks[n])
IsLinked(f, n) ==
    phase = "done" \/ (phase = "link" /\ (f < at.fn \/ (f = at.fn /\ n < at.block)))

MIRInv ==
    phase \in Late \cup {"create"} =>
        \A f \in 1..Len(funcs) : Made(f) => \A n \in 1..Len(funcs[f].blocks) :
            Filled(mfunc[f][n], funcs[f].blocks[n], f, n, More(f, n), Count(f, n), IsLinked(f, n))

\* While the table stays, what is translated stays right.
LEMMA FilledStays ==
    ASSUME UNCHANGED <<image, address_to_mbb>>, NEW mbb, NEW block, NEW fn, NEW n, NEW more, NEW c,
           NEW linked
    PROVE  /\ Filled(mbb, block, fn, n, more, c, linked)' = Filled(mbb, block, fn, n, more, c, linked)
           /\ \A a : Emitted(Text(a), fn)' = Emitted(Text(a), fn)
           /\ \A a : Joined(Text(a), fn)' = Joined(Text(a), fn)
<1>1. \A a : /\ Emitted(Text(a), fn)' = Emitted(Text(a), fn)
             /\ Joined(Text(a), fn)' = Joined(Text(a), fn)
  BY DEF Emitted, Joined, Found, Text
<1>2. \A a : LinkedTo(Text(a), fn, n, more)' = LinkedTo(Text(a), fn, n, more)
  BY <1>1 DEF LinkedTo, Text
<1> QED
  BY <1>1, <1>2 DEF Filled

\* Of a block that is not empty nothing is translated as long as its MBB is empty.
LEMMA FilledNone ==
    ASSUME NEW mbb, NEW block, Len(block) \in Nat \ {0}, NEW fn, NEW n, NEW more, NEW linked
    PROVE  /\ mbb.instrs = << >> /\ mbb.succs = << >> =>
                Filled(mbb, block, fn, n, more, 0, linked)
           /\ mbb.instrs = << >> /\ mbb.succs = << >> =>
                Filled(mbb, block, fn, n, more, 0, linked)'
<1>1. Len(<< >>) = 0 /\ 0 \in 0..Len(block) /\ 0 < Len(block) /\ 1..0 = {}
  OBVIOUS
<1> QED
  BY <1>1 DEF Filled

\* A step that leaves the MBBs and what is done of each.
LEMMA MIRKept ==
    ASSUME MIRInv, phase \in Late, UNCHANGED <<image, funcs, mfunc, address_to_mbb>>,
           \A f \in 1..Len(funcs) : \A n \in 1..Len(funcs[f].blocks) :
                Count(f, n)' = Count(f, n) /\ IsLinked(f, n)' = IsLinked(f, n)
    PROVE  MIRInv'
<1> SUFFICES ASSUME NEW f \in 1..Len(funcs'), NEW n \in 1..Len(funcs'[f].blocks)
             PROVE  Filled(mfunc[f][n], funcs[f].blocks[n], f, n, More(f, n), Count(f, n),
                           IsLinked(f, n))'
  BY DEF MIRInv
<1>1. PICK mbb, block, more, c, linked :
        /\ mbb = mfunc[f][n] /\ block = funcs[f].blocks[n] /\ more = More(f, n)
        /\ c = Count(f, n) /\ linked = IsLinked(f, n)
  OBVIOUS
<1>2. Made(f)
  BY DEF Made
<1>3. Filled(mbb, block, f, n, more, c, linked)
  BY <1>1, <1>2 DEF MIRInv
<1>4. Filled(mbb, block, f, n, more, c, linked)'
  BY <1>3, FilledStays
<1>5. /\ mbb = mfunc'[f][n] /\ block = funcs'[f].blocks[n] /\ more = More(f, n)'
      /\ c = Count(f, n)' /\ linked = IsLinked(f, n)'
  BY <1>1 DEF More
<1> QED
  BY <1>4, <1>5

\* A function gets its empty MBBs.
LEMMA CreateMIR ==
    ASSUME TypeInv, MIRInv, CreateMachineBasicBlocks PROVE MIRInv'
<1>1. PICK f \in 1..Len(funcs) : f = at.fn /\ Func = funcs[f] /\ f \in Nat
  BY Current DEF CreateMachineBasicBlocks
<1>2. /\ phase = "create" /\ UNCHANGED <<image, phase, funcs, pc>>
      /\ at' = [at EXCEPT !.fn = @ + 1]
  BY DEF CreateMachineBasicBlocks
<1>3. PICK blocks : blocks = funcs[f].blocks /\ blocks = Func.blocks
  BY <1>1
<1>4. mfunc' = [mfunc EXCEPT ![f] = [n \in 1..Len(blocks) |-> EmptyMBB]]
  BY <1>1, <1>3, CreateIs
<1>5. at'.fn = f + 1
  BY <1>1, <1>2, NextFunction DEF TypeInv
<1>6. mfunc \in Seq(Seq(MBBType)) /\ DOMAIN mfunc = 1..Len(mfunc) /\ Len(mfunc) = Len(funcs)
  BY LenProperties DEF TypeInv, Shapes
<1> SUFFICES ASSUME NEW g \in 1..Len(funcs'), Made(g)', NEW n \in 1..Len(funcs'[g].blocks)
             PROVE  Filled(mfunc[g][n], funcs[g].blocks[n], g, n, More(g, n), Count(g, n),
                           IsLinked(g, n))'
  BY DEF MIRInv
<1>7. g < f + 1 /\ g \in Nat
  BY <1>2, <1>5, CodeType DEF Made, Late
<1>8. CutUp(g)
  BY <1>2 DEF CutUp
<1>9. PICK block : block = funcs[g].blocks[n] /\ Len(block) \in Nat \ {0}
  <2>1. Len(funcs[g].blocks[n]) \in Nat /\ 1 \in 1..Len(funcs[g].blocks[n])
    BY <1>2, <1>8, BlockInst
  <2> QED
    BY <2>1
<1>10. PICK mbb : mbb = mfunc'[g][n]
  OBVIOUS
<1>11. mbb.instrs = << >> /\ mbb.succs = << >>
  <2>1. CASE g = f
    <3>1. mbb = EmptyMBB
      BY <1>2, <1>3, <1>4, <1>6, <1>10, <2>1
    <3> QED
      BY <3>1 DEF EmptyMBB
  <2>2. CASE g # f
    <3>1. Made(g) /\ n \in 1..Len(funcs[g].blocks) /\ g \in 1..Len(funcs)
      BY <1>1, <1>2, <1>7, <2>2 DEF Made
    <3>2. Filled(mfunc[g][n], block, g, n, More(g, n), 0, IsLinked(g, n))
      BY <1>2, <1>9, <3>1 DEF MIRInv, Count
    <3>3. mbb = mfunc[g][n]
      BY <1>2, <1>4, <1>6, <1>10, <2>2
    <3>4. Len(mbb.instrs) = 0 /\ mbb.succs = << >>
      BY <1>9, <3>2, <3>3 DEF Filled
    <3>5. mbb \in MBBType
      <4>1. mfunc[g] \in Seq(MBBType)
        BY <1>2, <1>6, ElementOfSeq
      <4>2. Len(mfunc[g]) >= Len(funcs[g].blocks) /\ Len(funcs[g].blocks) \in Nat
        BY <1>8, <3>1, BlockInst DEF TypeInv, Blocks
      <4>3. n \in 1..Len(mfunc[g])
        BY <3>1, <4>1, <4>2, LenProperties
      <4> QED
        BY <3>3, <4>1, <4>3, ElementOfSeq
    <3>6. mbb.instrs \in Seq(Item)
      BY <3>5 DEF MBBType
    <3> QED
      BY <3>4, <3>6, EmptySeq
  <2> QED
    BY <2>1, <2>2
<1>12. PICK more, linked : more = More(g, n)' /\ linked = IsLinked(g, n)'
  OBVIOUS
<1>13. Filled(mbb, block, g, n, more, 0, linked)'
  BY <1>9, <1>11, FilledNone
<1>14. Count(g, n)' = 0 /\ funcs'[g].blocks[n] = block
  BY <1>2, <1>9 DEF Count
<1> QED
  BY <1>10, <1>12, <1>13, <1>14

\* Every MBB is empty when the translation begins, and full when it ends.
LEMMA PhaseMIR ==
    ASSUME TypeInv, MIRInv, NextPhase PROVE MIRInv'
<1>1. /\ phase \in DOMAIN Following /\ at.fn > Len(funcs) /\ phase' = Following[phase]
      /\ at'.fn = 1 /\ at'.block = 1 /\ at'.inst = 1
      /\ UNCHANGED <<image, funcs, mfunc, address_to_mbb, pc>>
  BY DEF NextPhase, Enter
<1>2. CASE phase \in {"decode", "identify"}
  <2>1. \A g \in 1..Len(funcs) : ~(g < 1)
    BY CodeType
  <2>2. phase' \in {"identify", "create"}
    BY <1>2, <1>1, Phases
  <2>3. \A g \in 1..Len(funcs) : ~Made(g)'
    BY <1>1, <2>1, <2>2 DEF Made, Late
  <2> QED
    BY <1>1, <2>3 DEF MIRInv
<1>3. CASE phase \in {"create", "translate", "link"}
  <2> SUFFICES ASSUME NEW f \in 1..Len(funcs), NEW n \in 1..Len(funcs[f].blocks)
               PROVE  Filled(mfunc[f][n], funcs[f].blocks[n], f, n, More(f, n), Count(f, n),
                             IsLinked(f, n))'
    BY <1>1 DEF MIRInv
  <2>1. f < at.fn /\ ~(f < 1) /\ f \in Nat /\ n \in Nat /\ n >= 1 /\ at.fn \in Nat /\ f >= 1
    <3>1. Len(funcs) \in Nat /\ at.fn \in Nat
      BY CodeType
    <3>2. f <= Len(funcs) /\ f \in Nat /\ f >= 1
      BY <3>1
    <3>3. CutUp(f)
      BY <1>3 DEF CutUp, Late
    <3>4. Len(funcs[f].blocks) \in Nat
      BY <3>3, BlockInst
    <3> QED
      BY <1>1, <3>1, <3>2, <3>4
  <2>2. Made(f) /\ phase \in Late \cup {"create"}
    BY <1>3, <2>1 DEF Made, Late
  <2>3. PICK mbb, block, more, c, linked :
          /\ mbb = mfunc[f][n] /\ block = funcs[f].blocks[n] /\ more = More(f, n)
          /\ c = Count(f, n) /\ linked = IsLinked(f, n)
    OBVIOUS
  <2>4. Filled(mbb, block, f, n, more, c, linked)
    BY <2>2, <2>3 DEF MIRInv
  <2>5. Filled(mbb, block, f, n, more, c, linked)'
    BY <1>1, <2>4, FilledStays
  <2>6. mbb = mfunc'[f][n] /\ block = funcs'[f].blocks[n] /\ more = More(f, n)'
    BY <1>1, <2>3 DEF More
  <2>7. Count(f, n)' = c
    <3>1. CASE phase = "create"
      <4>1. phase' = "translate" /\ c = 0
        BY <1>1, <2>3, <3>1, Phases DEF Count
      <4> QED
        BY <1>1, <2>1, <4>1 DEF Count
    <3>2. CASE phase \in {"translate", "link"}
      <4>1. phase' \in {"link", "done"}
        BY <1>1, <3>2, Phases
      <4>2. c = Len(funcs[f].blocks[n])
        BY <2>1, <2>3, <3>2 DEF Count
      <4> QED
        BY <1>1, <4>1, <4>2 DEF Count
    <3> QED
      BY <1>3, <3>1, <3>2
  <2>8. IsLinked(f, n)' = linked
    BY <1>1, <1>3, <2>1, <2>3, Phases DEF IsLinked
  <2> QED
    BY <2>5, <2>6, <2>7, <2>8
<1> QED
  BY <1>1, <1>2, <1>3, Phases

\* Only the last instruction of a block has successors.
LEMMA JoinedNone ==
    ASSUME TypeInv, phase \in Late, NEW f \in 1..Len(funcs),
           NEW n \in 1..Len(funcs[f].blocks), NEW k \in 1..Len(funcs[f].blocks[n]),
           k < Len(funcs[f].blocks[n]), NEW a, a = funcs[f].blocks[n][k]
    PROVE  Joined(Text(a), f) = << >>
<1>1. funcs[f] \in FuncType /\ CutUp(f) /\ DOMAIN funcs = 1..Len(funcs)
  BY CodeType, LenProperties DEF CutUp, TypeInv, Shapes
<1>2. DOMAIN funcs[f].blocks = 1..Len(funcs[f].blocks) /\ funcs[f].blocks[n] \in Seq(Addrs(image))
  BY <1>1, ElementOfSeq, LenProperties DEF FuncType
<1>3. DOMAIN funcs[f].blocks[n] = 1..Len(funcs[f].blocks[n])
  BY <1>2, LenProperties
<1>4. BlocksPartition
  BY PartitionImplied
<1>5. \A b \in DOMAIN funcs[f].blocks : \A j \in DOMAIN funcs[f].blocks[b] :
        j < Len(funcs[f].blocks[b]) =>
            ~(isBranch(Text(funcs[f].blocks[b][j])) \/ isReturn(Text(funcs[f].blocks[b][j])))
  BY <1>1, <1>4 DEF BlocksPartition, FunctionIndex, Late
<1>6. ~isBranch(Text(a))
  BY <1>2, <1>3, <1>5
<1> QED
  BY <1>6 DEF Joined, Found, HasTarget, is_call, isCall, isBranch

\* One more instruction of a block is translated.
LEMMA TranslateMIR ==
    ASSUME TypeInv, MIRInv, Translate PROVE MIRInv'
<1>1. /\ Translating /\ phase = "translate" /\ phase \in Late
      /\ UNCHANGED <<image, phase, funcs, address_to_mbb, pc>>
      /\ at' = [at EXCEPT !.inst = @ + 1]
  BY TranslateIs DEF Translating, Late
<1>2. PICK f \in 1..Len(funcs) : f = at.fn /\ Func = funcs[f] /\ f \in 1..Len(mfunc)
  BY <1>1, Translated
<1>3. PICK n \in 1..Len(funcs[f].blocks) :
        n = at.block /\ n \in 1..Len(mfunc[f]) /\ Block = funcs[f].blocks[n]
  BY <1>1, <1>2, Translated
<1>4. PICK block : block = funcs[f].blocks[n]
  OBVIOUS
<1>5. PICK len \in Nat : len = Len(block)
  BY <1>1, <1>4, BlockInst DEF CutUp
<1>6. PICK k \in 1..len : k = at.inst /\ Inst = Text(block[k])
  BY <1>1, <1>3, <1>4, <1>5, Translated DEF Inst
<1>7. PICK old : old = mfunc[f][n]
  OBVIOUS
<1>8. PICK new \in MBBType :
        /\ mfunc' = [mfunc EXCEPT ![f][n] = new]
        /\ new.instrs = Append(old.instrs, Emitted(Text(block[k]), f))
        /\ new.succs = old.succs \o Joined(Text(block[k]), f)
  BY <1>2, <1>3, <1>6, <1>7, EmitIs
<1>9. mfunc \in Seq(Seq(MBBType)) /\ Len(mfunc) = Len(funcs) /\ old \in MBBType
  BY <1>1, <1>2, <1>3, <1>7, Translated DEF TypeInv, Shapes
<1>10. /\ mfunc'[f][n] = new
       /\ \A g \in 1..Len(mfunc) : \A m \in 1..Len(mfunc[g]) :
                g # f \/ m # n => mfunc'[g][m] = mfunc[g][m]
  BY SMTT(30), <1>2, <1>3, <1>8, <1>9, SetBlock
<1>11. at'.fn = f /\ at'.block = n /\ at'.inst = k + 1
  BY <1>1, <1>2, <1>3, <1>6, NextInst DEF TypeInv
<1>12. PICK more : more = More(f, n)
  OBVIOUS
<1>13. /\ Len(old.instrs) = k - 1 /\ old.succs = << >>
       /\ \A j \in 1..k - 1 : old.instrs[j] = Emitted(Text(block[j]), f)
  <2>1. Count(f, n) = k - 1
    BY <1>1, <1>2, <1>3, <1>5, <1>6 DEF Count
  <2>2. Filled(old, block, f, n, more, k - 1, IsLinked(f, n))
    BY <1>1, <1>4, <1>7, <1>12, <2>1 DEF MIRInv, Made
  <2>3. k - 1 < Len(block)
    BY <1>5
  <2> QED
    BY <2>2, <2>3 DEF Filled
<1>14. Filled(new, block, f, n, more, k, FALSE)
  <2>1. PICK item : item = Emitted(Text(block[k]), f)
    OBVIOUS
  <2>2. block[k] \in Addrs(image) /\ f \in Nat
    BY <1>1, <1>4, <1>5, BlockInst, CodeType DEF CutUp
  <2>3. item \in Item /\ Joined(Text(block[k]), f) \in Seq(Nat \X Nat)
    BY <2>1, <2>2, EmittedType
  <2>4. old.instrs \in Seq(Item)
    BY <1>9 DEF MBBType
  <2>5. new.instrs = Append(old.instrs, item)
    BY <1>8, <2>1
  <2>6. Len(new.instrs) = k
    BY <1>13, <2>3, <2>4, <2>5, AppendProperties
  <2>7. \A j \in 1..k : new.instrs[j] = Emitted(Text(block[j]), f)
    <3> SUFFICES ASSUME NEW j \in 1..k PROVE new.instrs[j] = Emitted(Text(block[j]), f)
      OBVIOUS
    <3>1. CASE j = k
      <4>1. new.instrs[k] = item
        BY <1>13, <2>3, <2>4, <2>5, AppendProperties
      <4> QED
        BY <2>1, <3>1, <4>1
    <3>2. CASE j # k
      <4>1. j \in 1..k - 1
        BY <3>2
      <4>2. new.instrs[j] = old.instrs[j]
        BY <1>13, <2>3, <2>4, <2>5, <4>1, AppendProperties
      <4> QED
        BY <1>13, <4>1, <4>2
    <3> QED
      BY <3>1, <3>2
  <2>8. new.succs = Joined(Text(block[k]), f)
    BY <1>8, <1>13, <2>3, ConcatEmptySeq
  <2>9. k < Len(block) => Joined(Text(block[k]), f) = << >>
    BY <1>1, <1>4, <1>5, JoinedNone
  <2>10. k \in 0..Len(block) /\ (~(k < Len(block)) => k = Len(block))
    BY <1>5
  <2> QED
    BY <2>6, <2>7, <2>8, <2>9, <2>10 DEF Filled
<1>15. Filled(new, block, f, n, more, k, FALSE)'
  BY <1>1, <1>14, FilledStays
<1> SUFFICES ASSUME NEW g \in 1..Len(funcs), NEW m \in 1..Len(funcs[g].blocks)
             PROVE  Filled(mfunc[g][m], funcs[g].blocks[m], g, m, More(g, m), Count(g, m),
                           IsLinked(g, m))'
  BY <1>1 DEF MIRInv
<1>16. ~IsLinked(g, m)' /\ ~IsLinked(g, m)
  BY <1>1 DEF IsLinked
<1>17. CASE g = f /\ m = n
  <2>1. Count(g, m)' = k
    <3>1. k + 1 - 1 = k
      OBVIOUS
    <3>2. ~(f > f) /\ ~(n > n)
      BY <1>1, CodeType, BlockInst DEF CutUp
    <3> QED
      BY <1>1, <1>11, <1>17, <3>1, <3>2 DEF Count
  <2>2. /\ mfunc'[g][m] = new /\ funcs'[g].blocks[m] = block /\ More(g, m)' = more
        /\ IsLinked(g, m)' = FALSE
    BY <1>1, <1>4, <1>10, <1>12, <1>16, <1>17 DEF More, IsLinked
  <2> QED
    BY <1>15, <1>17, <2>1, <2>2
<1>18. CASE ~(g = f /\ m = n)
  <2>1. PICK mbb, other, rest, c :
          /\ mbb = mfunc[g][m] /\ other = funcs[g].blocks[m] /\ rest = More(g, m)
          /\ c = Count(g, m)
    OBVIOUS
  <2>2. Filled(mbb, other, g, m, rest, c, FALSE)
    BY <1>1, <1>16, <2>1 DEF MIRInv, Made, IsLinked
  <2>3. Filled(mbb, other, g, m, rest, c, FALSE)'
    BY <1>1, <2>2, FilledStays
  <2>4. Count(g, m)' = c
    BY <1>1, <1>2, <1>3, <1>11, <1>18, <2>1 DEF Count
  <2>5. mfunc'[g][m] = mbb
    <3>1. g \in 1..Len(mfunc)
      BY <1>9
    <3>2. Len(mfunc[g]) >= Len(funcs[g].blocks) /\ Len(funcs[g].blocks) \in Nat
      BY <1>1, BlockInst DEF TypeInv, Blocks, Made, CutUp
    <3>3. mfunc[g] \in Seq(MBBType)
      BY <1>9, <3>1, ElementOfSeq
    <3>4. m \in 1..Len(mfunc[g])
      BY <3>2, <3>3, LenProperties
    <3> QED
      BY <1>10, <1>18, <2>1, <3>1, <3>4
  <2>6. other = funcs'[g].blocks[m] /\ rest = More(g, m)' /\ IsLinked(g, m)' = FALSE
    BY <1>1, <1>16, <2>1 DEF More, IsLinked
  <2> QED
    BY <2>3, <2>4, <2>5, <2>6
<1> QED
  BY Zenon, <1>17, <1>18

\* The loop over the blocks goes on when all instructions of a block are translated.
LEMMA NextBlockMIR ==
    ASSUME TypeInv, MIRInv, NextBlock PROVE MIRInv'
<1>1. /\ phase = "translate" /\ phase \in Late /\ at.fn <= Len(funcs)
      /\ UNCHANGED <<image, phase, funcs, mfunc, address_to_mbb, pc>>
      /\ at' = IF at.block > Len(Func.blocks)
               THEN [fn |-> at.fn + 1, block |-> 1, inst |-> 1]
               ELSE [at EXCEPT !.block = @ + 1, !.inst = 1]
      /\ at.block <= Len(Func.blocks) => at.inst > Len(Block)
  BY DEF NextBlock, Late
<1>2. PICK f \in 1..Len(funcs) : f = at.fn /\ Func = funcs[f] /\ f \in Nat
  BY <1>1, Current
<1>3. /\ at \in [fn : Nat \ {0}, block : Nat \ {0}, inst : Nat \ {0}]
      /\ Len(funcs[f].blocks) \in Nat
  BY <1>1, BlockInst DEF TypeInv, Shapes, CutUp
<1>4. PICK b \in Nat \ {0}, i \in Nat \ {0} : b = at.block /\ i = at.inst
  BY <1>3
<1>5. \A g \in 1..Len(funcs) : g \in Nat /\ Len(funcs[g].blocks) \in Nat
                               /\ \A n \in 1..Len(funcs[g].blocks) : n \in Nat
  BY <1>1, BlockInst, CodeType DEF CutUp
<1>6. \A g \in 1..Len(funcs) : \A n \in 1..Len(funcs[g].blocks) : IsLinked(g, n)' = IsLinked(g, n)
  BY <1>1 DEF IsLinked
<1>7. ASSUME NEW g \in 1..Len(funcs), NEW n \in 1..Len(funcs[g].blocks)
      PROVE  Count(g, n)' = Count(g, n)
  <2>1. Count(g, n) = IF g > f \/ (g = f /\ n > b) THEN 0
                      ELSE IF g = f /\ n = b THEN i - 1 ELSE Len(funcs[g].blocks[n])
    BY <1>1, <1>2, <1>4 DEF Count
  <2>2. CASE b > Len(funcs[f].blocks)
    <3>1. at'.fn = f + 1 /\ at'.block = 1 /\ at'.inst = 1
      BY <1>1, <1>2, <1>4, <2>2
    <3>2. Count(g, n)' = IF g > f + 1 \/ (g = f + 1 /\ n > 1) THEN 0
                         ELSE IF g = f + 1 /\ n = 1 THEN 0 ELSE Len(funcs[g].blocks[n])
      <4>1. 1 - 1 = 0
        OBVIOUS
      <4> QED
        BY <1>1, <3>1, <4>1 DEF Count
    <3>3. g = f => ~(n > b) /\ n # b
      BY <1>3, <1>4, <1>5, <2>2
    <3>4. g = f + 1 => n > 1 \/ n = 1
      BY <1>5
    <3>5. g > f <=> g > f + 1 \/ g = f + 1
      BY <1>2, <1>5
    <3> QED
      BY <1>2, <2>1, <3>2, <3>3, <3>4, <3>5
  <2>3. CASE ~(b > Len(funcs[f].blocks))
    <3>1. at' = [at EXCEPT !.block = b + 1, !.inst = 1]
      BY <1>1, <1>2, <1>4, <2>3
    <3>2. at'.fn = f /\ at'.block = b + 1 /\ at'.inst = 1
      BY <1>2, <1>3, <3>1
    <3>3. Count(g, n)' = IF g > f \/ (g = f /\ n > b + 1) THEN 0
                         ELSE IF g = f /\ n = b + 1 THEN 0 ELSE Len(funcs[g].blocks[n])
      <4>1. 1 - 1 = 0
        OBVIOUS
      <4> QED
        BY <1>1, <3>2, <4>1 DEF Count
    <3>4. b \in 1..Len(funcs[f].blocks) /\ b <= Len(funcs[f].blocks)
      BY <1>3, <1>4, <2>3
    <3>5. i - 1 = Len(funcs[f].blocks[b])
      <4>1. i > Len(funcs[f].blocks[b])
        BY <1>1, <1>2, <1>4, <3>4 DEF Block
      <4>2. Made(f) /\ Count(f, b) = i - 1
        <5>1. ~(f > f) /\ ~(b > b)
          BY <1>2
        <5> QED
          BY <1>1, <1>2, <1>4, <5>1 DEF Made, Count
      <4>3. i - 1 \in 0..Len(funcs[f].blocks[b])
        BY <1>1, <3>4, <4>2 DEF MIRInv, Filled
      <4>4. Len(funcs[f].blocks[b]) \in Nat
        BY <1>1, <3>4, BlockInst DEF CutUp
      <4> QED
        BY SMTT(30), <4>1, <4>3, <4>4
    <3>6. g = f /\ n = b => Count(g, n) = Len(funcs[g].blocks[n]) /\ ~(n > b + 1) /\ n # b + 1
      <4>1. ~(b > b) /\ ~(f > f) /\ ~(b > b + 1) /\ b # b + 1
        BY <1>2
      <4> QED
        BY <2>1, <3>5, <4>1
    <3>7. n > b <=> n > b + 1 \/ n = b + 1
      BY <1>5
    <3> QED
      BY <2>1, <3>3, <3>6, <3>7
  <2> QED
    BY <2>2, <2>3
<1> QED
  BY <1>1, <1>6, <1>7, MIRKept

\* The loop over the functions goes on when all blocks of one are linked.
LEMMA FinishLinkingMIR ==
    ASSUME TypeInv, MIRInv, FinishLinking PROVE MIRInv'
<1>1. /\ phase = "link" /\ phase \in Late /\ at.fn <= Len(funcs) /\ at.block > Len(Func.blocks)
      /\ UNCHANGED <<image, phase, funcs, mfunc, address_to_mbb, pc>>
      /\ at'.fn = at.fn + 1 /\ at'.block = 1
  BY DEF FinishLinking, Late
<1>2. PICK f \in 1..Len(funcs) : f = at.fn /\ Func = funcs[f] /\ f \in Nat
  BY <1>1, Current
<1>3. PICK b \in Nat : b = at.block
  BY DEF TypeInv, Shapes
<1>4. \A g \in 1..Len(funcs) : g \in Nat /\ Len(funcs[g].blocks) \in Nat
                               /\ \A n \in 1..Len(funcs[g].blocks) : n \in Nat
  BY <1>1, BlockInst, CodeType DEF CutUp
<1>5. \A g \in 1..Len(funcs) : \A n \in 1..Len(funcs[g].blocks) : Count(g, n)' = Count(g, n)
  BY <1>1 DEF Count
<1>6. ASSUME NEW g \in 1..Len(funcs), NEW n \in 1..Len(funcs[g].blocks)
      PROVE  IsLinked(g, n)' = IsLinked(g, n)
  <2>1. IsLinked(g, n) <=> g < f \/ (g = f /\ n < b)
    BY <1>1, <1>2, <1>3 DEF IsLinked
  <2>2. IsLinked(g, n)' <=> g < f + 1 \/ (g = f + 1 /\ n < 1)
    BY <1>1, <1>2 DEF IsLinked
  <2>3. g = f => n < b
    BY <1>1, <1>2, <1>3, <1>4
  <2>4. ~(n < 1)
    BY <1>4
  <2>5. g < f + 1 <=> g < f \/ g = f
    BY <1>2, <1>4
  <2>6. IsLinked(g, n)' <=> IsLinked(g, n)
    BY <2>1, <2>2, <2>3, <2>4, <2>5
  <2> QED
    BY <2>6 DEF IsLinked
<1> QED
  BY <1>1, <1>5, <1>6, MIRKept

\* The successors of one more MBB are complete.
LEMMA LinkMIR ==
    ASSUME TypeInv, Exact, TableInv, MIRInv, Link PROVE MIRInv'
<1>1. /\ Linking /\ phase = "link" /\ phase \in Late
      /\ UNCHANGED <<image, phase, funcs, address_to_mbb, pc>>
      /\ at' = [at EXCEPT !.block = @ + 1] /\ Gained(mfunc')
  BY LinkExact DEF Linking, Late
<1>2. PICK f \in 1..Len(funcs) : f = at.fn /\ Func = funcs[f] /\ f \in 1..Len(mfunc) /\ f \in Nat
  BY <1>1, LinkedBlock
<1>3. PICK n \in 1..Len(funcs[f].blocks) :
        n = at.block /\ n \in 1..Len(mfunc[f]) /\ Block = funcs[f].blocks[n] /\ n \in Nat
  BY <1>1, <1>2, LinkedBlock
<1>4. PICK block : block = funcs[f].blocks[n]
  OBVIOUS
<1>5. PICK len \in Nat \ {0} : len = Len(block)
  <2>1. CutUp(f)
    BY <1>1 DEF CutUp
  <2>2. Len(funcs[f].blocks[n]) \in Nat /\ 1 \in 1..Len(funcs[f].blocks[n])
    BY <2>1, BlockInst
  <2>3. Len(funcs[f].blocks[n]) \in Nat \ {0}
    BY <2>2
  <2> QED
    BY <1>4, <2>3
<1>6. PICK last : last = LastInst /\ last = Text(block[Len(block)])
  BY <1>3, <1>4 DEF LastInst
<1>7. PICK old, new : old = mfunc[f][n] /\ new = mfunc'[f][n]
  OBVIOUS
<1>8. PICK more : more = More(f, n)
  OBVIOUS
<1>9. /\ new.instrs = old.instrs
      /\ new.succs = IF Continues THEN Append(old.succs, <<f, n + 1>>) ELSE old.succs
      /\ \A g \in 1..Len(mfunc) : \A m \in 1..Len(mfunc[g]) :
                g # f \/ m # n => mfunc'[g][m] = mfunc[g][m]
  BY <1>1, <1>2, <1>3, <1>7 DEF Gained, NextMBB
<1>10. Filled(old, block, f, n, more, Len(block), FALSE)
  <2>1. Count(f, n) = Len(block) /\ IsLinked(f, n) = FALSE /\ Made(f)
    BY <1>1, <1>2, <1>3, <1>4 DEF Count, IsLinked, Made
  <2> QED
    BY <1>1, <1>4, <1>7, <1>8, <2>1 DEF MIRInv
<1>11. ~(Len(block) < Len(block))
  BY <1>5
<1>12. /\ Len(block) \in 0..Len(block) /\ Len(old.instrs) = Len(block)
       /\ \A k \in 1..Len(block) : old.instrs[k] = Emitted(Text(block[k]), f)
       /\ old.succs = Joined(last, f)
  BY <1>6, <1>10, <1>11 DEF Filled
<1>13. Continues <=> /\ more /\ ~isReturn(last) /\ ~isUnconditionalBranch(last)
                     /\ isBranch(last) => \A k \in DOMAIN Joined(last, f) :
                            Joined(last, f)[k] # <<f, n + 1>>
  <2>1. HasNext <=> more
    <3>1. Len(funcs[f].blocks) \in Nat
      BY <1>1, BlockInst DEF CutUp
    <3>2. n + 1 <= Len(funcs[f].blocks) <=> n < Len(funcs[f].blocks)
      BY <1>3, <3>1
    <3> QED
      BY <1>2, <1>3, <1>8, <3>2 DEF HasNext, More
  <2> QED
    BY <1>2, <1>3, <1>6, <1>7, <1>12, <2>1 DEF Continues, NextMBB
<1>14. new.succs = LinkedTo(last, f, n, more)
  BY <1>9, <1>12, <1>13 DEF LinkedTo
<1>15. Filled(new, block, f, n, more, Len(block), TRUE)
  BY <1>6, <1>9, <1>11, <1>12, <1>14 DEF Filled
<1>16. PICK count : count = Len(block)
  OBVIOUS
<1>17. Filled(new, block, f, n, more, count, TRUE)'
  BY <1>1, <1>15, <1>16, FilledStays
<1>18. at'.fn = f /\ at'.block = n + 1
  BY <1>1, <1>2, <1>3, NextBlockOf DEF TypeInv
<1> SUFFICES ASSUME NEW g \in 1..Len(funcs), NEW m \in 1..Len(funcs[g].blocks)
             PROVE  Filled(mfunc[g][m], funcs[g].blocks[m], g, m, More(g, m), Count(g, m),
                           IsLinked(g, m))'
  BY <1>1 DEF MIRInv
<1>19. g \in Nat /\ m \in Nat
  BY <1>1, BlockInst, CodeType DEF CutUp
<1>20. CASE g = f /\ m = n
  <2>1. Count(g, m)' = count
    BY <1>1, <1>4, <1>16, <1>20 DEF Count
  <2>2. IsLinked(g, m)' = TRUE
    <3>1. n < n + 1
      OBVIOUS
    <3> QED
      BY <1>1, <1>18, <1>20, <3>1 DEF IsLinked
  <2>3. mfunc'[g][m] = new /\ funcs'[g].blocks[m] = block /\ More(g, m)' = more
    BY <1>1, <1>4, <1>7, <1>8, <1>20 DEF More
  <2> QED
    BY <1>17, <1>20, <2>1, <2>2, <2>3
<1>21. CASE ~(g = f /\ m = n)
  <2>1. PICK mbb, other, rest, c, linked :
          /\ mbb = mfunc[g][m] /\ other = funcs[g].blocks[m] /\ rest = More(g, m)
          /\ c = Count(g, m) /\ linked = IsLinked(g, m)
    OBVIOUS
  <2>2. Filled(mbb, other, g, m, rest, c, linked)
    BY <1>1, <2>1 DEF MIRInv, Made
  <2>3. Filled(mbb, other, g, m, rest, c, linked)'
    BY <1>1, <2>2, FilledStays
  <2>4. Count(g, m)' = c
    BY <1>1, <2>1 DEF Count
  <2>5. mfunc'[g][m] = mbb
    <3>1. g \in 1..Len(mfunc) /\ mfunc \in Seq(Seq(MBBType))
      BY DEF TypeInv, Shapes
    <3>2. Len(mfunc[g]) >= Len(funcs[g].blocks) /\ Len(funcs[g].blocks) \in Nat
      BY <1>1, BlockInst DEF TypeInv, Blocks, Made, CutUp
    <3>3. mfunc[g] \in Seq(MBBType)
      BY <3>1, ElementOfSeq
    <3>4. m \in 1..Len(mfunc[g])
      BY <3>2, <3>3, LenProperties
    <3> QED
      BY <1>9, <1>21, <2>1, <3>1, <3>4
  <2>6. IsLinked(g, m)' = linked
    <3>1. IsLinked(g, m)' <=> g < f \/ (g = f /\ m < n + 1)
      BY <1>1, <1>18 DEF IsLinked
    <3>2. IsLinked(g, m) <=> g < f \/ (g = f /\ m < n)
      BY <1>1, <1>2, <1>3 DEF IsLinked
    <3>3. m < n + 1 <=> m < n \/ m = n
      BY <1>3, <1>19
    <3>4. IsLinked(g, m)' <=> IsLinked(g, m)
      BY <1>21, <3>1, <3>2, <3>3
    <3> QED
      BY <2>1, <3>4 DEF IsLinked
  <2>7. other = funcs'[g].blocks[m] /\ rest = More(g, m)'
    BY <1>1, <2>1 DEF More
  <2> QED
    BY <2>3, <2>4, <2>5, <2>6, <2>7
<1> QED
  BY <1>20, <1>21

\* No step leaves the MIR.
LEMMA NextMIR ==
    ASSUME TypeInv, SweepInv, TableInv, MIRInv, Structured(image), [Next]_vars PROVE MIRInv'
<1>1. CASE UNCHANGED vars
  <2>1. UNCHANGED <<image, phase, funcs, mfunc, address_to_mbb, at, pc>>
    BY <1>1 DEF vars
  <2> SUFFICES ASSUME phase \in Late \cup {"create"}, NEW f \in 1..Len(funcs), Made(f),
                      NEW n \in 1..Len(funcs[f].blocks)
               PROVE  Filled(mfunc[f][n], funcs[f].blocks[n], f, n, More(f, n), Count(f, n),
                             IsLinked(f, n))'
    BY <2>1 DEF MIRInv, Made
  <2>2. PICK mbb, block, more, c, linked :
          /\ mbb = mfunc[f][n] /\ block = funcs[f].blocks[n] /\ more = More(f, n)
          /\ c = Count(f, n) /\ linked = IsLinked(f, n)
    OBVIOUS
  <2>3. Filled(mbb, block, f, n, more, c, linked)
    BY <2>2 DEF MIRInv
  <2>4. Filled(mbb, block, f, n, more, c, linked)'
    BY <2>1, <2>3, FilledStays
  <2>5. /\ mbb = mfunc'[f][n] /\ block = funcs'[f].blocks[n] /\ more = More(f, n)'
        /\ c = Count(f, n)' /\ linked = IsLinked(f, n)'
    BY <2>1, <2>2 DEF More, Count, IsLinked
  <2> QED
    BY <2>4, <2>5
<1>2. CASE CollectSymbols \/ DecodeInstruction \/ SkipIllegalByte \/ FinishFunction
  <2>1. phase' = "decode"
    BY <1>2 DEF CollectSymbols, DecodeInstruction, SkipIllegalByte, FinishFunction, Enter, Decoding
  <2> QED
    BY <2>1 DEF MIRInv, Late
<1>3. CASE IdentifyBasicBlocks
  <2>1. phase' = "identify"
    BY <1>3, IdentifyIs
  <2> QED
    BY <2>1 DEF MIRInv, Late
<1>4. CASE Link
  <2>1. phase = "link"
    BY <1>4 DEF Link, LinkBranch, LinkReturn, LinkFallThrough, Linking
  <2>2. Exact
    BY <2>1, ExactHolds
  <2> QED
    BY <1>4, <2>2, LinkMIR
<1> QED
  BY <1>1, <1>2, <1>3, <1>4, CreateMIR, TranslateMIR, NextBlockMIR, FinishLinkingMIR, PhaseMIR
  DEF Next, Translate, Link

\* In structured object files all of this holds.
Structure == TypeInv /\ SweepInv /\ TableInv /\ MIRInv

\* Structure is inductive: the invariant of the three theorems below.
LEMMA StructureHolds ==
    ASSUME \A img \in Images : Structured(img) PROVE Spec => []Structure
<1>1. Init => Structure
  <2> SUFFICES ASSUME Init PROVE SweepInv /\ TableInv /\ MIRInv
    BY InitTypes DEF Structure
  <2> QED
    BY DEF Init, SweepInv, TableInv, MIRInv, Late
<1>2. Structure /\ [Next]_vars => Structure'
  <2> SUFFICES ASSUME Structure, [Next]_vars PROVE Structure'
    OBVIOUS
  <2>1. TypeInv /\ SweepInv /\ TableInv /\ MIRInv
    BY DEF Structure
  <2>2. Structured(image)
    BY <2>1 DEF TypeInv, Shapes
  <2> QED
    BY <2>1, <2>2, NextTypes, NextSweeps, NextTable, NextMIR DEF Structure
<1> QED
  BY <1>1, <1>2, PTL DEF Spec

\* When the conversion is done every MBB is complete.
LEMMA DoneIs ==
    ASSUME TypeInv, TableInv, MIRInv, phase = "done", NEW f \in 1..Len(funcs)
    PROVE  /\ Len(mfunc[f]) = Len(funcs[f].blocks)
           /\ DOMAIN mfunc[f] = 1..Len(funcs[f].blocks)
           /\ DOMAIN funcs[f].blocks = 1..Len(funcs[f].blocks)
           /\ \A n \in 1..Len(funcs[f].blocks) :
                /\ DOMAIN funcs[f].blocks[n] = 1..Len(funcs[f].blocks[n])
                /\ Len(funcs[f].blocks[n]) \in Nat \ {0}
                /\ Len(mfunc[f][n].instrs) = Len(funcs[f].blocks[n])
                /\ \A k \in 1..Len(funcs[f].blocks[n]) :
                    mfunc[f][n].instrs[k] = Emitted(Text(funcs[f].blocks[n][k]), f)
                /\ mfunc[f][n].succs =
                    LinkedTo(Text(funcs[f].blocks[n][Len(funcs[f].blocks[n])]), f, n, More(f, n))
<1>1. Made(f) /\ CutUp(f) /\ phase \in Late
  BY DEF Made, CutUp, Late
<1>2. Len(mfunc[f]) = Len(funcs[f].blocks)
  BY <1>1 DEF TableInv
<1>3. mfunc[f] \in Seq(MBBType) /\ funcs[f].blocks \in Seq(Seq(Addrs(image)))
  <2>1. f \in 1..Len(mfunc) /\ mfunc \in Seq(Seq(MBBType)) /\ funcs[f] \in FuncType
    BY CodeType DEF TypeInv, Shapes
  <2> QED
    BY <2>1, ElementOfSeq DEF FuncType
<1>4. ASSUME NEW n \in 1..Len(funcs[f].blocks)
      PROVE  /\ DOMAIN funcs[f].blocks[n] = 1..Len(funcs[f].blocks[n])
             /\ Len(funcs[f].blocks[n]) \in Nat \ {0}
  <2>1. funcs[f].blocks[n] \in Seq(Addrs(image))
    BY <1>3, ElementOfSeq
  <2>2. 1 \in 1..Len(funcs[f].blocks[n]) /\ Len(funcs[f].blocks[n]) \in Nat
    BY <1>1, BlockInst
  <2> QED
    BY <2>1, <2>2, LenProperties
<1>5. ASSUME NEW n \in 1..Len(funcs[f].blocks)
      PROVE  /\ Len(mfunc[f][n].instrs) = Len(funcs[f].blocks[n])
             /\ \A k \in 1..Len(funcs[f].blocks[n]) :
                    mfunc[f][n].instrs[k] = Emitted(Text(funcs[f].blocks[n][k]), f)
             /\ mfunc[f][n].succs =
                    LinkedTo(Text(funcs[f].blocks[n][Len(funcs[f].blocks[n])]), f, n, More(f, n))
  <2>1. PICK block, mbb, more : block = funcs[f].blocks[n] /\ mbb = mfunc[f][n] /\ more = More(f, n)
    OBVIOUS
  <2>2. Count(f, n) = Len(block) /\ IsLinked(f, n)
    BY <2>1 DEF Count, IsLinked
  <2>3. Filled(mbb, block, f, n, more, Len(block), IsLinked(f, n))
    BY <1>1, <2>1, <2>2 DEF MIRInv
  <2>4. ~(Len(block) < Len(block))
    BY <1>4, <2>1
  <2>5. /\ Len(mbb.instrs) = Len(block)
        /\ \A k \in 1..Len(block) : mbb.instrs[k] = Emitted(Text(block[k]), f)
        /\ mbb.succs = LinkedTo(Text(block[Len(block)]), f, n, more)
    BY <2>2, <2>3, <2>4 DEF Filled
  <2> QED
    BY <2>1, <2>5
<1> QED
  BY <1>2, <1>3, <1>4, <1>5, LenProperties

\* The table and MIR invariants give the addresses of every finished function.
LEMMA AddressesImplied == Structure => AddressesAgree
<1> SUFFICES ASSUME TypeInv, TableInv, MIRInv, phase = "done", NEW f \in FunctionIndex
             PROVE  /\ Len(mfunc[f]) = Len(funcs[f].blocks)
                    /\ \A b \in BlockIndex(f) : Len(mfunc[f][b].instrs) = Len(funcs[f].blocks[b])
  BY DEF AddressesAgree, Structure
<1>1. f \in 1..Len(funcs)
  BY LenProperties DEF FunctionIndex, TypeInv, Shapes
<1> QED
  BY <1>1, DoneIs DEF BlockIndex

\* In structured object files the lifter finds the address of every machine instruction
\* at its place, and no MBB is without a block (mctomir-transform.cpp:377,
\* link_machine_basic_blocks, which could add MBBs, and lifter.cpp, which uses `at').
THEOREM AddressesExact ==
    ASSUME \A img \in Images : Structured(img) PROVE Spec => []AddressesAgree
<1> QED
  BY StructureHolds, AddressesImplied, PTL

\* How each kind of instruction is translated in function f.
AsItsKind(i, f) ==
    \/ /\ i.kind \in {"plain", "jalr", "jr", "ret"}
       /\ Emitted(i, f) = [op |-> i.kind, ref |-> << >>] /\ Joined(i, f) = << >>
    \/ /\ i.kind \in {"cbr", "jmp"}
       /\ \E m : /\ StartsAt(f, m, i.target)
                 /\ Emitted(i, f) = [op |-> i.kind, ref |-> <<f, m>>]
                 /\ Joined(i, f) = << <<f, m>> >>
    \/ /\ i.kind = "jmp" /\ ~IsInst(f, i.target) /\ Joined(i, f) = << >>
       /\ \E g : /\ StartsAt(g, 1, i.target)
                 /\ Emitted(i, f) = [op |-> "tail", ref |-> <<g>>]
    \/ /\ i.kind = "call" /\ Joined(i, f) = << >>
       /\ \E g : /\ StartsAt(g, 1, i.target)
                 /\ Emitted(i, f) = [op |-> "call", ref |-> <<g>>]

\* Every instruction of a block is translated as its kind asks.
LEMMA EmittedIs ==
    ASSUME TypeInv, Exact, TableInv, phase = "done", NEW f \in 1..Len(funcs),
           NEW n \in 1..Len(funcs[f].blocks), NEW k \in 1..Len(funcs[f].blocks[n]),
           NEW a, a = funcs[f].blocks[n][k], NEW i, i = Text(a)
    PROVE  AsItsKind(i, f)
<1>1. phase \in Late /\ \A g : CutUp(g) /\ Made(g)
  BY DEF CutUp, Made, Late
<1>2. i.kind \in Kind
  <2>1. a \in Addrs(image)
    BY <1>1, BlockInst
  <2> QED
    BY <2>1, TextType DEF TypeInv, Shapes
<1>3. ASSUME NEW g, NEW m, StartsAt(g, m, i.target)
      PROVE  i.target \in DOMAIN address_to_mbb /\ address_to_mbb[i.target] = <<g, m>>
  BY <1>1, <1>3 DEF TableInv, StartsAt
<1>4. CASE i.kind \in {"plain", "jalr", "jr", "ret"}
  BY Zenon, <1>4 DEF Emitted, Joined, Found, HasTarget, AsItsKind
<1>5. ASSUME i.kind \in {"cbr", "jmp"}, NEW m, StartsAt(f, m, i.target)
      PROVE  /\ Emitted(i, f) = [op |-> i.kind, ref |-> <<f, m>>]
             /\ Joined(i, f) = << <<f, m>> >>
  <2>1. Found(i) /\ address_to_mbb[i.target] = <<f, m>>
    BY <1>3, <1>5 DEF Found, HasTarget
  <2>2. ~is_tail_call(i, f, <<f, m>>) /\ ~isCall(i)
    BY Zenon, <1>5 DEF is_tail_call, isCall
  <2> QED
    BY Zenon, <2>1, <2>2 DEF Emitted, Joined, is_call
<1>6. ASSUME i.kind = "jmp", ~IsInst(f, i.target), NEW g, StartsAt(g, 1, i.target)
      PROVE  Emitted(i, f) = [op |-> "tail", ref |-> <<g>>] /\ Joined(i, f) = << >>
  <2>1. Found(i) /\ address_to_mbb[i.target] = <<g, 1>>
    BY Zenon, <1>3, <1>6 DEF Found, HasTarget
  <2>2. g # f
    <3> SUFFICES ASSUME g = f PROVE FALSE
      OBVIOUS
    <3>1. 1 \in 1..Len(funcs[f].blocks) /\ i.target = funcs[f].blocks[1][1]
      BY <1>6 DEF StartsAt
    <3>2. IsInst(f, i.target)
      BY <1>1, <3>1, BlockInst
    <3> QED
      BY <1>6, <3>2
  <2>3. is_tail_call(i, f, <<g, 1>>)
    BY <1>6, <2>2 DEF is_tail_call, isUnconditionalBranch
  <2>4. Emitted(i, f) = [op |-> "tail", ref |-> <<(<<g, 1>>)[1]>>]
    BY Zenon, <2>1, <2>3 DEF Emitted
  <2>5. Joined(i, f) = << >>
    BY Zenon, <2>1, <2>3 DEF Joined, is_call
  <2> QED
    BY <2>4, <2>5
<1>7. ASSUME i.kind = "call", NEW g, StartsAt(g, 1, i.target)
      PROVE  Emitted(i, f) = [op |-> "call", ref |-> <<g>>] /\ Joined(i, f) = << >>
  <2>1. Found(i) /\ address_to_mbb[i.target] = <<g, 1>>
    BY <1>3, <1>7 DEF Found, HasTarget
  <2>2. ~is_tail_call(i, f, <<g, 1>>) /\ isCall(i)
    BY Zenon, <1>7 DEF is_tail_call, isUnconditionalBranch, isCall
  <2>3. Emitted(i, f) = [op |-> i.kind, ref |-> <<(<<g, 1>>)[1]>>]
    BY <2>1, <2>2 DEF Emitted
  <2>4. Joined(i, f) = << >>
    BY <2>1, <2>2 DEF Joined, is_call
  <2> QED
    BY Zenon, <1>7, <2>3, <2>4
<1>8. CASE i.kind = "cbr"
  <2>1. PICK m : StartsAt(f, m, i.target)
    BY <1>1, <1>8, TargetStarts
  <2> QED
    BY <1>5, <1>8, <2>1 DEF AsItsKind
<1>9. CASE i.kind = "jmp"
  <2>1. \/ \E m : StartsAt(f, m, i.target)
        \/ ~IsInst(f, i.target) /\ \E g : StartsAt(g, 1, i.target)
    BY <1>1, <1>9, TargetStarts
  <2> QED
    BY <1>5, <1>6, <1>9, <2>1 DEF AsItsKind
<1>10. CASE i.kind = "call"
  <2>1. PICK g : StartsAt(g, 1, i.target)
    BY <1>1, <1>10, TargetStarts
  <2> QED
    BY <1>7, <1>10, <2>1 DEF AsItsKind
<1> QED
  BY Zenon, <1>2, <1>4, <1>8, <1>9, <1>10 DEF Kind, AsItsKind

\* Instruction k of block n goes where the one it was made from goes.
SameFlow(f, n, k) ==
    LET a == funcs[f].blocks[n][k]
    IN  /\ MIRFlow(f, n, k) = MachineFlow(image, a)
        /\ Text(a).kind = "call" => EntryOf(mfunc[f][n].instrs[k].ref) = {Text(a).target}

\* The flow of one instruction.
LEMMA FlowOf ==
    ASSUME TypeInv, Exact, TableInv, MIRInv, phase = "done", NEW f \in 1..Len(funcs),
           NEW n \in 1..Len(funcs[f].blocks), NEW k \in 1..Len(funcs[f].blocks[n])
    PROVE  SameFlow(f, n, k)
<1>0. PICK a : a = funcs[f].blocks[n][k]
  OBVIOUS
<1>1. PICK i, e : i = Text(a) /\ e = Emitted(i, f) /\ a = funcs[f].blocks[n][k]
  BY <1>0
<1>2. mfunc[f][n].instrs[k] = e
  BY <1>1, DoneIs
<1>3. \A g, m : EntryOf(<<g>>) = {funcs[g].blocks[1][1]} /\ EntryOf(<<g, m>>) = {funcs[g].blocks[m][1]}
  BY DEF EntryOf
<1>4. MIRFlow(f, n, k) =
        (IF e.op \in {"cbr", "jmp", "tail"} THEN EntryOf(e.ref) ELSE {})
        \cup (IF e.op \in {"cbr", "plain", "call", "jalr"} THEN FallThrough(f, n, k) ELSE {})
  BY <1>2 DEF MIRFlow
<1>5. ASSUME i.kind \in {"plain", "cbr", "call", "jalr"}
      PROVE  FallThrough(f, n, k) = {a + SizeAt(image, a)}
  <2>1. CutUp(f) /\ Text(a).kind \in {"plain", "cbr", "call", "jalr"}
    BY <1>1, <1>5 DEF CutUp, Late
  <2>2. a = funcs[f].blocks[n][k]
    BY <1>0
  <2>3. GoesOn(f, n, k, a)
    BY <2>1, <2>2, FallsThrough
  <2> QED
    BY <2>3 DEF GoesOn
<1>6. /\ i.kind \in {"plain", "call", "jalr"} => MachineFlow(image, a) = {a + SizeAt(image, a)}
      /\ i.kind = "cbr" => MachineFlow(image, a) = {i.target, a + SizeAt(image, a)}
      /\ i.kind = "jmp" => MachineFlow(image, a) = {i.target}
      /\ i.kind \in {"jr", "ret"} => MachineFlow(image, a) = {}
  <2>1. PICK img : img = image /\ i = img.text[a]
    BY <1>1 DEF Text
  <2>2. /\ i.kind \in {"plain", "call", "jalr"} => MachineFlow(img, a) = {a + SizeAt(img, a)}
        /\ i.kind = "cbr" => MachineFlow(img, a) = {i.target, a + SizeAt(img, a)}
        /\ i.kind = "jmp" => MachineFlow(img, a) = {i.target}
        /\ i.kind \in {"jr", "ret"} => MachineFlow(img, a) = {}
    BY <2>1, FlowIs
  <2> QED
    BY <2>1, <2>2
<1>7. \/ i.kind \in {"plain", "jalr", "jr", "ret"} /\ e = [op |-> i.kind, ref |-> << >>]
      \/ /\ i.kind \in {"cbr", "jmp"}
         /\ \E m : StartsAt(f, m, i.target) /\ e = [op |-> i.kind, ref |-> <<f, m>>]
      \/ i.kind = "jmp" /\ \E g : StartsAt(g, 1, i.target) /\ e = [op |-> "tail", ref |-> <<g>>]
      \/ i.kind = "call" /\ \E g : StartsAt(g, 1, i.target) /\ e = [op |-> "call", ref |-> <<g>>]
  <2>1. AsItsKind(i, f)
    <3>1. PICK blocks :
            /\ blocks = funcs[f].blocks /\ n \in 1..Len(blocks) /\ k \in 1..Len(blocks[n])
            /\ a = blocks[n][k]
      BY <1>1
    <3> QED
      BY <1>1, <3>1, EmittedIs
  <2> QED
    BY Zenon, <1>1, <2>1 DEF AsItsKind
<1>8. ASSUME i.kind \in {"plain", "jalr", "jr", "ret"}, e = [op |-> i.kind, ref |-> << >>]
      PROVE  MIRFlow(f, n, k) = MachineFlow(image, a) /\ i.kind # "call"
  <2>1. e.op = i.kind
    BY <1>8
  <2>2. MIRFlow(f, n, k) = IF i.kind \in {"plain", "jalr"} THEN {a + SizeAt(image, a)} ELSE {}
    BY <1>4, <1>5, <1>8, <2>1
  <2> QED
    BY <1>6, <1>8, <2>2
<1>9. ASSUME i.kind \in {"cbr", "jmp"}, NEW m, StartsAt(f, m, i.target),
             e = [op |-> i.kind, ref |-> <<f, m>>]
      PROVE  MIRFlow(f, n, k) = MachineFlow(image, a) /\ i.kind # "call"
  <2>1. e.op = i.kind /\ e.ref = <<f, m>>
    BY <1>9
  <2>2. EntryOf(e.ref) = {i.target}
    BY <1>3, <1>9, <2>1 DEF StartsAt
  <2>3. CASE i.kind = "cbr"
    <3>1. MIRFlow(f, n, k) = {i.target} \cup {a + SizeAt(image, a)}
      BY <1>4, <1>5, <2>1, <2>2, <2>3
    <3> QED
      BY <1>6, <2>3, <3>1
  <2>4. CASE i.kind = "jmp"
    <3>1. MIRFlow(f, n, k) = {i.target} \cup {}
      BY <1>4, <2>1, <2>2, <2>4
    <3> QED
      BY <1>6, <2>4, <3>1
  <2> QED
    BY <1>9, <2>3, <2>4
<1>10. ASSUME i.kind = "jmp", NEW g, StartsAt(g, 1, i.target), e = [op |-> "tail", ref |-> <<g>>]
       PROVE  MIRFlow(f, n, k) = MachineFlow(image, a) /\ i.kind # "call"
  <2>1. e.op = "tail" /\ e.ref = <<g>>
    BY <1>10
  <2>2. EntryOf(e.ref) = {i.target}
    BY <1>3, <1>10, <2>1 DEF StartsAt
  <2>3. MIRFlow(f, n, k) = {i.target} \cup {}
    BY <1>4, <2>1, <2>2
  <2> QED
    BY <1>6, <1>10, <2>3
<1>11. ASSUME i.kind = "call", NEW g, StartsAt(g, 1, i.target), e = [op |-> "call", ref |-> <<g>>]
       PROVE  MIRFlow(f, n, k) = MachineFlow(image, a) /\ EntryOf(e.ref) = {i.target}
  <2>1. e.op = "call" /\ e.ref = <<g>>
    BY <1>11
  <2>2. EntryOf(e.ref) = {i.target}
    BY <1>3, <1>11, <2>1 DEF StartsAt
  <2>3. MIRFlow(f, n, k) = {} \cup {a + SizeAt(image, a)}
    BY <1>4, <1>5, <1>11, <2>1
  <2> QED
    BY <1>6, <1>11, <2>2, <2>3
<1>12. /\ MIRFlow(f, n, k) = MachineFlow(image, a)
       /\ i.kind = "call" => EntryOf(e.ref) = {i.target}
  BY <1>7, <1>8, <1>9, <1>10, <1>11
<1> QED
  BY <1>1, <1>2, <1>12 DEF SameFlow

\* The invariants give the flow of every machine instruction.
LEMMA FlowImplied == Structure /\ Structured(image) => FlowKept
<1> SUFFICES ASSUME TypeInv, SweepInv, TableInv, MIRInv, Structured(image), phase = "done",
                    NEW f \in FunctionIndex, NEW b \in DOMAIN funcs[f].blocks,
                    NEW k \in DOMAIN funcs[f].blocks[b]
             PROVE  SameFlow(f, b, k)
  BY DEF FlowKept, Structure, SameFlow
<1>1. f \in 1..Len(funcs)
  BY LenProperties DEF FunctionIndex, TypeInv, Shapes
<1>2. b \in 1..Len(funcs[f].blocks) /\ k \in 1..Len(funcs[f].blocks[b])
  BY <1>1, DoneIs
<1>3. Exact
  BY ExactHolds
<1> QED
  BY <1>1, <1>2, <1>3, FlowOf

\* In structured object files every machine instruction goes exactly where the instruction
\* it was made from goes, and calls what it calls (mctomir-transform.cpp:300,
\* create_machine_instr).
THEOREM FlowExact ==
    ASSUME \A img \in Images : Structured(img) PROVE Spec => []FlowKept
<1>1. Structure => FlowKept
  BY FlowImplied DEF Structure, TypeInv, Shapes
<1> QED
  BY <1>1, StructureHolds, PTL

\* The blocks the last instruction goes to, once each.
Names(succs, f, M) ==
    /\ {succs[k] : k \in DOMAIN succs} = {<<f, m>> : m \in M}
    /\ \A j, k \in DOMAIN succs : succs[j] = succs[k] => j = k

\* Lists of none, one and two successors.
LEMMA NamesFew ==
    ASSUME NEW f, NEW m, NEW n
    PROVE  /\ Names(<< >>, f, {}) /\ Names(<< <<f, m>> >>, f, {m})
           /\ m # n => Names(Append(<< <<f, m>> >>, <<f, n>>), f, {m, n})
<1>1. Names(<< >>, f, {})
  BY DEF Names
<1>2. Names(<< <<f, m>> >>, f, {m})
  BY DEF Names
<1>3. ASSUME m # n PROVE Names(Append(<< <<f, m>> >>, <<f, n>>), f, {m, n})
  <2>1. PICK x, y : x = <<f, m>> /\ y = <<f, n>>
    OBVIOUS
  <2>2. x # y
    BY <1>3, <2>1
  <2>3. PICK s : s = Append(<<x>>, y)
    OBVIOUS
  <2>4. DOMAIN s = {1, 2} /\ s[1] = x /\ s[2] = y
    <3>1. <<x>> \in Seq({x, y}) /\ Len(<<x>>) = 1 /\ <<x>>[1] = x
      OBVIOUS
    <3>2. s \in Seq({x, y}) /\ Len(s) = 2 /\ s[1] = x /\ s[2] = y
      BY <2>3, <3>1, AppendProperties
    <3>3. DOMAIN s = 1..2
      BY <3>2, LenProperties
    <3> QED
      BY <3>2, <3>3
  <2>5. {s[k] : k \in DOMAIN s} = {x, y}
    BY <2>4
  <2>6. {<<f, z>> : z \in {m, n}} = {x, y}
    BY <2>1
  <2>7. \A j, k \in DOMAIN s : s[j] = s[k] => j = k
    BY <2>2, <2>4
  <2>8. Names(s, f, {m, n})
    BY <2>5, <2>6, <2>7 DEF Names
  <2> QED
    BY <2>1, <2>3, <2>8
<1> QED
  BY <1>1, <1>2, <1>3

\* The successors of one MBB.
LEMMA SuccessorsOf ==
    ASSUME TypeInv, Exact, TableInv, MIRInv, phase = "done", NEW f \in 1..Len(funcs),
           NEW n \in 1..Len(funcs[f].blocks), NEW a,
           a = funcs[f].blocks[n][Len(funcs[f].blocks[n])]
    PROVE  Names(mfunc[f][n].succs, f,
                 {m \in 1..Len(funcs[f].blocks) : funcs[f].blocks[m][1] \in MachineFlow(image, a)})
<1>1. \A g : CutUp(g)
  BY DEF CutUp, Late
<1>2. PICK blocks, size : blocks = funcs[f].blocks /\ size = Len(blocks) /\ size \in Nat /\ n \in 1..size
  BY <1>1, BlockInst
<1>3. PICK k \in 1..Len(blocks[n]) : k = Len(blocks[n]) /\ a = blocks[n][k]
  <2>1. PICK len \in Nat \ {0} : len = Len(blocks[n])
    BY <1>2, DoneIs
  <2>2. len \in 1..len
    BY <2>1
  <2> QED
    BY <1>2, <2>1, <2>2
<1>4. PICK i, join, succs, more :
        /\ i = Text(a) /\ join = Joined(i, f) /\ succs = mfunc[f][n].succs
        /\ more = More(f, n)
  OBVIOUS
<1>5. succs = LinkedTo(i, f, n, more)
  BY <1>2, <1>4, DoneIs
<1>6. more <=> n < size
  BY <1>2, <1>4 DEF More
<1>7. PICK flow : flow = MachineFlow(image, a)
  OBVIOUS
<1> DEFINE To == {m \in 1..size : blocks[m][1] \in flow}
<1>8. ASSUME NEW m, NEW t, StartsAt(f, m, t)
      PROVE  m \in 1..size /\ \A q \in 1..size : blocks[q][1] = t <=> q = m
  <2>1. m \in 1..size /\ blocks[m][1] = t
    BY <1>2, <1>8 DEF StartsAt
  <2>2. ASSUME NEW q \in 1..size, blocks[q][1] = t PROVE q = m
    <3>1. StartsAt(f, q, t)
      BY <1>2, <2>2 DEF StartsAt
    <3> QED
      BY <1>1, <1>8, <3>1, StartsDiffer
  <2> QED
    BY <2>1, <2>2
<1>9. PICK t : t = a + SizeAt(image, a)
  OBVIOUS
<1>10. /\ i.kind \in {"plain", "call", "jalr"} => flow = {t}
       /\ i.kind = "cbr" => flow = {i.target, t}
       /\ i.kind = "jmp" => flow = {i.target}
       /\ i.kind \in {"jr", "ret"} => flow = {}
  <2>1. PICK img : img = image /\ i = img.text[a]
    BY <1>4 DEF Text
  <2>2. /\ i.kind \in {"plain", "call", "jalr"} => MachineFlow(img, a) = {a + SizeAt(img, a)}
        /\ i.kind = "cbr" => MachineFlow(img, a) = {i.target, a + SizeAt(img, a)}
        /\ i.kind = "jmp" => MachineFlow(img, a) = {i.target}
        /\ i.kind \in {"jr", "ret"} => MachineFlow(img, a) = {}
    BY <2>1, FlowIs
  <2> QED
    BY Zenon, <1>7, <1>9, <2>1, <2>2
<1>11. ASSUME i.kind \in {"plain", "call", "jalr", "cbr"}
       PROVE  StartsAt(f, n + 1, t) /\ more
  <2>1. n + 1 \in 1..Len(funcs[f].blocks) /\ StartsAt(f, n + 1, t)
    <3>1. GoesOn(f, n, k, a)
      BY <1>1, <1>2, <1>3, <1>4, <1>11, FallsThrough
    <3> QED
      BY <1>2, <1>3, <1>9, <3>1 DEF GoesOn
  <2> QED
    BY <1>2, <1>6, <2>1
<1>12. \/ i.kind \in {"plain", "jalr", "jr", "ret", "call"} /\ join = << >>
       \/ i.kind \in {"cbr", "jmp"} /\ \E m : StartsAt(f, m, i.target) /\ join = << <<f, m>> >>
       \/ i.kind = "jmp" /\ ~IsInst(f, i.target) /\ join = << >>
  <2>1. AsItsKind(i, f)
    BY <1>2, <1>3, <1>4, EmittedIs
  <2> QED
    BY Zenon, <1>4, <2>1 DEF AsItsKind
<1>13. succs = IF /\ more /\ i.kind \notin {"ret", "jmp", "jr"}
                  /\ i.kind = "cbr" => \A q \in DOMAIN join : join[q] # <<f, n + 1>>
               THEN Append(join, <<f, n + 1>>) ELSE join
  BY Zenon, <1>4, <1>5 DEF LinkedTo, isReturn, isUnconditionalBranch, isBranch
<1> SUFFICES Names(succs, f, To)
  BY <1>2, <1>4, <1>7
<1>14. CASE i.kind \in {"plain", "jalr", "call"} /\ join = << >>
  <2>1. succs = << <<f, n + 1>> >>
    BY <1>11, <1>13, <1>14
  <2>2. To = {n + 1}
    BY <1>8, <1>10, <1>11, <1>14
  <2> QED
    BY <2>1, <2>2, NamesFew
<1>15. CASE i.kind \in {"jr", "ret"} /\ join = << >>
  <2>1. succs = << >> /\ To = {}
    BY <1>10, <1>13, <1>15
  <2> QED
    BY <2>1, NamesFew
<1>16. ASSUME i.kind = "cbr", NEW m, StartsAt(f, m, i.target), join = << <<f, m>> >>
       PROVE  Names(succs, f, To)
  <2>1. To = {m, n + 1}
    <3>1. m \in 1..size /\ \A q \in 1..size : blocks[q][1] = i.target <=> q = m
      BY <1>8, <1>16
    <3>2. n + 1 \in 1..size /\ \A q \in 1..size : blocks[q][1] = t <=> q = n + 1
      BY <1>8, <1>11, <1>16
    <3> QED
      BY <1>10, <1>16, <3>1, <3>2
  <2>2. CASE m = n + 1
    <3>1. join[1] = <<f, n + 1>> /\ 1 \in DOMAIN join
      BY <1>16, <2>2
    <3>2. succs = << <<f, m>> >>
      BY <1>13, <1>16, <3>1
    <3>3. To = {m}
      BY <2>1, <2>2
    <3> QED
      BY <3>2, <3>3, NamesFew
  <2>3. CASE m # n + 1
    <3>1. PICK x, y : x = <<f, m>> /\ y = <<f, n + 1>>
      OBVIOUS
    <3>2. x # y
      BY <2>3, <3>1
    <3>3. join = <<x>>
      BY <1>16, <3>1
    <3>4. \A q \in DOMAIN join : join[q] # y
      BY <3>2, <3>3
    <3>5. succs = Append(join, y)
      BY <1>11, <1>13, <1>16, <3>1, <3>4
    <3>6. PICK z : z = n + 1
      OBVIOUS
    <3>7. Names(Append(<< <<f, m>> >>, <<f, z>>), f, {m, z})
      BY <2>3, <3>6, NamesFew
    <3>8. succs = Append(<< <<f, m>> >>, <<f, z>>) /\ To = {m, z}
      BY <2>1, <3>1, <3>3, <3>5, <3>6
    <3> QED
      BY <3>7, <3>8
  <2> QED
    BY <2>2, <2>3
<1>17. ASSUME i.kind = "jmp", NEW m, StartsAt(f, m, i.target), join = << <<f, m>> >>
       PROVE  Names(succs, f, To)
  <2>1. To = {m}
    BY <1>8, <1>10, <1>17
  <2>2. succs = << <<f, m>> >>
    BY <1>13, <1>17
  <2> QED
    BY <2>1, <2>2, NamesFew
<1>18. CASE i.kind = "jmp" /\ ~IsInst(f, i.target) /\ join = << >>
  <2>1. ASSUME NEW q \in 1..size PROVE blocks[q][1] # i.target
    <3>1. IsInst(f, blocks[q][1])
      BY <1>1, <1>2, BlockInst
    <3> QED
      BY <1>18, <3>1
  <2>2. To = {}
    BY <1>10, <1>18, <2>1
  <2>3. succs = << >>
    BY <1>13, <1>18
  <2> QED
    BY <2>2, <2>3, NamesFew
<1> QED
  BY <1>12, <1>14, <1>15, <1>16, <1>17, <1>18

\* The invariants give the successors of every MBB.
LEMMA SuccessorsImplied == Structure /\ Structured(image) => SuccessorsMatch
<1> SUFFICES ASSUME TypeInv, SweepInv, TableInv, MIRInv, Structured(image), phase = "done",
                    NEW f \in FunctionIndex, NEW b \in BlockIndex(f)
             PROVE  Names(mfunc[f][b].succs, f,
                          {m \in DOMAIN funcs[f].blocks : funcs[f].blocks[m][1] \in
                             MachineFlow(image, funcs[f].blocks[b][Len(funcs[f].blocks[b])])})
  BY DEF SuccessorsMatch, Structure, Names
<1>1. f \in 1..Len(funcs)
  BY LenProperties DEF FunctionIndex, TypeInv, Shapes
<1>2. b \in 1..Len(funcs[f].blocks) /\ DOMAIN funcs[f].blocks = 1..Len(funcs[f].blocks)
  BY <1>1, DoneIs DEF BlockIndex
<1>3. Exact
  BY ExactHolds
<1> QED
  BY <1>1, <1>2, <1>3, SuccessorsOf

\* In structured object files the successors of an MBB are the blocks of its function
\* that its last instruction goes to, each once (mctomir-transform.cpp:377,
\* link_machine_basic_blocks).
THEOREM SuccessorsExact ==
    ASSUME \A img \in Images : Structured(img) PROVE Spec => []SuccessorsMatch
<1>1. Structure => SuccessorsMatch
  BY SuccessorsImplied DEF Structure, TypeInv, Shapes
<1> QED
  BY <1>1, StructureHolds, PTL

=============================================================================
