--------------------------- MODULE RegStatsProofs ---------------------------
(***************************************************************************)
(* Theorems about RegStats, for every configuration, target and program.   *)
(***************************************************************************)
EXTENDS RegStats, FiniteSetTheorems, SequenceTheorems, TLAPS

-----------------------------------------------------------------------------
(* Ranks and what is kept of a sequence.                                   *)

\* A set of numbers with a member has a least one.
LEMMA LeastNumber ==
    ASSUME NEW S \in SUBSET Nat, S # {}
    PROVE  \E t \in S : \A u \in S : t <= u
<1> SUFFICES ASSUME \A t \in S : \E u \in S : u < t PROVE FALSE
  OBVIOUS
<1> DEFINE B == {b \in Nat : \A s \in S : b <= s}
           f == [b \in B |-> b + 1]
<1>1. 0 \in B /\ \A b \in B : b + 1 \in B \ {0}
  <2>1. 0 \in B
    OBVIOUS
  <2>2. ASSUME NEW b \in B PROVE b + 1 \in B \ {0}
    <3>1. b \notin S
      OBVIOUS
    <3>2. \A s \in S : b + 1 <= s
      BY <3>1
    <3> QED
      BY <3>2
  <2> QED
    BY <2>1, <2>2
<1>2. IsFiniteSet(B)
  <2>1. PICK s \in S : TRUE
    OBVIOUS
  <2>2. B \in SUBSET (0..s) /\ 0 \in Int /\ s \in Int
    OBVIOUS
  <2> HIDE DEF B
  <2>3. IsFiniteSet(0..s)
    BY <2>2, FS_Interval
  <2> QED
    BY <2>2, <2>3, FS_Subset
<1>3. f \in [B -> B \ {0}] /\ \A b, c \in B : f[b] = f[c] => b = c
  BY <1>1
<1> HIDE DEF B, f
<1>4. IsFiniteSet(B \ {0}) /\ Cardinality(B \ {0}) = Cardinality(B) - 1
  BY <1>1, <1>2, FS_RemoveElement
<1>5. Cardinality(B) \in Nat
  BY <1>2, FS_CardinalityType
<1>6. Cardinality(B \ {0}) < Cardinality(B)
  BY <1>4, <1>5
<1>7. \E b, c \in B : b # c /\ f[b] = f[c]
  BY <1>2, <1>3, <1>4, <1>6, FS_PigeonHole
<1> QED
  BY <1>3, <1>7

\* A register's rank among finitely many registers is a natural number.
LEMMA RankType ==
    ASSUME NEW S \in SUBSET Nat, IsFiniteSet(S), NEW r \in Nat
    PROVE  /\ Rank(r, S) \in Nat
           /\ IsFiniteSet({q \in S : q < r})
<1>1. {q \in S : q < r} \in SUBSET S
  OBVIOUS
<1>2. IsFiniteSet({q \in S : q < r})
  BY <1>1, FS_Subset
<1> QED
  BY <1>2, FS_CardinalityType DEF Rank

\* Ranks are ordered as the registers are.
LEMMA RankMonotone ==
    ASSUME NEW S \in SUBSET Nat, IsFiniteSet(S),
           NEW q \in S, NEW r \in S, q < r
    PROVE  Rank(q, S) < Rank(r, S)
<1> DEFINE T == {x \in S : x < q}
           U == {x \in S : x < r}
<1>1. T \in SUBSET U
  <2>1. q \in Nat /\ r \in Nat /\ \A x \in S : x \in Nat
    OBVIOUS
  <2>2. \A x \in S : x < q => x < r
    BY <2>1
  <2> QED
    BY <2>2
<1>2. q \in U /\ q \notin T
  BY q \in Nat
<1>3. /\ IsFiniteSet(U)
      /\ Cardinality(T) \in Nat
      /\ Cardinality(U) \in Nat
  BY RankType, q \in Nat, r \in Nat DEF Rank
<1>4. /\ Cardinality(T) <= Cardinality(U)
      /\ Cardinality(U) = Cardinality(T) => U = T
  BY ONLY <1>1, <1>3, FS_Subset
<1>6. T # U
  BY <1>2
<1> HIDE DEF T, U
<1>5. Cardinality(T) < Cardinality(U)
  BY <1>3, <1>4, <1>6
<1> QED
  BY <1>5 DEF Rank, T, U

\* No two registers of a class share an element.
LEMMA RankInjective ==
    ASSUME NEW S \in SUBSET Nat, IsFiniteSet(S),
           NEW q \in S, NEW r \in S, Rank(q, S) = Rank(r, S)
    PROVE  q = r
<1>1. q \in Nat /\ r \in Nat /\ Rank(q, S) \in Nat
  BY RankType
<1>2. ~(q < r) /\ ~(r < q)
  BY <1>1, RankMonotone
<1> QED
  BY <1>1, <1>2

\* Every number below the size of a set is a rank.
LEMMA RankIsNumber ==
    ASSUME NEW S \in SUBSET Nat, IsFiniteSet(S)
    PROVE  /\ Cardinality(S) \in Nat
           /\ \A r \in S : Rank(r, S) \in 0..(Cardinality(S) - 1)
           /\ \A k \in 0..(Cardinality(S) - 1) : \E r \in S : Rank(r, S) = k
<1> DEFINE size == Cardinality(S)
           f == [r \in S |-> Rank(r, S)]
<1>1. size \in Nat
  BY FS_CardinalityType
<1>2. ASSUME NEW r \in S PROVE Rank(r, S) \in 0..(size - 1)
  <2> DEFINE T == {q \in S : q < r}
  <2>1. r \in Nat
    OBVIOUS
  <2>2. Rank(r, S) \in Nat /\ Rank(r, S) = Cardinality(T)
    BY <2>1, RankType DEF Rank
  <2>3. T \in SUBSET S /\ T # S
    BY <2>1
  <2> HIDE DEF T
  <2>4. Cardinality(T) <= size /\ (size = Cardinality(T) => S = T)
    BY <2>3, FS_Subset
  <2> QED
    BY <1>1, <2>2, <2>3, <2>4
<1>3. f \in [S -> 0..(size - 1)]
  BY <1>2
<1>4. \A q, r \in S : f[q] = f[r] => q = r
  BY RankInjective
<1>5. f \in Injection(S, 0..(size - 1))
  BY <1>3, <1>4 DEF Injection, IsInjective
<1>6. IsFiniteSet(0..(size - 1)) /\ Cardinality(0..(size - 1)) = size
  <2>1. 0 \in Int /\ size - 1 \in Int
    BY <1>1
  <2>2. IsFiniteSet(0..(size - 1)) /\ Cardinality(0..(size - 1)) = IF 0 > size - 1 THEN 0 ELSE size - 1 - 0 + 1
    BY <2>1, FS_Interval
  <2> QED
    BY <1>1, <2>2
<1>7. f \in Surjection(S, 0..(size - 1))
  <2> HIDE DEF f, size
  <2>1. Cardinality(S) = Cardinality(0..(size - 1))
    BY <1>6 DEF size
  <2>2. Cardinality(S) = Cardinality(0..(size - 1)) <=> f \in Surjection(S, 0..(size - 1))
    BY <1>5, <1>6, FS_Injection
  <2> QED
    BY <2>1, <2>2
<1>8. \A k \in 0..(size - 1) : \E r \in S : f[r] = k
  <2> HIDE DEF f, size
  <2> QED
    BY <1>7 DEF Surjection
<1> QED
  BY <1>1, <1>2, <1>8

\* The k-th member of a set of positions.
Nth(S, k) == CHOOSE n \in S : Rank(n, S) = k - 1

\* What is kept of a sequence are the elements at the positions, each once.
LEMMA KeptIs ==
    ASSUME NEW T, NEW seq \in Seq(T), NEW S \in SUBSET (DOMAIN seq)
    PROVE  /\ Kept(seq, S) \in Seq(T)
           /\ \A k \in DOMAIN Kept(seq, S) : Nth(S, k) \in S /\ Kept(seq, S)[k] = seq[Nth(S, k)]
           /\ \A j, k \in DOMAIN Kept(seq, S) : j # k => Nth(S, j) # Nth(S, k)
           /\ \A n \in S : \E k \in DOMAIN Kept(seq, S) : Nth(S, k) = n
<1> DEFINE size == Cardinality(S)
<1>1. DOMAIN seq = 1..Len(seq) /\ Len(seq) \in Nat
  OBVIOUS
<1>2. S \in SUBSET Nat
  BY <1>1
<1>3. IsFiniteSet(S)
  <2>1. IsFiniteSet(1..Len(seq))
    BY <1>1, FS_Interval
  <2> QED
    BY <1>1, <2>1, FS_Subset
<1>4. size \in Nat /\ (\A n \in S : Rank(n, S) \in 0..(size - 1))
      /\ \A k \in 0..(size - 1) : \E n \in S : Rank(n, S) = k
  BY <1>2, <1>3, RankIsNumber
<1>5. DOMAIN Kept(seq, S) = 1..size /\ \A k \in 1..size : Kept(seq, S)[k] = seq[Nth(S, k)]
  BY DEF Kept, Nth
<1> HIDE DEF size
<1>6. ASSUME NEW k \in 1..size PROVE Nth(S, k) \in S /\ Rank(Nth(S, k), S) = k - 1
  <2>1. k - 1 \in 0..(size - 1)
    BY <1>4
  <2>2. \E n \in S : Rank(n, S) = k - 1
    BY <1>4, <2>1
  <2> QED
    BY <2>2 DEF Nth
<1>7. Kept(seq, S) \in Seq(T)
  <2>1. \A k \in 1..size : seq[Nth(S, k)] \in T
    BY <1>1, <1>6, ElementOfSeq
  <2>2. Kept(seq, S) \in [1..size -> T]
    BY <1>5, <2>1 DEF Kept, size
  <2> QED
    BY <1>4, <2>2, SeqDef
<1>8. ASSUME NEW n \in S PROVE \E k \in 1..size : Nth(S, k) = n
  <2> DEFINE k == Rank(n, S) + 1
  <2>1. k \in 1..size /\ k - 1 = Rank(n, S)
    BY <1>4
  <2> HIDE DEF k
  <2>2. Nth(S, k) \in S /\ Rank(Nth(S, k), S) = Rank(n, S)
    BY <1>6, <2>1
  <2>3. Nth(S, k) = n
    BY <1>2, <1>3, <2>2, RankInjective
  <2> QED
    BY <2>1, <2>3
<1>9. ASSUME NEW j \in 1..size, NEW k \in 1..size, j # k PROVE Nth(S, j) # Nth(S, k)
  BY <1>4, <1>6, <1>9
<1> QED
  BY <1>5, <1>6, <1>7, <1>8, <1>9

\* The first of some positions.
LEMMA FirstIs ==
    ASSUME NEW S \in SUBSET Nat, S # {}
    PROVE  First(S) \in S /\ \A k \in S : First(S) <= k
<1>1. \E t \in S : \A u \in S : t <= u
  BY LeastNumber
<1> QED
  BY <1>1 DEF First
-----------------------------------------------------------------------------
(* The inductive invariants.  StatsInv holds for any configuration, FitInv *)
(* for one that fits the target.                                           *)

ClassRec == [name : Names, entries : UNION {[A -> SUBSET AllRegs] : A \in SUBSET AllRegs}]

Early == phase \in {"collect", "assign"}
Late == phase \in {"merge", "done"}

StatsInv ==
    /\ used \in Uses /\ operands \subseteq used
    /\ phase \in {"collect", "assign", "merge", "done", "error"}
    /\ idx \in Nat \ {0}
    /\ aliases \subseteq DOMAIN SubOf
    /\ stats \in Seq(ClassRec)
    /\ \A m, n \in DOMAIN stats : m # n => stats[m].name # stats[n].name
    /\ Early => Len(stats) = Len(Classes) /\ \A n \in DOMAIN stats : stats[n].name = Classes[n]
    /\ Late => \A n \in DOMAIN stats : Regs(n) # {}

\* The sub-register s of r belongs to a class that has been merged.
Paired(n, r, s) ==
    \E sub \in DOMAIN SubOf :
        /\ SubOf[sub] = stats[n].name
        /\ sub \in Names /\ s \in FullMatch[sub]
        /\ Rank(s, FullMatch[sub]) = Rank(r, FullMatch[stats[n].name])
        /\ \A m \in DOMAIN stats : stats[m].name # sub

FitInv ==
    /\ phase = "collect" => idx = 1
    /\ Early => /\ \A n \in DOMAIN stats : \A r \in Regs(n) :
                    r \in FullMatch[stats[n].name] /\ stats[n].entries[r] = {}
                /\ \A r \in used \ operands : \E n \in DOMAIN stats : r \in Regs(n)
    /\ phase = "assign" => /\ operands = {}
                           /\ \A n \in DOMAIN stats :
                                n < idx /\ Regs(n) # {} => Regs(n) = FullMatch[stats[n].name]
    /\ Late => /\ \A n \in DOMAIN stats :
                    /\ Regs(n) = FullMatch[stats[n].name]
                    /\ \A r \in Regs(n) : \A s \in stats[n].entries[r] : Paired(n, r, s)
               /\ \A r \in used : \E n \in DOMAIN stats : r \in Regs(n) \cup Subs(n)

\* What the type says of a class.
LEMMA ClassIs ==
    ASSUME stats \in Seq(ClassRec)
    PROVE  /\ Len(stats) \in Nat /\ DOMAIN stats = 1..Len(stats)
           /\ \A n \in DOMAIN stats :
                /\ stats[n] \in ClassRec /\ stats[n].name \in Names
                /\ stats[n] = [name |-> stats[n].name, entries |-> stats[n].entries]
                /\ stats[n].entries \in [Regs(n) -> SUBSET AllRegs]
                /\ Regs(n) \in SUBSET AllRegs
<1>1. Len(stats) \in Nat /\ DOMAIN stats = 1..Len(stats) /\ \A n \in DOMAIN stats : stats[n] \in ClassRec
  BY ElementOfSeq
<1>2. ASSUME NEW n \in DOMAIN stats
      PROVE  /\ stats[n] \in ClassRec /\ stats[n].name \in Names
             /\ stats[n] = [name |-> stats[n].name, entries |-> stats[n].entries]
             /\ stats[n].entries \in [Regs(n) -> SUBSET AllRegs]
             /\ Regs(n) \in SUBSET AllRegs
  <2>1. stats[n] \in ClassRec
    BY <1>1
  <2>2. stats[n].name \in Names /\ stats[n].entries \in UNION {[A -> SUBSET AllRegs] : A \in SUBSET AllRegs}
        /\ stats[n] = [name |-> stats[n].name, entries |-> stats[n].entries]
    BY <2>1 DEF ClassRec
  <2>3. PICK A \in SUBSET AllRegs : stats[n].entries \in [A -> SUBSET AllRegs]
    BY <2>2
  <2>4. Regs(n) = A
    BY <2>3 DEF Regs
  <2> QED
    BY <2>1, <2>2, <2>3, <2>4
<1> QED
  BY <1>1, <1>2

\* Registers added to a class keep their sub-registers, new ones have none.
LEMMA EntriesIs ==
    ASSUME NEW old, NEW S
    PROVE  /\ DOMAIN Entries(old, S) = S \cup DOMAIN old
           /\ \A r \in S \cup DOMAIN old :
                Entries(old, S)[r] = IF r \in DOMAIN old THEN old[r] ELSE {}
BY DEF Entries

\* A class that gets registers.
LEMMA ClassGrows ==
    ASSUME stats \in Seq(ClassRec), NEW n \in DOMAIN stats, NEW S \in SUBSET AllRegs,
           stats' = [stats EXCEPT ![n].entries = Entries(stats[n].entries, S)]
    PROVE  /\ stats' \in Seq(ClassRec) /\ Len(stats') = Len(stats) /\ DOMAIN stats' = DOMAIN stats
           /\ \A m \in DOMAIN stats : m # n => stats'[m] = stats[m] /\ Regs(m)' = Regs(m)
           /\ stats'[n].name = stats[n].name /\ Regs(n)' = S \cup Regs(n)
           /\ \A r \in Regs(n)' :
                stats'[n].entries[r] = IF r \in Regs(n) THEN stats[n].entries[r] ELSE {}
<1> DEFINE e == Entries(stats[n].entries, S)
           c == [name |-> stats[n].name, entries |-> e]
<1>1. /\ DOMAIN e = S \cup Regs(n)
      /\ \A r \in S \cup Regs(n) : e[r] = IF r \in Regs(n) THEN stats[n].entries[r] ELSE {}
  BY EntriesIs DEF Regs
<1>2. e \in [S \cup Regs(n) -> SUBSET AllRegs] /\ S \cup Regs(n) \in SUBSET AllRegs
  <2>1. stats[n].entries \in [Regs(n) -> SUBSET AllRegs] /\ Regs(n) \in SUBSET AllRegs
    BY ClassIs
  <2>2. \A r \in S \cup Regs(n) : e[r] \in SUBSET AllRegs
    BY <1>1, <2>1
  <2>3. e = [r \in S \cup Regs(n) |-> e[r]]
    BY <1>1 DEF Entries, Regs
  <2> HIDE DEF e
  <2> QED
    BY <2>1, <2>2, <2>3
<1> HIDE DEF e
<1>3. c \in ClassRec
  <2>1. stats[n].name \in Names
    BY ClassIs
  <2> QED
    BY <1>2, <2>1 DEF ClassRec
<1>4. stats' = [stats EXCEPT ![n] = c]
  <2>1. stats[n] = [name |-> stats[n].name, entries |-> stats[n].entries]
    BY ClassIs
  <2>2. [stats[n] EXCEPT !.entries = e] = c
    BY <2>1
  <2>3. stats' = [stats EXCEPT ![n] = [stats[n] EXCEPT !.entries = e]]
    BY DEF e
  <2> QED
    BY <2>2, <2>3
<1>5. stats' \in Seq(ClassRec) /\ Len(stats') = Len(stats)
      /\ \A m \in 1..Len(stats) : stats'[m] = IF m = n THEN c ELSE stats[m]
  <2>1. n \in 1..Len(stats)
    BY ClassIs
  <2> HIDE DEF c
  <2> QED
    BY <1>3, <1>4, <2>1, ExceptSeq
<1>6. DOMAIN stats = 1..Len(stats) /\ DOMAIN stats' = 1..Len(stats')
  BY <1>5, ClassIs, LenProperties
<1> QED
  BY <1>1, <1>5, <1>6 DEF Regs

\* The classes with a name that is looked for.
LEMMA NamedIs ==
    ASSUME stats \in Seq(ClassRec), NEW S \in SUBSET (DOMAIN stats), S # {}
    PROVE  First(S) \in S /\ First(S) \in DOMAIN stats /\ \A k \in S : First(S) <= k
<1>1. S \in SUBSET Nat
  BY ClassIs
<1> QED
  BY <1>1, FirstIs

-----------------------------------------------------------------------------
(* Types, for any configuration.                                           *)

\* Nothing is collected at first.
LEMMA StatsInit == Init => StatsInv
<1> SUFFICES ASSUME Init PROVE StatsInv
  OBVIOUS
<1> DEFINE c(n) == [name |-> Classes[n], entries |-> [r \in {} |-> r]]
<1>1. Len(Classes) \in Nat /\ DOMAIN Classes = 1..Len(Classes) /\ \A n \in DOMAIN Classes : Classes[n] \in Names
  BY StatsAssumption DEF Names
<1>2. \A n \in DOMAIN Classes : c(n) \in ClassRec
  <2>1. [r \in {} |-> r] \in [{} -> SUBSET AllRegs] /\ {} \in SUBSET AllRegs
    OBVIOUS
  <2> QED
    BY <1>1, <2>1 DEF ClassRec
<1>3. stats = [n \in 1..Len(Classes) |-> c(n)]
  BY <1>1 DEF Init
<1>4. stats \in Seq(ClassRec) /\ DOMAIN stats = 1..Len(Classes) /\ Len(stats) = Len(Classes)
  <2>1. stats \in [1..Len(Classes) -> ClassRec]
    BY <1>1, <1>2, <1>3
  <2>2. stats \in Seq(ClassRec)
    BY <1>1, <2>1, SeqDef
  <2> HIDE DEF c
  <2> QED
    BY <1>1, <2>1, <2>2, LenProperties
<1>5. \A n \in DOMAIN stats : stats[n].name = Classes[n]
  BY <1>3, <1>4
<1>6. \A m, n \in DOMAIN stats : m # n => stats[m].name # stats[n].name
  BY <1>1, <1>4, <1>5, StatsAssumption
<1> QED
  BY <1>4, <1>5, <1>6 DEF Init, StatsInv, Early, Late

\* What is left of the classes when only some stay.
LEMMA ClassesKept ==
    ASSUME StatsInv, NEW old \in Seq(ClassRec), Len(old) = Len(stats),
           \A n \in DOMAIN stats : old[n].name = stats[n].name,
           NEW S \in SUBSET (DOMAIN stats), stats' = Kept(old, S)
    PROVE  /\ stats' \in Seq(ClassRec)
           /\ \A k \in DOMAIN stats' : Nth(S, k) \in S /\ stats'[k] = old[Nth(S, k)]
           /\ \A n \in S : \E k \in DOMAIN stats' : Nth(S, k) = n
           /\ \A j, k \in DOMAIN stats' : j # k => stats'[j].name # stats'[k].name
<1>1. DOMAIN stats = 1..Len(stats) /\ DOMAIN old = 1..Len(old)
  BY ClassIs DEF StatsInv
<1>2. S \in SUBSET (DOMAIN old)
  BY <1>1
<1>3. /\ stats' \in Seq(ClassRec)
      /\ \A k \in DOMAIN stats' : Nth(S, k) \in S /\ stats'[k] = old[Nth(S, k)]
      /\ \A j, k \in DOMAIN stats' : j # k => Nth(S, j) # Nth(S, k)
      /\ \A n \in S : \E k \in DOMAIN stats' : Nth(S, k) = n
  BY <1>2, KeptIs
<1>4. ASSUME NEW j \in DOMAIN stats', NEW k \in DOMAIN stats', j # k
      PROVE  stats'[j].name # stats'[k].name
  <2>1. Nth(S, j) \in DOMAIN stats /\ Nth(S, k) \in DOMAIN stats /\ Nth(S, j) # Nth(S, k)
    BY <1>3, <1>4
  <2>2. stats[Nth(S, j)].name # stats[Nth(S, k)].name
    BY <2>1 DEF StatsInv
  <2> QED
    BY <1>3, <2>1, <2>2
<1> QED
  BY <1>3, <1>4

\* The classes with their sub-registers, before the class of those is erased.
Merged(sub) ==
    [m \in DOMAIN stats |->
        IF stats[m].name = SubOf[sub]
        THEN [stats[m] EXCEPT !.entries = Zip(@, Regs(First(Named(sub))))]
        ELSE stats[m]]

\* What zip puts into the classes before the class of the sub-registers is erased.
LEMMA MergedIs ==
    ASSUME StatsInv, NEW sub \in DOMAIN SubOf, CanMerge(sub)
    PROVE  /\ First(Named(sub)) \in DOMAIN stats /\ stats[First(Named(sub))].name = sub
           /\ Merged(sub) \in Seq(ClassRec) /\ Len(Merged(sub)) = Len(stats)
           /\ \A m \in DOMAIN stats :
                /\ Merged(sub)[m].name = stats[m].name
                /\ DOMAIN Merged(sub)[m].entries = Regs(m)
                /\ stats[m].name # SubOf[sub] => Merged(sub)[m] = stats[m]
                /\ stats[m].name = SubOf[sub] =>
                    \A r \in Regs(m) : \A s : s \in Merged(sub)[m].entries[r] <=>
                        \/ s \in stats[m].entries[r]
                        \/ /\ s \in Regs(First(Named(sub)))
                           /\ Rank(s, Regs(First(Named(sub)))) = Rank(r, Regs(m))
<1> DEFINE n == First(Named(sub))
<1>1. stats \in Seq(ClassRec)
  BY DEF StatsInv
<1>2. n \in DOMAIN stats /\ stats[n].name = sub
  <2>1. Named(sub) \in SUBSET (DOMAIN stats) /\ Named(sub) # {}
    BY DEF Named, CanMerge
  <2>2. n \in Named(sub)
    BY <1>1, <2>1, NamedIs
  <2> QED
    BY <2>2 DEF Named
<1> HIDE DEF n
<1>3. Regs(n) \in SUBSET AllRegs
  BY <1>1, <1>2, ClassIs
<1>4. ASSUME NEW m \in DOMAIN stats, stats[m].name = SubOf[sub]
      PROVE  /\ Merged(sub)[m] = [name |-> stats[m].name, entries |-> Zip(stats[m].entries, Regs(n))]
             /\ Merged(sub)[m] \in ClassRec /\ DOMAIN Merged(sub)[m].entries = Regs(m)
             /\ \A r \in Regs(m) : Merged(sub)[m].entries[r] =
                    stats[m].entries[r] \cup {s \in Regs(n) : Rank(s, Regs(n)) = Rank(r, Regs(m))}
  <2> DEFINE e == Zip(stats[m].entries, Regs(n))
  <2>1. /\ stats[m].name \in Names
        /\ stats[m] = [name |-> stats[m].name, entries |-> stats[m].entries]
        /\ stats[m].entries \in [Regs(m) -> SUBSET AllRegs] /\ Regs(m) \in SUBSET AllRegs
    BY <1>1, ClassIs
  <2>2. e = [r \in Regs(m) |->
                stats[m].entries[r] \cup {s \in Regs(n) : Rank(s, Regs(n)) = Rank(r, Regs(m))}]
    BY DEF Zip, Regs
  <2>3. e \in [Regs(m) -> SUBSET AllRegs]
    BY <1>3, <2>1, <2>2
  <2>4. Merged(sub)[m] = [stats[m] EXCEPT !.entries = e]
    BY <1>4 DEF Merged, n
  <2> HIDE DEF e
  <2>5. Merged(sub)[m] = [name |-> stats[m].name, entries |-> e]
    BY <2>1, <2>4
  <2>6. Merged(sub)[m] \in ClassRec
    BY <2>1, <2>3, <2>5 DEF ClassRec
  <2> QED
    BY <2>2, <2>5, <2>6 DEF e
<1>5. ASSUME NEW m \in DOMAIN stats, stats[m].name # SubOf[sub]
      PROVE  Merged(sub)[m] = stats[m] /\ stats[m] \in ClassRec
  BY <1>1, <1>5, ClassIs DEF Merged
<1>6. Len(stats) \in Nat /\ DOMAIN stats = 1..Len(stats)
  BY <1>1, ClassIs
<1>7. Merged(sub) \in [1..Len(stats) -> ClassRec]
  <2>1. \A m \in DOMAIN stats : Merged(sub)[m] \in ClassRec
    BY <1>4, <1>5
  <2>2. Merged(sub) = [m \in 1..Len(stats) |-> Merged(sub)[m]]
    BY <1>6 DEF Merged
  <2> QED
    BY <1>6, <2>1, <2>2
<1>8. Merged(sub) \in Seq(ClassRec) /\ Len(Merged(sub)) = Len(stats)
  <2>1. Merged(sub) \in Seq(ClassRec)
    BY <1>6, <1>7, SeqDef
  <2> QED
    BY <1>6, <1>7, <2>1, LenProperties
<1>9. \A m \in DOMAIN stats : Merged(sub)[m].name = stats[m].name /\ DOMAIN Merged(sub)[m].entries = Regs(m)
  <2> SUFFICES ASSUME NEW m \in DOMAIN stats
               PROVE  Merged(sub)[m].name = stats[m].name /\ DOMAIN Merged(sub)[m].entries = Regs(m)
    OBVIOUS
  <2>1. CASE stats[m].name = SubOf[sub]
    <3>1. Merged(sub)[m] = [name |-> stats[m].name, entries |-> Zip(stats[m].entries, Regs(n))]
      BY <1>4, <2>1
    <3>2. DOMAIN Merged(sub)[m].entries = Regs(m)
      BY <1>4, <2>1
    <3>3. Merged(sub)[m].name = stats[m].name
      BY <3>1
    <3> QED
      BY <3>2, <3>3
  <2>2. CASE stats[m].name # SubOf[sub]
    BY <1>5, <2>2 DEF Regs
  <2> QED
    BY <2>1, <2>2
<1>10. ASSUME NEW m \in DOMAIN stats, stats[m].name = SubOf[sub], NEW r \in Regs(m), NEW s
       PROVE  s \in Merged(sub)[m].entries[r] <=>
                s \in stats[m].entries[r] \/ (s \in Regs(n) /\ Rank(s, Regs(n)) = Rank(r, Regs(m)))
  <2>1. Merged(sub)[m].entries[r] =
            stats[m].entries[r] \cup {q \in Regs(n) : Rank(q, Regs(n)) = Rank(r, Regs(m))}
    BY <1>4, <1>10
  <2> QED
    BY <2>1
<1> QED
  BY <1>2, <1>5, <1>8, <1>9, <1>10 DEF n

\* The action, with what the lemmas say of it.
LEMMA MergeIs ==
    ASSUME NEW sub \in DOMAIN SubOf, MergeSubregisters(sub)
    PROVE  /\ phase = "merge" /\ sub \in aliases /\ aliases' = aliases \ {sub}
           /\ UNCHANGED <<used, operands, idx, phase>>
           /\ IF CanMerge(sub) THEN stats' = Kept(Merged(sub), DOMAIN stats \ {First(Named(sub))})
                               ELSE stats' = stats
BY DEF MergeSubregisters, Merged

\* A register goes to one class, which keeps its name.
LEMMA StatsCollect ==
    ASSUME StatsInv, NEW r \in AllRegs, CollectRegister(r) PROVE StatsInv'
<1>1. CASE Fail
  BY <1>1 DEF Fail, StatsInv, Early, Late
<1>2. CASE ~Fail
  <2> DEFINE matching == {m \in DOMAIN stats : r \in Match[stats[m].name]}
             n == First(matching)
  <2>1. /\ matching # {} /\ phase = "collect"
        /\ stats' = [stats EXCEPT ![n].entries = Entries(@, {r})]
        /\ operands' = operands \ {r} /\ UNCHANGED <<used, idx, aliases, phase>>
    BY <1>2 DEF CollectRegister
  <2>2. stats \in Seq(ClassRec) /\ matching \in SUBSET (DOMAIN stats)
    BY DEF StatsInv
  <2>3. n \in DOMAIN stats
    BY <2>1, <2>2, NamedIs
  <2> HIDE DEF n, matching
  <2>4. stats' = [stats EXCEPT ![n].entries = Entries(stats[n].entries, {r})] /\ {r} \in SUBSET AllRegs
    BY <2>1
  <2>5. /\ stats' \in Seq(ClassRec) /\ Len(stats') = Len(stats) /\ DOMAIN stats' = DOMAIN stats
        /\ \A m \in DOMAIN stats : m # n => stats'[m] = stats[m] /\ Regs(m)' = Regs(m)
        /\ stats'[n].name = stats[n].name
    BY <2>2, <2>3, <2>4, ClassGrows
  <2>6. \A m \in DOMAIN stats : stats'[m].name = stats[m].name
    BY <2>5
  <2> QED
    BY <2>1, <2>5, <2>6 DEF StatsInv, Early, Late
<1> QED
  BY <1>1, <1>2

\* A class is filled with registers of the target.
LEMMA StatsAssign ==
    ASSUME StatsInv, AssignClass PROVE StatsInv'
<1>1. CASE Fail
  BY <1>1 DEF Fail, StatsInv, Early, Late
<1>2. CASE ~Fail
  <2> DEFINE found == {t \in DOMAIN TargetClasses : Regs(idx) \subseteq TargetClasses[t]}
             S == Completion(stats[idx].name, TargetClasses[First(found)])
  <2>1. /\ found # {} /\ phase = "assign" /\ idx <= Len(stats)
        /\ stats' = [stats EXCEPT ![idx].entries = Entries(@, S)]
        /\ idx' = idx + 1 /\ UNCHANGED <<used, operands, aliases, phase>>
    BY <1>2 DEF AssignClass
  <2>2. stats \in Seq(ClassRec) /\ idx \in DOMAIN stats
    BY <2>1, ClassIs DEF StatsInv
  <2>3. S \in SUBSET AllRegs
    <3>1. DOMAIN TargetClasses = 1..Len(TargetClasses)
          /\ \A t \in DOMAIN TargetClasses : TargetClasses[t] \in SUBSET AllRegs
      BY StatsAssumption, ElementOfSeq, LenProperties
    <3>2. found \in SUBSET Nat
      BY <3>1
    <3>3. First(found) \in found
      BY <2>1, <3>2, FirstIs
    <3> QED
      BY <3>1, <3>3 DEF Completion
  <2> HIDE DEF found, S
  <2>4. stats' = [stats EXCEPT ![idx].entries = Entries(stats[idx].entries, S)]
    BY <2>1
  <2>5. /\ stats' \in Seq(ClassRec) /\ Len(stats') = Len(stats) /\ DOMAIN stats' = DOMAIN stats
        /\ \A m \in DOMAIN stats : m # idx => stats'[m] = stats[m] /\ Regs(m)' = Regs(m)
        /\ stats'[idx].name = stats[idx].name
    BY <2>2, <2>3, <2>4, ClassGrows
  <2>6. \A m \in DOMAIN stats : stats'[m].name = stats[m].name
    BY <2>5
  <2> QED
    BY <2>1, <2>5, <2>6 DEF StatsInv, Early, Late
<1> QED
  BY <1>1, <1>2

\* Classes without registers go, the others stay as they are.
LEMMA StatsErase ==
    ASSUME StatsInv, EraseEmptyClasses PROVE StatsInv'
<1> DEFINE S == {n \in DOMAIN stats : HasRegisters(stats[n])}
<1>1. /\ stats' = Kept(stats, S) /\ phase' = "merge"
      /\ UNCHANGED <<used, operands, idx, aliases>> /\ S \in SUBSET (DOMAIN stats)
      /\ stats \in Seq(ClassRec)
  BY DEF EraseEmptyClasses, StatsInv
<1>2. \A n \in S : DOMAIN stats[n].entries # {}
  BY DEF HasRegisters
<1> HIDE DEF S
<1>3. /\ stats' \in Seq(ClassRec)
      /\ \A k \in DOMAIN stats' : Nth(S, k) \in S /\ stats'[k] = stats[Nth(S, k)]
      /\ \A j, k \in DOMAIN stats' : j # k => stats'[j].name # stats'[k].name
  BY <1>1, ClassesKept
<1>4. \A k \in DOMAIN stats' : Regs(k)' # {}
  BY <1>2, <1>3 DEF Regs
<1> QED
  BY <1>1, <1>3, <1>4 DEF StatsInv, Early, Late

\* A class goes and another one gets its registers as sub-registers.
LEMMA StatsMerge ==
    ASSUME StatsInv, NEW sub \in DOMAIN SubOf, MergeSubregisters(sub) PROVE StatsInv'
<1>1. CASE CanMerge(sub)
  <2> DEFINE S == DOMAIN stats \ {First(Named(sub))}
  <2>1. stats' = Kept(Merged(sub), S) /\ S \in SUBSET (DOMAIN stats) /\ phase = "merge" /\ phase' = "merge"
        /\ UNCHANGED <<used, operands, idx>> /\ aliases' \subseteq aliases
    BY <1>1, MergeIs
  <2>2. /\ Merged(sub) \in Seq(ClassRec) /\ Len(Merged(sub)) = Len(stats)
        /\ \A m \in DOMAIN stats : Merged(sub)[m].name = stats[m].name
                                   /\ DOMAIN Merged(sub)[m].entries = Regs(m)
    BY <1>1, MergedIs
  <2> HIDE DEF S
  <2>3. /\ stats' \in Seq(ClassRec)
        /\ \A k \in DOMAIN stats' : Nth(S, k) \in S /\ stats'[k] = Merged(sub)[Nth(S, k)]
        /\ \A j, k \in DOMAIN stats' : j # k => stats'[j].name # stats'[k].name
    BY <2>1, <2>2, ClassesKept
  <2>4. \A k \in DOMAIN stats' : Regs(k)' # {}
    <3> SUFFICES ASSUME NEW k \in DOMAIN stats' PROVE Regs(k)' # {}
      OBVIOUS
    <3>1. Nth(S, k) \in DOMAIN stats /\ stats'[k] = Merged(sub)[Nth(S, k)]
      BY <2>1, <2>3
    <3>2. Regs(k)' = Regs(Nth(S, k))
      BY <2>2, <3>1 DEF Regs
    <3> QED
      BY <2>1, <3>1, <3>2 DEF StatsInv, Late
  <2> QED
    BY <2>1, <2>3, <2>4 DEF StatsInv, Early, Late
<1>2. CASE ~CanMerge(sub)
  <2>1. stats' = stats /\ phase' = phase /\ aliases' \subseteq aliases /\ UNCHANGED <<used, operands, idx>>
    BY <1>2, MergeIs
  <2> QED
    BY <2>1 DEF StatsInv, Early, Late, Regs
<1> QED
  BY <1>1, <1>2

\* Every step keeps the types.
LEMMA StatsNext == StatsInv /\ [Next]_vars => StatsInv'
<1> SUFFICES ASSUME StatsInv, [Next]_vars PROVE StatsInv'
  OBVIOUS
<1>1. CASE \E r \in AllRegs : CollectRegister(r)
  BY <1>1, StatsCollect
<1>2. CASE FinishCollecting
  BY <1>2 DEF FinishCollecting, StatsInv, Early, Late
<1>3. CASE AssignClass
  BY <1>3, StatsAssign
<1>4. CASE EraseEmptyClasses
  BY <1>4, StatsErase
<1>5. CASE \E sub \in DOMAIN SubOf : MergeSubregisters(sub)
  BY <1>5, StatsMerge
<1>6. CASE FinishMerging
  BY <1>6 DEF FinishMerging, StatsInv, Early, Late, Regs
<1>7. CASE UNCHANGED vars
  BY <1>7 DEF vars, StatsInv, Early, Late, Regs
<1> QED
  BY <1>1, <1>2, <1>3, <1>4, <1>5, <1>6, <1>7 DEF Next

\* The classes hold registers of the target whatever the configuration says, and the
\* header has no array of length zero (lifter.cpp:526-610).
THEOREM StatsTypeOK == Spec => []TypeOK
<1>1. StatsInv => TypeOK
  <2> SUFFICES ASSUME StatsInv PROVE TypeOK
    OBVIOUS
  <2>1. \A n \in DOMAIN stats : /\ stats[n].name \in Names /\ Regs(n) \subseteq AllRegs
                                /\ \A r \in Regs(n) : stats[n].entries[r] \subseteq AllRegs
    BY ClassIs DEF StatsInv
  <2> QED
    BY <2>1 DEF StatsInv, TypeOK, Late
<1> QED
  BY <1>1, StatsInit, StatsNext, PTL DEF Spec

-----------------------------------------------------------------------------
(* Configurations that fit the target.                                     *)

\* The registers of a class are finitely many numbers.
LEMMA NameIs ==
    ASSUME NEW c \in Names
    PROVE  /\ c \in {Classes[n] : n \in DOMAIN Classes}
           /\ IsFiniteSet(FullMatch[c]) /\ FullMatch[c] \in SUBSET Nat /\ FullMatch[c] \subseteq AllRegs
BY StatsAssumption DEF Names

\* Classes of different names have no register in common.
LEMMA Apart ==
    ASSUME Fits, NEW c \in Names, NEW d \in Names, c # d
    PROVE  FullMatch[c] \cap FullMatch[d] = {}
<1>1. PICK m, n \in DOMAIN Classes : c = Classes[m] /\ d = Classes[n]
  BY DEF Names
<1>2. m # n
  BY <1>1
<1> QED
  BY <1>1, <1>2 DEF Fits

\* Nothing is collected at first, and no class is complete.
LEMMA FitInit == Init => FitInv
BY DEF Init, FitInv, Early, Late, Regs

\* The first class that matches a register is one it belongs to.
LEMMA FitCollect ==
    ASSUME Fits, StatsInv, FitInv, NEW r \in AllRegs, CollectRegister(r) PROVE FitInv'
<1>1. CASE Fail
  BY <1>1 DEF Fail, FitInv, Early, Late
<1>2. CASE ~Fail
  <2> DEFINE matching == {m \in DOMAIN stats : r \in Match[stats[m].name]}
  <2> PICK n : n = First(matching)
    OBVIOUS
  <2>1. /\ matching # {} /\ phase = "collect"
        /\ stats' = [stats EXCEPT ![n].entries = Entries(@, {r})]
        /\ operands' = operands \ {r} /\ UNCHANGED <<used, idx, aliases, phase>>
    BY <1>2 DEF CollectRegister
  <2>2. stats \in Seq(ClassRec) /\ matching \in SUBSET (DOMAIN stats)
        /\ Len(stats) = Len(Classes) /\ \A m \in DOMAIN stats : stats[m].name = Classes[m]
    BY <2>1 DEF StatsInv, Early
  <2>3. n \in DOMAIN stats /\ n \in matching /\ \A k \in matching : n <= k
    BY <2>1, <2>2, NamedIs
  <2>4. r \in FullMatch[stats[n].name]
    <3>1. DOMAIN stats = 1..Len(stats) /\ Len(stats) \in Nat /\ DOMAIN Classes = 1..Len(Classes)
      BY <2>2, ClassIs, StatsAssumption, LenProperties
    <3>2. \A k \in 1..(n - 1) : r \notin Match[Classes[k]]
      <4> SUFFICES ASSUME NEW k \in 1..(n - 1), r \in Match[Classes[k]] PROVE FALSE
        OBVIOUS
      <4>1. k \in DOMAIN stats /\ k < n /\ k \in Nat /\ n \in Nat
        BY <2>3, <3>1
      <4>2. k \in matching
        BY <2>2, <4>1
      <4> HIDE DEF matching
      <4> QED
        BY <2>3, <4>1, <4>2
    <3>3. n \in DOMAIN Classes /\ r \in Match[Classes[n]] \cap AllRegs
      BY <2>2, <2>3, <3>1
    <3> HIDE DEF matching
    <3>4. r \in FullMatch[Classes[n]]
      BY <3>2, <3>3 DEF Fits
    <3> QED
      BY <2>2, <2>3, <3>4
  <2> HIDE DEF matching
  <2>5. stats' = [stats EXCEPT ![n].entries = Entries(stats[n].entries, {r})] /\ {r} \in SUBSET AllRegs
    BY <2>1
  <2>6. /\ DOMAIN stats' = DOMAIN stats
        /\ \A m \in DOMAIN stats : m # n => stats'[m] = stats[m] /\ Regs(m)' = Regs(m)
        /\ stats'[n].name = stats[n].name /\ Regs(n)' = {r} \cup Regs(n)
        /\ \A q \in Regs(n)' :
             stats'[n].entries[q] = IF q \in Regs(n) THEN stats[n].entries[q] ELSE {}
    BY <2>2, <2>3, <2>5, ClassGrows
  <2>7. ASSUME NEW m \in DOMAIN stats, NEW q \in Regs(m)'
        PROVE  q \in FullMatch[stats'[m].name] /\ stats'[m].entries[q] = {}
    <3>1. \A p \in Regs(m) : p \in FullMatch[stats[m].name] /\ stats[m].entries[p] = {}
      BY <2>1 DEF FitInv, Early
    <3>2. CASE m = n
      <4>1. q \in Regs(n)' /\ (q = r \/ q \in Regs(n))
        BY <2>6, <2>7, <3>2
      <4>2. q \in FullMatch[stats[n].name]
        BY <2>4, <3>1, <3>2, <4>1
      <4>3. stats'[n].entries[q] = {}
        BY <2>6, <3>1, <3>2, <4>1
      <4> QED
        BY <2>6, <3>2, <4>2, <4>3
    <3>3. CASE m # n
      <4>1. stats'[m] = stats[m] /\ q \in Regs(m)
        BY <2>6, <2>7, <3>3
      <4> QED
        BY <3>1, <4>1
    <3> QED
      BY <3>2, <3>3
  <2>8. ASSUME NEW q \in used \ operands' PROVE \E m \in DOMAIN stats : q \in Regs(m)'
    <3>1. CASE q = r
      BY <2>3, <2>6, <3>1
    <3>2. CASE q # r
      <4>1. q \in used \ operands
        BY <2>1, <3>2
      <4>2. PICK m \in DOMAIN stats : q \in Regs(m)
        BY <2>1, <4>1 DEF FitInv, Early
      <4> QED
        BY <2>6, <4>2
    <3> QED
      BY <3>1, <3>2
  <2> QED
    BY <2>1, <2>6, <2>7, <2>8 DEF FitInv, Early, Late
<1> QED
  BY <1>1, <1>2

\* A class that is used is completed to all the registers that belong to it.
LEMMA FitAssign ==
    ASSUME Fits, StatsInv, FitInv, AssignClass PROVE FitInv'
<1>1. CASE Fail
  BY <1>1 DEF Fail, FitInv, Early, Late
<1>2. CASE ~Fail
  <2> PICK i : i = idx
    OBVIOUS
  <2> PICK c : c = stats[i].name
    OBVIOUS
  <2> DEFINE found == {t \in DOMAIN TargetClasses : Regs(i) \subseteq TargetClasses[t]}
  <2> PICK t : t = First(found)
    OBVIOUS
  <2> PICK S : S = Completion(c, TargetClasses[t])
    OBVIOUS
  <2>1. /\ found # {} /\ phase = "assign" /\ i = idx /\ i <= Len(stats)
        /\ stats' = [stats EXCEPT ![i].entries = Entries(@, S)]
        /\ idx' = i + 1 /\ UNCHANGED <<used, operands, aliases, phase>>
    BY <1>2 DEF AssignClass
  <2>2. /\ stats \in Seq(ClassRec) /\ i \in DOMAIN stats /\ i \in Nat
        /\ DOMAIN stats = 1..Len(stats)
        /\ c \in Names
    BY <2>1, ClassIs DEF StatsInv
  <2>3. /\ found \in SUBSET Nat /\ t \in found /\ (\A k \in found : t <= k)
        /\ TargetClasses[t] \in SUBSET AllRegs /\ t \in DOMAIN TargetClasses
        /\ DOMAIN TargetClasses = 1..Len(TargetClasses) /\ Len(TargetClasses) \in Nat
    <3>1. DOMAIN TargetClasses = 1..Len(TargetClasses) /\ Len(TargetClasses) \in Nat
          /\ \A k \in DOMAIN TargetClasses : TargetClasses[k] \in SUBSET AllRegs
      BY StatsAssumption, ElementOfSeq, LenProperties
    <3>2. found \in SUBSET Nat
      BY <3>1
    <3>3. First(found) \in found /\ \A k \in found : First(found) <= k
      BY <2>1, <3>2, FirstIs
    <3> QED
      BY <3>1, <3>2, <3>3
  <2>4. S \in SUBSET AllRegs /\ S \subseteq FullMatch[c] /\ S = TargetClasses[t] \cap FullMatch[c]
    BY <2>3 DEF Completion
  <2>5. Regs(i) \subseteq FullMatch[c]
    BY <2>1, <2>2 DEF FitInv, Early
  <2>6. S \cup Regs(i) # {} => S \cup Regs(i) = FullMatch[c]
    <3> SUFFICES ASSUME S \cup Regs(i) # {} PROVE FullMatch[c] \subseteq S
      BY <2>4, <2>5
    <3>1. Regs(i) \subseteq TargetClasses[t]
      BY <2>3
    <3>2. TargetClasses[t] \cap FullMatch[c] # {}
      BY <2>4, <2>5, <3>1
    <3>3. PICK k \in 1..t : FullMatch[c] \subseteq TargetClasses[k]
      <4> QED
        BY <2>2, <2>3, <3>2 DEF Fits
    <3>4. k \in DOMAIN TargetClasses /\ k <= t /\ k \in Nat /\ t \in Nat
      BY <2>3, <3>3
    <3>5. k \in found
      BY <2>5, <3>3, <3>4
    <3> HIDE DEF found
    <3>6. k = t
      BY <2>3, <3>4, <3>5
    <3> QED
      BY <2>4, <3>3, <3>6
  <2> HIDE DEF found
  <2>7. stats' = [stats EXCEPT ![i].entries = Entries(stats[i].entries, S)]
    BY <2>1
  <2>8. /\ DOMAIN stats' = DOMAIN stats
        /\ \A m \in DOMAIN stats : m # i => stats'[m] = stats[m] /\ Regs(m)' = Regs(m)
        /\ stats'[i].name = c
        /\ \A q \in Regs(i)' :
             stats'[i].entries[q] = IF q \in Regs(i) THEN stats[i].entries[q] ELSE {}
    <3>1. /\ DOMAIN stats' = DOMAIN stats
          /\ \A m \in DOMAIN stats : m # i => stats'[m] = stats[m] /\ Regs(m)' = Regs(m)
          /\ stats'[i].name = stats[i].name
      BY <2>2, <2>4, <2>7, ClassGrows
    <3>2. \A q \in Regs(i)' :
             stats'[i].entries[q] = IF q \in Regs(i) THEN stats[i].entries[q] ELSE {}
      BY <2>2, <2>4, <2>7, ClassGrows
    <3> QED
      BY <3>1, <3>2
  <2>9. \A m \in DOMAIN stats : m = i => Regs(m)' = S \cup Regs(m)
    BY <2>2, <2>4, <2>7, ClassGrows
  <2>10. ASSUME NEW m \in DOMAIN stats, NEW q \in Regs(m)'
         PROVE  q \in FullMatch[stats'[m].name] /\ stats'[m].entries[q] = {}
    <3>1. CASE m = i
      <4>1. q \in FullMatch[c] /\ q \in Regs(i)'
        BY <2>4, <2>5, <2>9, <2>10, <3>1
      <4>2. q \in Regs(i) => stats[i].entries[q] = {}
        BY <2>1, <2>2 DEF FitInv, Early
      <4> QED
        BY <2>8, <3>1, <4>1, <4>2
    <3>2. CASE m # i
      BY <2>1, <2>8, <2>10, <3>2 DEF FitInv, Early
    <3> QED
      BY <3>1, <3>2
  <2>11. ASSUME NEW q \in used PROVE \E m \in DOMAIN stats : q \in Regs(m)'
    <3>1. PICK m \in DOMAIN stats : q \in Regs(m)
      BY <2>1 DEF FitInv, Early
    <3> QED
      BY <2>8, <2>9, <3>1
  <2>12. ASSUME NEW m \in DOMAIN stats, m < i + 1, Regs(m)' # {}
         PROVE  Regs(m)' = FullMatch[stats'[m].name]
    <3>1. CASE m = i
      BY <2>6, <2>8, <2>9, <2>12, <3>1
    <3>2. CASE m # i
      <4>1. m < i
        BY <2>2, <2>12, <3>2
      <4> QED
        BY <2>1, <2>8, <2>12, <3>2, <4>1 DEF FitInv
    <3> QED
      BY <3>1, <3>2
  <2> QED
    BY <2>1, <2>8, <2>10, <2>11, <2>12 DEF FitInv, Early, Late
<1> QED
  BY <1>1, <1>2

\* The classes that stay are complete.
LEMMA FitErase ==
    ASSUME StatsInv, FitInv, EraseEmptyClasses PROVE FitInv'
<1> PICK S : S = {n \in DOMAIN stats : HasRegisters(stats[n])}
  OBVIOUS
<1>1. /\ stats' = Kept(stats, S) /\ phase = "assign" /\ phase' = "merge" /\ idx > Len(stats)
      /\ used' = used /\ S \in SUBSET (DOMAIN stats) /\ stats \in Seq(ClassRec)
  BY DEF EraseEmptyClasses, StatsInv
<1>2. /\ \A k \in DOMAIN stats' : Nth(S, k) \in S /\ stats'[k] = stats[Nth(S, k)]
      /\ \A n \in S : \E k \in DOMAIN stats' : Nth(S, k) = n
  BY <1>1, ClassesKept
<1>3. ASSUME NEW n \in S
      PROVE  Regs(n) = FullMatch[stats[n].name] /\ \A r \in Regs(n) : stats[n].entries[r] = {}
  <2>1. n \in DOMAIN stats /\ Regs(n) # {}
    BY DEF HasRegisters, Regs
  <2>2. n < idx
    BY <1>1, <2>1, ClassIs DEF StatsInv
  <2> QED
    BY <1>1, <2>1, <2>2 DEF FitInv, Early
<1>4. ASSUME NEW k \in DOMAIN stats'
      PROVE  Regs(k)' = FullMatch[stats'[k].name] /\ \A r \in Regs(k)' : stats'[k].entries[r] = {}
  BY <1>2, <1>3, <1>4 DEF Regs
<1>5. ASSUME NEW r \in used PROVE \E k \in DOMAIN stats' : r \in Regs(k)'
  <2>1. PICK n \in DOMAIN stats : r \in Regs(n)
    BY <1>1 DEF FitInv, Early
  <2>2. n \in S
    BY <2>1 DEF HasRegisters, Regs
  <2>3. PICK k \in DOMAIN stats' : Nth(S, k) = n
    BY <1>2, <2>2
  <2>4. Regs(k)' = Regs(n)
    BY <1>2, <2>3 DEF Regs
  <2> QED
    BY <2>1, <2>4
<1>6. \A k \in DOMAIN stats' : \A r \in Regs(k)' : \A s \in stats'[k].entries[r] : Paired(k, r, s)'
  BY <1>4
<1> QED
  BY <1>1, <1>4, <1>5, <1>6 DEF FitInv, Early, Late

\* Every register of a merged class finds one to go with.
LEMMA FitMerge ==
    ASSUME Fits, StatsInv, FitInv, NEW sub \in DOMAIN SubOf, MergeSubregisters(sub) PROVE FitInv'
<1>1. CASE CanMerge(sub)
  <2>n. PICK n : n = First(Named(sub))
    OBVIOUS
  <2>S. PICK S : S = DOMAIN stats \ {n}
    OBVIOUS
  <2>old. PICK old : old = Merged(sub)
    OBVIOUS
  <2>1. stats' = Kept(old, S) /\ S \in SUBSET (DOMAIN stats) /\ phase = "merge" /\ phase' = "merge"
        /\ used' = used
    BY <1>1, <2>n, <2>S, <2>old, MergeIs
  <2>2. stats \in Seq(ClassRec) /\ Late
    BY <2>1 DEF StatsInv, Late
  <2>3. /\ n \in DOMAIN stats /\ stats[n].name = sub
        /\ old \in Seq(ClassRec) /\ Len(old) = Len(stats)
        /\ \A m \in DOMAIN stats :
            /\ old[m].name = stats[m].name
            /\ DOMAIN old[m].entries = Regs(m)
            /\ stats[m].name # SubOf[sub] => old[m] = stats[m]
            /\ stats[m].name = SubOf[sub] =>
                \A r \in Regs(m) : \A s : s \in old[m].entries[r] <=>
                    \/ s \in stats[m].entries[r]
                    \/ s \in Regs(n) /\ Rank(s, Regs(n)) = Rank(r, Regs(m))
    BY <1>1, <2>n, <2>old, MergedIs
  <2>4. /\ \A k \in DOMAIN stats' : Nth(S, k) \in S /\ stats'[k] = old[Nth(S, k)]
        /\ \A m \in S : \E k \in DOMAIN stats' : Nth(S, k) = m
    <3>1. old \in Seq(ClassRec) /\ Len(old) = Len(stats)
          /\ \A m \in DOMAIN stats : old[m].name = stats[m].name
      BY <2>3
    <3> QED
      BY <2>1, <3>1, ClassesKept
  <2>5. \A m \in S : m \in DOMAIN stats /\ m # n /\ stats[m].name # sub
    BY <2>3, <2>S DEF StatsInv
  <2>6. ASSUME NEW k \in DOMAIN stats'
        PROVE  /\ Nth(S, k) \in S /\ stats'[k].name = stats[Nth(S, k)].name
               /\ Regs(k)' = Regs(Nth(S, k))
    BY <2>3, <2>4, <2>5 DEF Regs
  <2>7. \A m \in DOMAIN stats : Regs(m) = FullMatch[stats[m].name] /\ stats[m].name \in Names
    BY <2>2, ClassIs DEF FitInv
  <2>8. ASSUME NEW k \in DOMAIN stats', NEW r \in Regs(k)', NEW s \in stats'[k].entries[r]
        PROVE  Paired(k, r, s)'
    <3> PICK m : m = Nth(S, k)
      OBVIOUS
    <3>1. m \in DOMAIN stats /\ r \in Regs(m) /\ s \in old[m].entries[r] /\ stats'[k].name = stats[m].name
      BY <2>4, <2>5, <2>6, <2>8
    <3>2. CASE s \in stats[m].entries[r]
      <4>1. Paired(m, r, s)
        BY <2>2, <3>1, <3>2 DEF FitInv
      <4>2. PICK a \in DOMAIN SubOf :
                /\ SubOf[a] = stats[m].name
                /\ a \in Names /\ s \in FullMatch[a]
                /\ Rank(s, FullMatch[a]) = Rank(r, FullMatch[stats[m].name])
                /\ \A j \in DOMAIN stats : stats[j].name # a
        BY <4>1 DEF Paired
      <4>3. \A j \in DOMAIN stats' : stats'[j].name # a
        BY <2>5, <2>6, <4>2
      <4> QED
        BY <3>1, <4>2, <4>3 DEF Paired
    <3>3. CASE s \notin stats[m].entries[r]
      <4>1. stats[m].name = SubOf[sub]
        BY <2>3, <3>1, <3>3
      <4>2. s \in Regs(n) /\ Rank(s, Regs(n)) = Rank(r, Regs(m))
        BY <2>3, <3>1, <3>3, <4>1
      <4>3. Regs(n) = FullMatch[sub] /\ sub \in Names /\ Regs(m) = FullMatch[stats[m].name]
        BY <2>3, <2>7, <3>1
      <4>4. \A j \in DOMAIN stats' : stats'[j].name # sub
        BY <2>5, <2>6
      <4> QED
        BY <3>1, <4>1, <4>2, <4>3, <4>4 DEF Paired
    <3> QED
      BY <3>2, <3>3
  <2>9. ASSUME NEW m \in S, NEW r \in Regs(m), NEW s \in old[m].entries[r]
        PROVE  \E k \in DOMAIN stats' : s \in Subs(k)'
    <3>1. PICK k \in DOMAIN stats' : Nth(S, k) = m
      BY <2>4
    <3>2. r \in Regs(k)' /\ s \in stats'[k].entries[r]
      BY <2>4, <2>6, <3>1
    <3> QED
      BY <3>2 DEF Subs
  <2>10. ASSUME NEW r \in used PROVE \E k \in DOMAIN stats' : r \in (Regs(k) \cup Subs(k))'
    <3>1. PICK m \in DOMAIN stats : r \in Regs(m) \cup Subs(m)
      BY <2>2 DEF FitInv
    <3>2. CASE m # n /\ r \in Regs(m)
      <4>1. PICK k \in DOMAIN stats' : Nth(S, k) = m
        BY <2>4, <2>S, <3>2
      <4>2. r \in Regs(k)'
        BY <2>6, <3>2, <4>1
      <4> QED
        BY <4>2
    <3>3. CASE m # n /\ r \in Subs(m)
      <4>1. PICK q \in Regs(m) : r \in stats[m].entries[q]
        BY <3>3 DEF Subs
      <4>2. r \in old[m].entries[q]
        BY <2>3, <4>1
      <4>3. \E k \in DOMAIN stats' : r \in Subs(k)'
        BY <2>9, <2>S, <3>3, <4>1, <4>2
      <4> QED
        BY <4>3
    <3>4. CASE m = n /\ r \in Subs(m)
      <4>1. PICK q \in Regs(n) : r \in stats[n].entries[q]
        BY <3>4 DEF Subs
      <4>2. Paired(n, q, r)
        BY <2>2, <2>3, <4>1 DEF FitInv
      <4>3. \E a \in DOMAIN SubOf : SubOf[a] = sub
        BY <2>3, <4>2 DEF Paired
      <4> QED
        BY <4>3 DEF Fits
    <3>5. CASE m = n /\ r \in Regs(m)
      <4> PICK d : d = SubOf[sub]
        OBVIOUS
      <4>1. PICK t \in DOMAIN stats : stats[t].name = d
        BY <1>1 DEF CanMerge, Named
      <4>2. d \in Names /\ sub \in Names /\ d # sub
        BY <2>3, <2>7, <4>1 DEF Fits
      <4>3. t \in S
        BY <2>3, <2>S, <4>1, <4>2
      <4>4. Cardinality(FullMatch[sub]) <= Cardinality(FullMatch[d])
        BY <4>2 DEF Fits
      <4>5. /\ Cardinality(FullMatch[sub]) \in Nat
            /\ \A q \in FullMatch[sub] : Rank(q, FullMatch[sub]) \in 0..(Cardinality(FullMatch[sub]) - 1)
        BY <4>2, NameIs, RankIsNumber
      <4>6. /\ Cardinality(FullMatch[d]) \in Nat
            /\ \A k \in 0..(Cardinality(FullMatch[d]) - 1) : \E q \in FullMatch[d] : Rank(q, FullMatch[d]) = k
        BY <4>2, NameIs, RankIsNumber
      <4>7. Regs(n) = FullMatch[sub] /\ Regs(t) = FullMatch[d]
        BY <2>3, <2>7, <4>1
      <4>8. Rank(r, FullMatch[sub]) \in 0..(Cardinality(FullMatch[d]) - 1)
        BY <3>5, <4>4, <4>5, <4>6, <4>7
      <4>9. PICK q \in FullMatch[d] : Rank(q, FullMatch[d]) = Rank(r, FullMatch[sub])
        BY <4>6, <4>8
      <4>10. q \in Regs(t) /\ r \in Regs(n) /\ Rank(r, Regs(n)) = Rank(q, Regs(t))
        BY <3>5, <4>7, <4>9
      <4>11. r \in old[t].entries[q]
        BY <2>3, <4>1, <4>10
      <4>12. \E k \in DOMAIN stats' : r \in Subs(k)'
        BY <2>9, <4>3, <4>10, <4>11
      <4> QED
        BY <4>12
    <3> QED
      BY <3>1, <3>2, <3>3, <3>4, <3>5
  <2>11. \A k \in DOMAIN stats' : Regs(k)' = FullMatch[stats'[k].name]
    BY <2>5, <2>6, <2>7
  <2> QED
    BY <2>1, <2>8, <2>10, <2>11 DEF FitInv, Early, Late
<1>2. CASE ~CanMerge(sub)
  <2>1. stats' = stats /\ phase' = phase /\ used' = used /\ phase = "merge"
    BY <1>2, MergeIs
  <2> QED
    BY <2>1 DEF FitInv, Early, Late, Regs, Subs, Paired
<1> QED
  BY <1>1, <1>2

\* Every step keeps what a fitting configuration gives.
LEMMA FitNext == Fits /\ StatsInv /\ FitInv /\ [Next]_vars => FitInv'
<1> SUFFICES ASSUME Fits, StatsInv, FitInv, [Next]_vars PROVE FitInv'
  OBVIOUS
<1>1. CASE \E r \in AllRegs : CollectRegister(r)
  BY <1>1, FitCollect
<1>2. CASE FinishCollecting
  <2>1. phase = "collect" /\ operands = {} /\ phase' = "assign"
        /\ UNCHANGED <<used, operands, stats, idx, aliases>>
    BY <1>2 DEF FinishCollecting
  <2>2. idx = 1 /\ \A n \in DOMAIN stats : ~(n < idx)
    BY <2>1, ClassIs DEF FitInv, StatsInv
  <2> QED
    BY <2>1, <2>2 DEF FitInv, Early, Late, Regs
<1>3. CASE AssignClass
  BY <1>3, FitAssign
<1>4. CASE EraseEmptyClasses
  BY <1>4, FitErase
<1>5. CASE \E sub \in DOMAIN SubOf : MergeSubregisters(sub)
  BY <1>5, FitMerge
<1>6. CASE FinishMerging
  BY <1>6 DEF FinishMerging, FitInv, Early, Late, Regs, Subs, Paired
<1>7. CASE UNCHANGED vars
  BY <1>7 DEF vars, FitInv, Early, Late, Regs, Subs, Paired
<1> QED
  BY <1>1, <1>2, <1>3, <1>4, <1>5, <1>6, <1>7 DEF Next

\* Both invariants hold throughout.
LEMMA FitHolds == ASSUME Fits PROVE Spec => [](StatsInv /\ FitInv)
<1>1. Init => StatsInv /\ FitInv
  BY StatsInit, FitInit
<1>2. StatsInv /\ FitInv /\ [Next]_vars => (StatsInv /\ FitInv)'
  BY StatsNext, FitNext
<1> QED
  BY <1>1, <1>2, PTL DEF Spec

\* When a configuration fits the target, every register a program uses ends up in the
\* struct, as a register or under the one it is part of: a merge drops none
\* (lifter.cpp:592-608), and get_register_class_for finds it.
THEOREM UsedRegistersKnown == ASSUME Fits PROVE Spec => []RegistersKnown
<1>1. Spec => [](StatsInv /\ FitInv)
  BY FitHolds
<1>2. StatsInv /\ FitInv => RegistersKnown
  BY DEF FitInv, RegistersKnown, Late
<1> QED
  BY <1>1, <1>2, PTL

\* The index of a register is the same whatever registers a program uses: a class that
\* is there has all the registers that belong to it (lifter.cpp:551-572).
THEOREM StableLayout == ASSUME Fits PROVE Spec => []LayoutStable
<1>1. Spec => [](StatsInv /\ FitInv)
  BY FitHolds
<1>2. StatsInv /\ FitInv => LayoutStable
  BY DEF FitInv, LayoutStable, Late
<1> QED
  BY <1>1, <1>2, PTL

\* Sub-registers share the alloca of the register with their number, in whatever order
\* the pairs of classes come (lifter.cpp:601-604).
THEOREM SubregistersPaired == ASSUME Fits PROVE Spec => []SubregsPaired
<1>1. Spec => [](StatsInv /\ FitInv)
  BY FitHolds
<1>2. StatsInv /\ FitInv => SubregsPaired
  BY DEF FitInv, SubregsPaired, Late, Paired
<1> QED
  BY <1>1, <1>2, PTL

\* The layout is what the lifted program relies on (StateStruct): classes share no
\* register or sub-register, a sub-register is no register, and it belongs to one
\* register only, also after several classes were merged into one.
THEOREM LayoutIsFit == ASSUME Fits PROVE Spec => []LayoutFits
<1>1. Spec => [](StatsInv /\ FitInv)
  BY FitHolds
<1>2. ASSUME StatsInv, FitInv PROVE LayoutFits
  <2> SUFFICES ASSUME phase = "done", NEW m \in DOMAIN stats, NEW n \in DOMAIN stats
               PROVE  /\ m # n => (Regs(m) \cup Subs(m)) \cap (Regs(n) \cup Subs(n)) = {}
                      /\ Subs(m) \cap Regs(n) = {}
                      /\ \A q, r \in Regs(m) :
                            stats[m].entries[q] \cap stats[m].entries[r] # {} => q = r
    BY DEF LayoutFits
  <2>1. \A k \in DOMAIN stats : Regs(k) = FullMatch[stats[k].name] /\ stats[k].name \in Names
    BY <1>2, ClassIs DEF FitInv, StatsInv, Late
  <2>2. ASSUME NEW k \in DOMAIN stats, NEW s \in Subs(k)
        PROVE  \E sub \in Names : /\ SubOf[sub] = stats[k].name /\ s \in FullMatch[sub]
                                  /\ \A j \in DOMAIN stats : stats[j].name # sub
    <3>1. PICK r \in Regs(k) : s \in stats[k].entries[r]
      BY <2>2 DEF Subs
    <3>2. Paired(k, r, s)
      BY <1>2, <3>1 DEF FitInv, Late
    <3> QED
      BY <3>2 DEF Paired
  <2>3. ASSUME NEW j \in DOMAIN stats, NEW k \in DOMAIN stats, NEW s \in Subs(j)
        PROVE  s \notin Regs(k)
    <3>1. PICK sub \in Names : s \in FullMatch[sub] /\ stats[k].name # sub
      BY <2>2, <2>3
    <3> QED
      BY <1>2, <2>1, <3>1, Apart
  <2>4. ASSUME m # n, NEW s \in Subs(m) PROVE s \notin Subs(n)
    <3> SUFFICES ASSUME s \in Subs(n) PROVE FALSE
      OBVIOUS
    <3>1. PICK a \in Names : SubOf[a] = stats[m].name /\ s \in FullMatch[a]
      BY <2>2, <2>4
    <3>2. PICK b \in Names : SubOf[b] = stats[n].name /\ s \in FullMatch[b]
      BY <2>2
    <3>3. stats[m].name # stats[n].name
      BY <1>2, <2>4 DEF StatsInv
    <3>4. a # b
      BY <3>1, <3>2, <3>3
    <3> QED
      BY <1>2, <3>1, <3>2, <3>4, Apart
  <2>5. m # n => Regs(m) \cap Regs(n) = {}
    <3> SUFFICES ASSUME m # n PROVE Regs(m) \cap Regs(n) = {}
      OBVIOUS
    <3>1. stats[m].name # stats[n].name
      BY <1>2 DEF StatsInv
    <3> QED
      BY <2>1, <3>1, Apart
  <2>6. ASSUME NEW q \in Regs(m), NEW r \in Regs(m), stats[m].entries[q] \cap stats[m].entries[r] # {}
        PROVE  q = r
    <3>1. PICK s : s \in stats[m].entries[q] /\ s \in stats[m].entries[r]
      BY <2>6
    <3>2. Paired(m, q, s) /\ Paired(m, r, s)
      BY <1>2, <3>1 DEF FitInv, Late
    <3>3. PICK a \in Names : s \in FullMatch[a] /\ Rank(s, FullMatch[a]) = Rank(q, FullMatch[stats[m].name])
      BY <3>2 DEF Paired
    <3>4. PICK b \in Names : s \in FullMatch[b] /\ Rank(s, FullMatch[b]) = Rank(r, FullMatch[stats[m].name])
      BY <3>2 DEF Paired
    <3>5. a = b
      BY <3>3, <3>4, Apart
    <3>6. Rank(q, Regs(m)) = Rank(r, Regs(m))
      BY <2>1, <3>3, <3>4, <3>5
    <3>7. Regs(m) \in SUBSET Nat /\ IsFiniteSet(Regs(m))
      BY <2>1, NameIs
    <3> QED
      BY <3>6, <3>7, RankInjective
  <2>7. Subs(m) \cap Regs(n) = {} /\ Subs(n) \cap Regs(m) = {}
    BY <2>3
  <2> QED
    BY <2>4, <2>5, <2>6, <2>7
<1>3. StatsInv /\ FitInv => LayoutFits
  BY <1>2
<1> QED
  BY <1>1, <1>3, PTL

=============================================================================
