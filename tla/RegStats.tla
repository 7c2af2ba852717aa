------------------------------ MODULE RegStats ------------------------------
(***************************************************************************)
(* register_stats: which registers the state struct has, and where.        *)
(*                                                                         *)
(* The YAML names register classes and gives each a regular expression.    *)
(* Every register operand of the module goes to the first class that       *)
(* matches it; a class is then filled up with the matching registers of    *)
(* an LLVM register class that holds all of its registers, so that the     *)
(* struct does not depend on which of them the program uses; at last the   *)
(* classes of sub-registers are folded into those of their registers, by   *)
(* position.  The result is what StateStruct takes as Class, RegsOf and    *)
(* RootOf.                                                                 *)
(***************************************************************************)
EXTENDS Integers, Sequences, FiniteSets

CONSTANTS
    Uses,           \* sets of registers a module may use, by register number
    Classes,        \* register-classes of the YAML, in order
    Match,          \* class |-> registers with a name the expression matches
    FullMatch,      \* class |-> registers it matches as a whole
    SubOf,          \* subregisters of the YAML: class |-> class
    TargetClasses   \* LLVM's register classes, in order

AllRegs == UNION Uses \cup UNION {TargetClasses[n] : n \in DOMAIN TargetClasses}

Names == {Classes[n] : n \in DOMAIN Classes}

ASSUME StatsAssumption ==
    /\ AllRegs \subseteq Nat
    /\ Classes \in Seq(Names) /\ TargetClasses \in Seq(SUBSET AllRegs)
    /\ \A m, n \in DOMAIN Classes : m # n => Classes[m] # Classes[n]
    /\ \A c \in Names :
        FullMatch[c] \subseteq Match[c] /\ FullMatch[c] \subseteq AllRegs /\ IsFiniteSet(FullMatch[c])

VARIABLES
    used,       \* the registers of the module
    operands,   \* those not collected yet
    stats,      \* register_stats: classes [name, entries], an entry being a
                \* register with its sub-registers
    idx,        \* the class to assign next
    aliases,    \* the sub-register classes not merged yet
    phase       \* "collect", "assign", "merge", "done" or "error"

vars == <<used, operands, stats, idx, aliases, phase>>

Regs(n) == DOMAIN stats[n].entries
First(S) == CHOOSE m \in S : \A k \in S : m <= k

\* What is left of a sequence when only some positions stay, in their order.
Rank(r, S) == Cardinality({q \in S : q < r})
Kept(seq, S) ==
    [k \in 1..Cardinality(S) |-> seq[CHOOSE n \in S : Rank(n, S) = k - 1]]

Entries(old, S) ==
    [r \in S \cup DOMAIN old |-> IF r \in DOMAIN old THEN old[r] ELSE {}]
Fail == phase' = "error" /\ UNCHANGED <<used, operands, stats, idx, aliases>>

Init ==
    /\ used \in Uses
    /\ operands = used
    /\ stats = [n \in DOMAIN Classes |->
                    [name |-> Classes[n], entries |-> [r \in {} |-> r]]]
    /\ idx = 1
    /\ aliases = DOMAIN SubOf
    /\ phase = "collect"

\* One register operand; "No register class found to match".
CollectRegister(r) ==
    /\ phase = "collect" /\ r \in operands
    /\ LET matching == {n \in DOMAIN stats : r \in Match[stats[n].name]}
       IN  IF matching = {} THEN Fail
           ELSE LET n == First(matching)
                IN  /\ stats' = [stats EXCEPT ![n].entries = Entries(@, {r})]
                    /\ operands' = operands \ {r}
                    /\ UNCHANGED <<used, idx, aliases, phase>>

FinishCollecting ==
    /\ phase = "collect" /\ operands = {}
    /\ phase' = "assign"
    /\ UNCHANGED <<used, operands, stats, idx, aliases>>

\* Mutant: the class keeps the registers the program uses.
UsedOnly(name, target) == {}

\* Mutant: all registers of the LLVM class.
CompletionAll(name, target) == target

\* The registers of the LLVM class that belong to the class as well.
Completion(name, target) == target \cap FullMatch[name]

\* The first LLVM class with all registers of the class; any, if it has none.
AssignClass ==
    /\ phase = "assign" /\ idx <= Len(stats)
    /\ LET found == {t \in DOMAIN TargetClasses : Regs(idx) \subseteq TargetClasses[t]}
       IN  IF found = {} THEN Fail
           ELSE LET t == First(found)
                IN  /\ stats' = [stats EXCEPT ![idx].entries =
                            Entries(@, Completion(stats[idx].name, TargetClasses[t]))]
                    /\ idx' = idx + 1
                    /\ UNCHANGED <<used, operands, aliases, phase>>

\* Mutant: classes without registers stay.
KeepClass(class) == TRUE

\* remove_if
HasRegisters(class) == DOMAIN class.entries # {}

EraseEmptyClasses ==
    /\ phase = "assign" /\ idx > Len(stats)
    /\ stats' = Kept(stats, {n \in DOMAIN stats : HasRegisters(stats[n])})
    /\ phase' = "merge"
    /\ UNCHANGED <<used, operands, idx, aliases>>

\* Mutant: the registers and their sub-registers are counted from both ends.
ZipBackwards(entries, subs) ==
    [r \in DOMAIN entries |->
        entries[r] \cup {s \in subs : Rank(s, subs) =
                            Cardinality(DOMAIN entries) - 1 - Rank(r, DOMAIN entries)}]

\* views::zip: the n-th register of one class takes the n-th of the other.
Zip(entries, subs) ==
    [r \in DOMAIN entries |->
        entries[r] \cup {s \in subs : Rank(s, subs) = Rank(r, DOMAIN entries)}]

Named(name) == {n \in DOMAIN stats : stats[n].name = name}

\* Mutant: the class of the sub-registers goes, also when there is none to take them.
CanErase(sub) == Named(sub) # {}

\* Both classes must be there.
CanMerge(sub) == Named(sub) # {} /\ Named(SubOf[sub]) # {}

\* The pairs come in the order of an unordered_map.
MergeSubregisters(sub) ==
    /\ phase = "merge" /\ sub \in aliases
    /\ stats' = IF ~CanMerge(sub) THEN stats
                ELSE LET n == First(Named(sub))
                     IN  Kept([m \in DOMAIN stats |->
                                IF stats[m].name = SubOf[sub]
                                THEN [stats[m] EXCEPT !.entries = Zip(@, Regs(n))]
                                ELSE stats[m]],
                              DOMAIN stats \ {n})
    /\ aliases' = aliases \ {sub}
    /\ UNCHANGED <<used, operands, idx, phase>>

FinishMerging ==
    /\ phase = "merge" /\ aliases = {}
    /\ phase' = "done"
    /\ UNCHANGED <<used, operands, stats, idx, aliases>>

Next ==
    \/ \E r \in AllRegs : CollectRegister(r)
    \/ FinishCollecting \/ AssignClass \/ EraseEmptyClasses
    \/ \E sub \in DOMAIN SubOf : MergeSubregisters(sub)
    \/ FinishMerging

Spec == Init /\ [][Next]_vars

-----------------------------------------------------------------------------

\* Type invariant; the header has no array of length zero.
TypeOK ==
    /\ used \in Uses /\ operands \subseteq used
    /\ phase \in {"collect", "assign", "merge", "done", "error"}
    /\ idx \in Nat \ {0}
    /\ aliases \subseteq DOMAIN SubOf
    /\ \A n \in DOMAIN stats :
        /\ stats[n].name \in Names
        /\ Regs(n) \subseteq AllRegs
        /\ phase \in {"merge", "done"} => Regs(n) # {}
        /\ \A r \in Regs(n) : stats[n].entries[r] \subseteq AllRegs

Subs(n) == UNION {stats[n].entries[r] : r \in Regs(n)}

\* A configuration that fits the target: no register belongs to two classes, one that
\* is used in a class belongs to it, and the first of LLVM's classes with any
\* of them has them all.  Sub-registers have no sub-registers, and each has a register.
Fits ==
    /\ \A m, n \in DOMAIN Classes :
        m # n => FullMatch[Classes[m]] \cap FullMatch[Classes[n]] = {}
    /\ \A n \in DOMAIN Classes : \A r \in Match[Classes[n]] \cap AllRegs :
        (\A k \in 1..(n - 1) : r \notin Match[Classes[k]]) => r \in FullMatch[Classes[n]]
    /\ \A c \in Names : \A t \in DOMAIN TargetClasses :
        TargetClasses[t] \cap FullMatch[c] # {} =>
            \E k \in 1..t : FullMatch[c] \subseteq TargetClasses[k]
    /\ \A sub \in DOMAIN SubOf :
        /\ SubOf[sub] \notin DOMAIN SubOf
        /\ {sub, SubOf[sub]} \subseteq Names =>
            Cardinality(FullMatch[sub]) <= Cardinality(FullMatch[SubOf[sub]])

\* get_register_class_for finds every register the program uses ("Unknown
\* register encountered" otherwise).
RegistersKnown ==
    phase = "done" => \A r \in used : \E n \in DOMAIN stats : r \in Regs(n) \cup Subs(n)

\* What StateStruct assumes: no register is in two classes, and a sub-register
\* is none of them and shares the alloca of one register only.
LayoutFits ==
    phase = "done" => \A m, n \in DOMAIN stats :
        /\ m # n => (Regs(m) \cup Subs(m)) \cap (Regs(n) \cup Subs(n)) = {}
        /\ Subs(m) \cap Regs(n) = {}
        /\ \A q, r \in Regs(m) : stats[m].entries[q] \cap stats[m].entries[r] # {} => q = r

\* The host finds a register at the same index whatever registers the program
\* uses: the array of a class has all registers the class stands for.
LayoutStable ==
    phase = "done" => \A n \in DOMAIN stats : Regs(n) = FullMatch[stats[n].name]

\* For a target that numbers registers and sub-registers alike: a sub-register
\* shares the alloca of the register with its number.
SubregsPaired ==
    phase = "done" => \A n \in DOMAIN stats : \A r \in Regs(n) :
        \A s \in stats[n].entries[r] :
            \E sub \in DOMAIN SubOf :
                /\ SubOf[sub] = stats[n].name
                /\ s \in FullMatch[sub]
                /\ Rank(s, FullMatch[sub]) = Rank(r, FullMatch[stats[n].name])

=============================================================================
