---------------------------- MODULE StateStruct ----------------------------
(***************************************************************************)
(* The register_state struct that lifted functions share, and the code     *)
(* that copies it to and from the stack slots (allocas) of one activation. *)
(*                                                                         *)
(* The struct has one array per register class.  Nothing in the generated  *)
(* IR says which element of an array is which register: the prologue       *)
(* (materialize_registers) and the copies around calls and returns         *)
(* (save_registers, load_registers) each compute the index, over different *)
(* collections.  The prologue numbers the sorted registers of the class;   *)
(* the copies number the keys of the register map, which also holds the    *)
(* sub-registers, after a filter.                                          *)
(***************************************************************************)
EXTENDS SourceProgram

CONSTANTS
    Class,      \* register classes left after sub-registers were merged
    RegsOf,     \* class |-> its registers
    RootOf      \* sub-register |-> the register whose alloca it shares

ASSUME ClassAssumption ==
    /\ RegsOf \in [Class -> SUBSET Reg]
    /\ \A c \in Class : IsFiniteSet(RegsOf[c])
    /\ \A r \in Reg : \E c \in Class : r \in RegsOf[c]
    /\ \A c, d \in Class : RegsOf[c] \cap RegsOf[d] # {} => c = d

ASSUME SubRegisterAssumption ==
    /\ DOMAIN RootOf \subseteq Nat \ Reg
    /\ RootOf \in [DOMAIN RootOf -> Reg]

\* Position of r in the ascending order of S.
Rank(r, S) == Cardinality({q \in S : q < r})

ClassOf(r) == CHOOSE c \in Class : r \in RegsOf[c]

\* register_state: slot <<c, i>> is element i of the array of class c.
Slot == UNION {{<<c, Rank(r, RegsOf[c])>> : r \in RegsOf[c]} : c \in Class}
StateType == [Slot -> Val]

\* reg2vals: the alloca (named by the register that owns it) each register
\* and sub-register is kept in.
Rmap == [k \in Reg \cup DOMAIN RootOf |-> IF k \in Reg THEN k ELSE RootOf[k]]

\* The keys a copy enumerates for class c: rmap filtered by rclass.contains.
KeysOf(c) == {k \in DOMAIN Rmap : k \in RegsOf[c]}

\* The prologue: a fresh alloca for each register, loaded from the struct.
MaterializeRegisters(state) ==
    [r \in Reg |-> state[<<ClassOf(r), Rank(r, RegsOf[ClassOf(r)])>>]]

\* Mutant: the copy numbers sub-registers too.
SaveRegistersUnfiltered(state, locals) ==
    [slot \in Slot |->
        LET Keys == {k \in DOMAIN Rmap : Rmap[k] \in RegsOf[slot[1]]}
            Written == {k \in Keys : Rank(k, Keys) = slot[2]}
        IN  IF Written = {} THEN state[slot]
                            ELSE locals[Rmap[CHOOSE k \in Written : TRUE]]]

\* The copy before a call or a return.
SaveRegisters(state, locals) ==
    [slot \in Slot |->
        LET Keys == KeysOf(slot[1])
            Written == {k \in Keys : Rank(k, Keys) = slot[2]}
        IN  IF Written = {} THEN state[slot]
                            ELSE locals[Rmap[CHOOSE k \in Written : TRUE]]]

\* The copy after a call.
LoadRegisters(state, locals) ==
    [r \in Reg |->
        LET Loads == {l \in Class \X DOMAIN Rmap :
                          l[2] \in KeysOf(l[1]) /\ Rmap[l[2]] = r}
            load == CHOOSE l \in Loads : TRUE
        IN  IF Loads = {} THEN locals[r]
            ELSE state[<<load[1], Rank(load[2], KeysOf(load[1]))>>]]

\* A struct whose constant registers hold their constants.
HoldsConstants(state) == MaterializeRegisters(state) \in RegFile

============================================================================
