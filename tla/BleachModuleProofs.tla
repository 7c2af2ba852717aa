------------------------- MODULE BleachModuleProofs -------------------------
(***************************************************************************)
(* For all modules, instruction files and prefixes: the invariants of      *)
(* BleachModule.  Which functions the module has at each step, and what    *)
(* they are called, is the core (Shape); who uses whom, with what a        *)
(* function is lifted and what is registered and declared follow from it.  *)
(***************************************************************************)
EXTENDS BleachModule, FiniteSetTheorems, TLAPS

Name(i) == input.fns[i].name

\* What the assumption says of an input.
LEMMA InputIs ==
    ASSUME input \in Inputs
    PROVE  /\ Len(input.fns) \in Nat /\ Fns = 1..Len(input.fns) /\ Fns # {} /\ Fns \subseteq Nat
           /\ Len(input.config) \in Nat /\ DOMAIN input.config = 1..Len(input.config)
           /\ \A i \in Fns : Name(i) \in Seq(Pieces) /\ Name(i) \notin Range(RuntimeNames)
           /\ \A i, j \in Fns : Name(i) = Name(j) => i = j
           /\ \A t \in Fns : \E i \in Fns : i <= t /\ Name(i) = input.fns[t].symbol
           /\ \A i \in Fns : input.fns[i].calls \subseteq Fns /\ input.fns[i].irCalls \subseteq Fns
<1>1. /\ Len(input.fns) \in Nat \ {0} /\ Fns = 1..Len(input.fns)
      /\ Len(input.config) \in Nat /\ DOMAIN input.config = 1..Len(input.config)
  BY InputAssumption DEF Fns
<1>2. Fns # {} /\ Fns \subseteq Nat
  <2>1. 1 \in Fns
    BY <1>1
  <2>2. Fns \subseteq Nat
    BY <1>1
  <2> QED
    BY <2>1, <2>2
<1>3. /\ \A i \in Fns : Name(i) \in Seq(Pieces) /\ Name(i) \notin Range(RuntimeNames)
      /\ \A i, j \in Fns : Name(i) = Name(j) => i = j
      /\ \A i \in Fns : input.fns[i].calls \subseteq Fns /\ input.fns[i].irCalls \subseteq Fns
  BY InputAssumption DEF Fns, Name
<1>4. ASSUME NEW t \in Fns PROVE \E i \in Fns : i <= t /\ Name(i) = input.fns[t].symbol
  <2>1. \E i \in 1..t : Name(i) = input.fns[t].symbol
    BY InputAssumption DEF Fns, Name
  <2> QED
    BY <1>1, <2>1
<1> QED
  BY <1>1, <1>2, <1>3, <1>4

\* Objects are told apart by their kind and their key.
LEMMA Kinds ==
    /\ \A i : Source(i)[1] = "source" /\ Source(i)[2] = i
    /\ \A i : Lifted(i)[1] = "lifted" /\ Lifted(i)[2] = i
    /\ \A n : Instr(n)[1] = "instr" /\ Instr(n)[2] = n
    /\ \A n : Runtime(n)[1] = "runtime" /\ Runtime(n)[2] = n
  BY DEF Source, Lifted, Instr, Runtime

-----------------------------------------------------------------------------
(* Names are made unique *)

\* A suffix is dots, as many as asked for.
LEMMA SuffixedIs ==
    ASSUME NEW n \in Seq(Pieces), NEW k \in Nat
    PROVE  /\ Suffixed(n, k) \in Seq(Pieces) /\ Len(Suffixed(n, k)) = Len(n) + k
           /\ \A j \in 1..Len(n) : Suffixed(n, k)[j] = n[j]
           /\ \A j \in (Len(n) + 1)..(Len(n) + k) : Suffixed(n, k)[j] = "."
<1> DEFINE d == [j \in 1..k |-> "."]
<1>1. d \in [1..k -> Pieces]
  BY NameAssumption
<1>2. d \in Seq(Pieces) /\ Len(d) = k
  BY <1>1
<1>3. \A j \in 1..k : d[j] = "."
  OBVIOUS
<1>4. Suffixed(n, k) = n \o d
  BY DEF Suffixed
<1> HIDE DEF d
<1>5. n \o d \in Seq(Pieces) /\ Len(n \o d) = Len(n) + k
  BY <1>2
<1>6. \A j \in 1..(Len(n) + k) : (n \o d)[j] = IF j <= Len(n) THEN n[j] ELSE d[j - Len(n)]
  BY <1>2
<1>7. Len(n) \in Nat
  OBVIOUS
<1>8. \A j \in 1..Len(n) : Suffixed(n, k)[j] = n[j]
  BY <1>4, <1>6, <1>7
<1>9. ASSUME NEW j \in (Len(n) + 1)..(Len(n) + k) PROVE Suffixed(n, k)[j] = "."
  <2>1. j \in 1..(Len(n) + k) /\ ~(j <= Len(n)) /\ j - Len(n) \in 1..k
    BY <1>7
  <2> QED
    BY <2>1, <1>3, <1>4, <1>6
<1> QED
  BY <1>4, <1>5, <1>8, <1>9

\* Among finitely many names there is a suffix that makes a new one: as many
\* suffixes as names and one more cannot all be taken.
LEMMA UniqueIs ==
    ASSUME NEW n \in Seq(Pieces), NEW taken, IsFiniteSet(taken)
    PROVE  /\ Unique(n, taken) \notin taken
           /\ n \notin taken => Unique(n, taken) = n
           /\ \E k \in Nat : Unique(n, taken) \in {n, Suffixed(n, k)}
<1> DEFINE c == Cardinality(taken)
<1>1. c \in Nat /\ Cardinality(0..c) = c + 1 /\ IsFiniteSet(0..c)
  BY FS_CardinalityType, FS_Interval
<1>2. \E k \in 0..c : Suffixed(n, k) \notin taken
  <2> SUFFICES ASSUME \A k \in 0..c : Suffixed(n, k) \in taken PROVE FALSE
    OBVIOUS
  <2> DEFINE f == [k \in 0..c |-> Suffixed(n, k)]
  <2>1. f \in [0..c -> taken]
    OBVIOUS
  <2>2. \E k, l \in 0..c : k # l /\ f[k] = f[l]
    <3> HIDE DEF f
    <3> QED
      BY <1>1, <2>1, FS_PigeonHole
  <2>3. PICK k, l \in 0..c : k # l /\ Suffixed(n, k) = Suffixed(n, l)
    BY <2>2
  <2>4. Len(Suffixed(n, k)) = Len(n) + k /\ Len(Suffixed(n, l)) = Len(n) + l
    BY <1>1, SuffixedIs
  <2> QED
    BY <1>1, <2>3, <2>4
<1> DEFINE m == CHOOSE k \in 0..c : Suffixed(n, k) \notin taken
<1>3. m \in 0..c /\ Suffixed(n, m) \notin taken
  BY <1>2
<1>4. m \in Nat
  BY <1>1, <1>3
<1>5. Unique(n, taken) = IF n \notin taken THEN n ELSE Suffixed(n, m)
  BY DEF Unique
<1> HIDE DEF m
<1> QED
  BY <1>3, <1>4, <1>5

-----------------------------------------------------------------------------
(* The functions of the module and their names *)

Phases == Failed \cup Generated \cup {"instrs", "clone", "redirect", "declare", "generate"}
AllObjects ==
    ({"source", "lifted"} \X Fns) \cup ({"instr"} \X Configured)
        \cup ({"runtime"} \X DOMAIN RuntimeNames)

\* Whether i has its clone, still has its original, and has its last name.
IsCloned(i) ==
    phase \in {"redirect", "declare", "generate"} \cup Generated \/ (phase = "clone" /\ i \notin pending)
HasOriginal(i) ==
    \/ phase \in {"instrs", "clone", "redirect", "declare", "generate", "symtab", "link", "rename", "header"}
    \/ phase = "erase" /\ i \in pending
IsRenamed(i) == phase \in {"header", "erase", "sweep", "done"} \/ (phase = "rename" /\ i \notin pending)

\* m.old, perhaps with a suffix.
IsOldName(n, m) ==
    /\ n \in Seq(Pieces) /\ Len(n) > Len(m)
    /\ \A j \in 1..Len(m) : n[j] = m[j]
    /\ n[Len(m) + 1] = ".old"
    /\ \A j \in (Len(m) + 2)..Len(n) : n[j] = "."

Typed ==
    /\ input \in Inputs /\ phase \in Phases /\ pending \subseteq Fns
    /\ Objects \subseteq AllObjects
    /\ phase = "header" => pending = Fns

ObjectsAre ==
    /\ \A i \in Fns : (Source(i) \in Objects <=> HasOriginal(i)) /\ (Lifted(i) \in Objects <=> IsCloned(i))
    /\ phase = "instrs" => Objects = {Source(i) : i \in Fns}
    /\ phase \notin {"instrs", "done"} => \A n \in Configured : Instr(n) \in Objects
    /\ phase \in {"generate", "symtab", "link", "rename", "header", "erase", "sweep"} =>
            \A n \in DOMAIN RuntimeNames : Runtime(n) \in Objects

NamesDiffer == \A o, p \in Objects : names[o] = names[p] => o = p

NamesAre ==
    /\ \A i \in Fns : HasOriginal(i) =>
            IF IsCloned(i) THEN IsOldName(names[Source(i)], Name(i)) ELSE names[Source(i)] = Name(i)
    /\ \A i \in Fns : IsCloned(i) /\ ~IsRenamed(i) => names[Lifted(i)] = Name(i)
    /\ \A i \in Fns : IsRenamed(i) /\ ~Taken => names[Lifted(i)] = Prefix \o Name(i)
    /\ \A n \in Configured : Instr(n) \in Objects => names[Instr(n)] = <<n>>
    /\ \A n \in DOMAIN RuntimeNames : Runtime(n) \in Objects => names[Runtime(n)] = RuntimeNames[n]

Shape == Typed /\ NamesDiffer /\ (phase \notin Failed => ObjectsAre /\ NamesAre)

\* The module has finitely many functions.
LEMMA ObjectsFinite ==
    ASSUME Typed
    PROVE  IsFiniteSet(Objects) /\ \A S \in SUBSET Objects : IsFiniteSet({names[p] : p \in S})
<1>1. IsFiniteSet(Fns)
  <2>1. Fns = 1..Len(input.fns) /\ Len(input.fns) \in Int
    BY InputIs DEF Typed
  <2> QED
    BY <2>1, FS_Interval
<1>2. \A f, S : IsFiniteSet(S) => IsFiniteSet({f[x] : x \in S})
  <2> TAKE f, S
  <2> HAVE IsFiniteSet(S)
  <2> DEFINE T == {f[x] : x \in S}
             g == [x \in S |-> f[x]]
  <2>1. g \in Surjection(S, T)
    BY DEF Surjection
  <2> HIDE DEF g, T
  <2>2. IsFiniteSet(T)
    BY <2>1, FS_Surjection
  <2> QED
    BY <2>2 DEF T
<1>3. IsFiniteSet(Configured)
  <2>1. IsFiniteSet(DOMAIN input.config)
    BY InputIs, FS_Interval DEF Typed
  <2>2. IsFiniteSet(Implementations)
    <3>1. Implementations \in SUBSET DOMAIN input.config
      BY DEF Implementations
    <3> QED
      BY <2>1, <3>1, FS_Subset
  <2> DEFINE f == [k \in Implementations |-> input.config[k].name]
  <2>3. Configured = {f[k] : k \in Implementations}
    BY DEF Configured
  <2> QED
    BY <1>2, <2>2, <2>3
<1>4. IsFiniteSet(DOMAIN RuntimeNames) /\ IsFiniteSet({"source", "lifted"})
      /\ IsFiniteSet({"instr"}) /\ IsFiniteSet({"runtime"})
  <2>1. IsFiniteSet({"add"}) /\ IsFiniteSet({"source"}) /\ IsFiniteSet({"instr"})
        /\ IsFiniteSet({"runtime"})
    BY FS_Singleton
  <2>2. IsFiniteSet({"source"} \cup {"lifted"})
    BY <2>1, FS_AddElement
  <2>3. IsFiniteSet({"add"} \cup {"lookup"})
    BY <2>1, FS_AddElement
  <2>4. IsFiniteSet(({"add"} \cup {"lookup"}) \cup {"addr"})
    BY <2>3, FS_AddElement
  <2>5. IsFiniteSet((({"add"} \cup {"lookup"}) \cup {"addr"}) \cup {"impl"})
    BY <2>4, FS_AddElement
  <2>6. DOMAIN RuntimeNames = (({"add"} \cup {"lookup"}) \cup {"addr"}) \cup {"impl"}
    BY DEF RuntimeNames
  <2>7. {"source", "lifted"} = {"source"} \cup {"lifted"}
    OBVIOUS
  <2> QED
    BY <2>1, <2>2, <2>5, <2>6, <2>7
<1>5. IsFiniteSet(AllObjects)
  <2>1. IsFiniteSet({"source", "lifted"} \X Fns)
    BY <1>1, <1>4, FS_Product
  <2>2. IsFiniteSet({"instr"} \X Configured)
    BY <1>3, <1>4, FS_Product
  <2>3. IsFiniteSet({"runtime"} \X DOMAIN RuntimeNames)
    BY <1>4, FS_Product
  <2> QED
    BY <2>1, <2>2, <2>3, FS_Union DEF AllObjects
<1>6. \A S \in SUBSET AllObjects : IsFiniteSet(S)
  BY <1>5, FS_Subset
<1> QED
  BY <1>2, <1>6 DEF Typed

\* A function gets a name: its own and that of no other one.
LEMMA RenamedIs ==
    ASSUME Typed, NEW o \in Objects, NEW n \in Seq(Pieces)
    PROVE  /\ DOMAIN Renamed(o, n) = Objects
           /\ \A p \in Objects \ {o} : Renamed(o, n)[p] = names[p] /\ Renamed(o, n)[o] # names[p]
           /\ (\A p \in Objects \ {o} : names[p] # n) => Renamed(o, n)[o] = n
           /\ \E k \in Nat : Renamed(o, n)[o] \in {n, Suffixed(n, k)}
<1> DEFINE taken == {names[p] : p \in Objects \ {o}}
<1>1. IsFiniteSet(taken)
  BY ObjectsFinite
<1>2. Renamed(o, n) = [names EXCEPT ![o] = Unique(n, taken)]
  BY DEF Renamed
<1>3. Renamed(o, n)[o] = Unique(n, taken) /\ DOMAIN Renamed(o, n) = Objects
      /\ \A p \in Objects \ {o} : Renamed(o, n)[p] = names[p]
  BY <1>2 DEF Objects
<1>4. \A p \in Objects \ {o} : names[p] \in taken
  OBVIOUS
<1>5. /\ Unique(n, taken) \notin taken
      /\ n \notin taken => Unique(n, taken) = n
      /\ \E k \in Nat : Unique(n, taken) \in {n, Suffixed(n, k)}
  BY <1>1, UniqueIs
<1>6. (\A p \in Objects \ {o} : names[p] # n) => n \notin taken
  OBVIOUS
<1> HIDE DEF taken
<1> QED
  BY <1>3, <1>4, <1>5, <1>6

\* What an original is called besides its clone.
LEMMA OldNameIs ==
    ASSUME NEW m \in Seq(Pieces), NEW k \in Nat, NEW n \in {m \o <<".old">>, Suffixed(m \o <<".old">>, k)}
    PROVE  IsOldName(n, m)
<1> DEFINE b == m \o <<".old">>
<1>1. b \in Seq(Pieces) /\ Len(b) = Len(m) + 1 /\ Len(m) \in Nat
      /\ (\A j \in 1..Len(m) : b[j] = m[j]) /\ b[Len(m) + 1] = ".old"
  <2>1. <<".old">> \in Seq(Pieces)
    BY NameAssumption
  <2> QED
    BY <2>1
<1> HIDE DEF b
<1>2. CASE n = b
  BY <1>1, <1>2 DEF IsOldName
<1>3. CASE n = Suffixed(b, k)
  <2>1. /\ n \in Seq(Pieces) /\ Len(n) = Len(m) + 1 + k
        /\ \A j \in 1..(Len(m) + 1) : n[j] = b[j]
        /\ \A j \in (Len(m) + 2)..(Len(m) + 1 + k) : n[j] = "."
    <3>1. /\ n \in Seq(Pieces) /\ Len(n) = Len(b) + k
          /\ \A j \in 1..Len(b) : n[j] = b[j]
          /\ \A j \in (Len(b) + 1)..(Len(b) + k) : n[j] = "."
      BY <1>1, <1>3, SuffixedIs
    <3> QED
      BY <1>1, <3>1
  <2> QED
    BY <1>1, <2>1 DEF IsOldName
<1> QED
  BY <1>2, <1>3 DEF b

\* It is neither its own name nor that of a runtime function, and it is taken
\* if a prefixed name is it.
LEMMA OldNameDiffers ==
    ASSUME NEW n, NEW m \in Seq(Pieces), IsOldName(n, m)
    PROVE  n # m /\ n \notin Range(RuntimeNames) /\ IsPrefix(m \o <<".old">>, n)
<1>1. n # m
  BY DEF IsOldName
<1>2. ASSUME NEW r \in DOMAIN RuntimeNames, n = RuntimeNames[r] PROVE FALSE
  <2>1. n = <<"bleach_", r>> /\ r \in {"add", "lookup", "addr", "impl"}
    BY <1>2 DEF RuntimeNames
  <2>2. Len(n) = 2 /\ n[2] = r
    BY <2>1
  <2>3. Len(m) \in {0, 1}
    <3>1. Len(m) \in Nat /\ Len(n) > Len(m)
      BY DEF IsOldName
    <3>2. Len(n) = 2
      BY <2>2
    <3>3. \A a \in Nat : 2 > a => a \in {0, 1}
      OBVIOUS
    <3>4. 2 > Len(m)
      BY <3>1, <3>2, Zenon
    <3> QED
      BY <3>1, <3>3, <3>4
  <2>4. n[2] \in {".", ".old"}
    BY <2>2, <2>3 DEF IsOldName
  <2> QED
    BY <2>1, <2>2, <2>4
<1>3. IsPrefix(m \o <<".old">>, n)
  <2> DEFINE b == m \o <<".old">>
  <2>1. <<".old">> \in Seq(Pieces)
    BY NameAssumption
  <2>2. b \in Seq(Pieces) /\ Len(b) = Len(m) + 1 /\ Len(m) \in Nat
        /\ (\A j \in 1..Len(m) : b[j] = m[j]) /\ b[Len(m) + 1] = ".old"
    BY <2>1
  <2> HIDE DEF b
  <2>3. n \in Seq(Pieces) /\ Len(b) <= Len(n) /\ \A j \in 1..Len(b) : b[j] = n[j]
    BY <2>2 DEF IsOldName
  <2>4. SubSeq(b, 1, Len(b)) = SubSeq(n, 1, Len(b))
    BY <2>2, <2>3
  <2> QED
    BY <2>3, <2>4 DEF IsPrefix, b
<1> QED
  BY <1>1, <1>2, <1>3 DEF Range

\* Initially there are the originals.
LEMMA InitShape == Init => Shape
<1> SUFFICES ASSUME Init PROVE Shape
  OBVIOUS
<1>1. /\ input \in Inputs /\ phase = "instrs" /\ pending = {}
      /\ names = [o \in {Source(i) : i \in Fns} |-> input.fns[o[2]].name]
  BY DEF Init
<1>2. Objects = {Source(i) : i \in Fns} /\ \A i \in Fns : names[Source(i)] = Name(i)
  BY <1>1, Kinds DEF Objects, Name
<1>3. Typed
  BY <1>1, <1>2 DEF Typed, Phases, AllObjects, Source
<1>4. NamesDiffer
  <2> SUFFICES ASSUME NEW o \in Objects, NEW p \in Objects, names[o] = names[p] PROVE o = p
    BY DEF NamesDiffer
  <2>1. PICK i, j \in Fns : o = Source(i) /\ p = Source(j)
    BY <1>2
  <2>2. Name(i) = Name(j)
    BY <1>2, <2>1
  <2> QED
    BY <1>1, <2>1, <2>2, InputIs
<1>5. ObjectsAre
  BY <1>1, <1>2, Kinds DEF ObjectsAre, HasOriginal, IsCloned, Generated
<1>6. NamesAre
  <2>1. \A i \in Fns : ~IsCloned(i) /\ ~IsRenamed(i)
    BY <1>1 DEF IsCloned, IsRenamed, Generated
  <2>2. \A n : Instr(n) \notin Objects /\ Runtime(n) \notin Objects
    BY <1>2, Kinds
  <2> QED
    BY <1>2, <2>1, <2>2 DEF NamesAre
<1> QED
  BY <1>3, <1>4, <1>5, <1>6 DEF Shape

\* What does not depend on names and steps.
LEMMA SameInput ==
    ASSUME UNCHANGED input
    PROVE  /\ Fns' = Fns /\ WithBody' = WithBody /\ (\A i : Name(i)' = Name(i))
           /\ Configured' = Configured /\ AllObjects' = AllObjects /\ Taken' = Taken
<1>1. Fns' = Fns /\ Configured' = Configured
  BY DEF Fns, Configured, Implementations
<1> QED
  BY <1>1 DEF Name, AllObjects, Taken, WithBody

\* Steps that leave the names.
LEMMA KeepsShape ==
    ASSUME Shape, UNCHANGED <<input, names>>, pending' \subseteq Fns,
           \/ phase' \in Failed
           \/ <<phase, phase'>> \in {<<"redirect", "declare">>, <<"generate", "generate">>,
                    <<"generate", "symtab">>, <<"generate", "link">>, <<"symtab", "link">>}
           \/ <<phase, phase'>> = <<"link", "rename">> /\ pending' = Fns
           \/ <<phase, phase'>> = <<"header", "erase">> /\ pending' = pending
    PROVE  Shape'
<1>1. Objects' = Objects /\ Fns' = Fns /\ Configured' = Configured /\ AllObjects' = AllObjects
      /\ Taken' = Taken /\ \A i : Name(i)' = Name(i)
  BY SameInput DEF Objects
<1>2. NamesDiffer'
  BY <1>1 DEF Shape, NamesDiffer
<1>3. Typed'
  BY <1>1 DEF Shape, Typed, Phases, Failed, Generated
<1>4. CASE phase' \notin Failed
  <2>1. phase \notin Failed
    BY <1>4 DEF Failed
  <2>2. ObjectsAre /\ NamesAre /\ (phase = "header" => pending = Fns)
    BY <2>1 DEF Shape, Typed
  <2>3. \A i \in Fns : /\ HasOriginal(i)' <=> HasOriginal(i)
                       /\ IsCloned(i)' <=> IsCloned(i)
                       /\ IsRenamed(i)' <=> IsRenamed(i)
    BY <1>4, <2>2 DEF HasOriginal, IsCloned, IsRenamed, Generated
  <2>4. phase \notin {"instrs", "done"} /\ phase' \notin {"instrs", "done"}
    BY <1>4
  <2>5. phase' \in {"generate", "symtab", "link", "rename", "header", "erase", "sweep"} =>
            phase \in {"generate", "symtab", "link", "rename", "header", "erase", "sweep"}
    BY <1>4
  <2>6. ObjectsAre'
    BY <1>1, <2>2, <2>3, <2>4, <2>5 DEF ObjectsAre
  <2>7. NamesAre'
    BY <1>1, <2>2, <2>3 DEF NamesAre
  <2> QED
    BY <1>2, <1>3, <2>6, <2>7 DEF Shape
<1> QED
  BY <1>2, <1>3, <1>4 DEF Shape

\* Names that are added.
LEMMA JoinedIs ==
    ASSUME NEW f, NEW g
    PROVE  /\ DOMAIN Joined(f, g) = DOMAIN f \cup DOMAIN g
           /\ \A x \in DOMAIN f : Joined(f, g)[x] = f[x]
           /\ \A x \in DOMAIN g \ DOMAIN f : Joined(f, g)[x] = g[x]
  BY DEF Joined

\* The instructions are named as the file names them.
LEMMA InstrsKeepShape == ASSUME Shape, FillModuleWithInstrs PROVE Shape'
<1> DEFINE A == [o \in {Instr(n) : n \in Configured} |-> <<o[2]>>]
           B == [o \in {Runtime("addr") : n \in MemoryInstrs} |-> RuntimeNames["addr"]]
<1>1. /\ phase = "instrs" /\ phase' = "clone" /\ pending' = Fns /\ input' = input
      /\ names' = Joined(Joined(names, A), B) /\ Clashing = {}
  BY DEF FillModuleWithInstrs
<1>2. Fns' = Fns /\ Configured' = Configured /\ AllObjects' = AllObjects
      /\ Taken' = Taken /\ \A i : Name(i)' = Name(i)
  BY <1>1, SameInput
<1>3. input \in Inputs /\ Objects = {Source(i) : i \in Fns} /\ NamesDiffer
      /\ \A i \in Fns : names[Source(i)] = Name(i)
  BY <1>1 DEF Shape, Typed, ObjectsAre, NamesAre, HasOriginal, IsCloned, Failed, Generated
<1>4. DOMAIN A = {Instr(n) : n \in Configured} /\ \A n \in Configured : A[Instr(n)] = <<n>>
  BY Kinds
<1>5. DOMAIN B \subseteq {Runtime("addr")} /\ \A o \in DOMAIN B : B[o] = RuntimeNames["addr"]
  OBVIOUS
<1> HIDE DEF A, B
<1>6. /\ Objects' = (Objects \cup DOMAIN A) \cup DOMAIN B
      /\ \A o \in Objects : names'[o] = names[o]
      /\ \A o \in DOMAIN A \ Objects : names'[o] = A[o]
      /\ \A o \in DOMAIN B \ (Objects \cup DOMAIN A) : names'[o] = B[o]
  <2> DEFINE J == Joined(names, A)
  <2>1. /\ DOMAIN J = Objects \cup DOMAIN A
        /\ \A o \in Objects : J[o] = names[o]
        /\ \A o \in DOMAIN A \ Objects : J[o] = A[o]
    BY JoinedIs DEF Objects
  <2>2. names' = Joined(J, B)
    BY <1>1
  <2> HIDE DEF J
  <2>3. /\ DOMAIN names' = DOMAIN J \cup DOMAIN B
        /\ \A o \in DOMAIN J : names'[o] = J[o]
        /\ \A o \in DOMAIN B \ DOMAIN J : names'[o] = B[o]
    <3>1. /\ DOMAIN Joined(J, B) = DOMAIN J \cup DOMAIN B
          /\ \A o \in DOMAIN J : Joined(J, B)[o] = J[o]
          /\ \A o \in DOMAIN B \ DOMAIN J : Joined(J, B)[o] = B[o]
      BY JoinedIs
    <3> QED
      BY <2>2, <3>1
  <2> QED
    BY <2>1, <2>3 DEF Objects
<1>7. /\ \A i \in Fns : names'[Source(i)] = Name(i)
      /\ \A n \in Configured : Instr(n) \in Objects' /\ names'[Instr(n)] = <<n>>
      /\ Runtime("addr") \in Objects' => names'[Runtime("addr")] = RuntimeNames["addr"]
      /\ \A o \in Objects' : \/ \E i \in Fns : o = Source(i)
                             \/ \E n \in Configured : o = Instr(n)
                             \/ o = Runtime("addr")
  BY <1>3, <1>4, <1>5, <1>6, Kinds
<1>8. Typed'
  <2>1. Objects' \subseteq AllObjects
    BY <1>7 DEF AllObjects, Source, Instr, Runtime, RuntimeNames
  <2> QED
    BY <1>1, <1>2, <1>3, <2>1 DEF Typed, Phases
<1>9. ObjectsAre'
  <2>1. \A i \in Fns : Source(i) \in Objects' /\ Lifted(i) \notin Objects'
    BY <1>3, <1>6, <1>7, Kinds
  <2>2. \A i \in Fns : HasOriginal(i)' /\ ~IsCloned(i)'
    BY <1>1 DEF HasOriginal, IsCloned, Generated
  <2> QED
    BY <1>1, <1>2, <1>7, <2>1, <2>2 DEF ObjectsAre
<1>10. NamesAre'
  <2>1. \A i \in Fns : ~IsCloned(i)' /\ ~IsRenamed(i)'
    BY <1>1 DEF IsRenamed, IsCloned, Generated
  <2>2. \A n \in DOMAIN RuntimeNames : Runtime(n) \in Objects' => n = "addr"
    BY <1>7, Kinds
  <2> QED
    BY <1>2, <1>7, <2>1, <2>2 DEF NamesAre
<1>11. NamesDiffer'
  <2>1. \A i \in Fns, n \in Configured : Name(i) # <<n>>
    BY <1>1 DEF Clashing, Name
  <2>2. \A i \in Fns : Name(i) # RuntimeNames["addr"]
    BY <1>3, InputIs DEF Range, RuntimeNames
  <2>3. \A n : <<n>> # RuntimeNames["addr"]
    BY DEF RuntimeNames
  <2>4. \A i, j \in Fns : Name(i) = Name(j) => i = j
    BY <1>3, InputIs
  <2> SUFFICES ASSUME NEW o \in Objects', NEW p \in Objects', names'[o] = names'[p] PROVE o = p
    BY DEF NamesDiffer
  <2>5. CASE \E i \in Fns : o = Source(i)
    BY <1>7, <2>1, <2>2, <2>4, <2>5
  <2>6. CASE \E n \in Configured : o = Instr(n)
    BY <1>7, <2>1, <2>3, <2>6
  <2>7. CASE o = Runtime("addr")
    BY <1>7, <2>2, <2>3, <2>7
  <2> QED
    BY <1>7, <2>5, <2>6, <2>7
<1> QED
  BY <1>8, <1>9, <1>10, <1>11 DEF Shape

\* What a step does with the functions that are left to it.
LEMMA StepIs ==
    ASSUME NEW i, NEW next, NEW all, Step(i, next, all), i \in pending
    PROVE  \/ phase' = next /\ pending' = all /\ pending = {i}
           \/ phase' = phase /\ pending' = pending \ {i}
  BY DEF Step

\* A clone has the name of its original from then on.
LEMMA ClonesKeepShape == ASSUME Shape, NEW i \in Fns, CloneMachineFunction(i) PROVE Shape'
<1> DEFINE R == Renamed(Source(i), names[Source(i)] \o <<".old">>)
           C == [o \in {Lifted(i)} |-> names[Source(i)]]
<1>1. /\ phase = "clone" /\ i \in pending /\ input' = input
      /\ names' = Joined(R, C) /\ Step(i, "redirect", {})
  BY DEF CloneMachineFunction
<1>2. Fns' = Fns /\ Configured' = Configured /\ AllObjects' = AllObjects
      /\ Taken' = Taken /\ \A j : Name(j)' = Name(j)
  BY <1>1, SameInput
<1>3. Typed /\ ObjectsAre /\ NamesAre /\ NamesDiffer /\ input \in Inputs /\ pending \subseteq Fns
  BY <1>1 DEF Shape, Typed, Failed
<1>4. /\ Source(i) \in Objects /\ Lifted(i) \notin Objects /\ names[Source(i)] = Name(i)
      /\ Name(i) \in Seq(Pieces)
  <2>1. HasOriginal(i) /\ ~IsCloned(i)
    BY <1>1 DEF HasOriginal, IsCloned, Generated
  <2> QED
    BY <1>3, <2>1, InputIs DEF ObjectsAre, NamesAre
<1>5. Name(i) \o <<".old">> \in Seq(Pieces)
  BY <1>4, NameAssumption
<1>6. /\ DOMAIN R = Objects
      /\ \A p \in Objects \ {Source(i)} : R[p] = names[p] /\ R[Source(i)] # names[p]
      /\ IsOldName(R[Source(i)], Name(i))
  <2>1. /\ DOMAIN R = Objects
        /\ \A p \in Objects \ {Source(i)} : R[p] = names[p] /\ R[Source(i)] # names[p]
        /\ \E k \in Nat : R[Source(i)] \in {Name(i) \o <<".old">>, Suffixed(Name(i) \o <<".old">>, k)}
    BY <1>3, <1>4, <1>5, RenamedIs
  <2> QED
    BY <1>4, <2>1, OldNameIs
<1> HIDE DEF R
<1>7. DOMAIN C = {Lifted(i)} /\ C[Lifted(i)] = Name(i)
  BY <1>4
<1> HIDE DEF C
<1>8. /\ Objects' = Objects \cup {Lifted(i)}
      /\ \A p \in Objects \ {Source(i)} : names'[p] = names[p] /\ names'[Source(i)] # names[p]
      /\ IsOldName(names'[Source(i)], Name(i))
      /\ names'[Lifted(i)] = Name(i)
  <2>1. /\ DOMAIN names' = DOMAIN R \cup DOMAIN C
        /\ \A o \in DOMAIN R : names'[o] = R[o]
        /\ \A o \in DOMAIN C \ DOMAIN R : names'[o] = C[o]
    <3>1. /\ DOMAIN Joined(R, C) = DOMAIN R \cup DOMAIN C
          /\ \A o \in DOMAIN R : Joined(R, C)[o] = R[o]
          /\ \A o \in DOMAIN C \ DOMAIN R : Joined(R, C)[o] = C[o]
      BY JoinedIs
    <3>2. names' = Joined(R, C)
      BY <1>1
    <3> QED
      BY <3>1, <3>2
  <2> QED
    BY <1>4, <1>6, <1>7, <2>1 DEF Objects
<1>9. \/ phase' = "redirect" /\ pending' = {} /\ pending = {i}
      \/ phase' = "clone" /\ pending' = pending \ {i}
  BY <1>1, StepIs
<1>10. \A j \in Fns : /\ HasOriginal(j) /\ HasOriginal(j)' /\ ~IsRenamed(j) /\ ~IsRenamed(j)'
                      /\ IsCloned(j)' <=> IsCloned(j) \/ j = i
  BY <1>1, <1>9 DEF HasOriginal, IsCloned, IsRenamed, Generated
<1>11. Typed'
  <2>1. Lifted(i) \in AllObjects
    BY DEF AllObjects, Lifted
  <2> QED
    BY <1>1, <1>2, <1>3, <1>8, <1>9, <2>1 DEF Typed, Phases
<1>12. ObjectsAre'
  <2>1. \A j \in Fns : Source(j) \in Objects /\ (Lifted(j) \in Objects <=> IsCloned(j))
    BY <1>3, <1>10 DEF ObjectsAre
  <2>2. \A n \in Configured : Instr(n) \in Objects
    BY <1>1, <1>3 DEF ObjectsAre
  <2>3. \A j \in Fns : Lifted(j) = Lifted(i) => j = i
    BY Kinds
  <2>4. \A j \in Fns : Source(j) \in Objects' /\ (Lifted(j) \in Objects' <=> IsCloned(j)')
    BY <1>8, <1>10, <2>1, <2>3, Kinds
  <2> QED
    BY <1>2, <1>8, <1>9, <1>10, <2>2, <2>4 DEF ObjectsAre
<1>13. NamesAre'
  <2>1. ASSUME NEW j \in Fns
        PROVE  IF IsCloned(j)' THEN IsOldName(names'[Source(j)], Name(j)) ELSE names'[Source(j)] = Name(j)
    <3>1. CASE j = i
      BY <1>8, <1>10, <3>1
    <3>2. CASE j # i
      <4>1. Source(j) \in Objects /\ Source(j) # Source(i)
        BY <1>3, <1>10, <3>2, Kinds DEF ObjectsAre
      <4> QED
        BY <1>3, <1>8, <1>10, <3>2, <4>1 DEF NamesAre
    <3> QED
      BY <3>1, <3>2
  <2>2. ASSUME NEW j \in Fns, IsCloned(j)' PROVE names'[Lifted(j)] = Name(j)
    <3>1. CASE j = i
      BY <1>8, <3>1
    <3>2. CASE j # i
      <4>1. IsCloned(j) /\ Lifted(j) \in Objects /\ Lifted(j) # Source(i)
        BY <1>3, <1>10, <2>2, <3>2, Kinds DEF ObjectsAre
      <4> QED
        BY <1>3, <1>8, <1>10, <4>1 DEF NamesAre
    <3> QED
      BY <3>1, <3>2
  <2>3. \A n : /\ Instr(n) \in Objects' => Instr(n) \in Objects /\ names'[Instr(n)] = names[Instr(n)]
               /\ Runtime(n) \in Objects' => Runtime(n) \in Objects /\ names'[Runtime(n)] = names[Runtime(n)]
    BY <1>8, Kinds
  <2> QED
    BY <1>2, <1>3, <1>10, <2>1, <2>2, <2>3 DEF NamesAre
<1>14. NamesDiffer'
  <2>1. \A p \in Objects : names[p] = Name(i) => p = Source(i)
    BY <1>3, <1>4 DEF NamesDiffer
  <2>2. names'[Source(i)] # Name(i)
    BY <1>4, <1>8, OldNameDiffers
  <2>3. \A p \in Objects : names'[p] # names'[Lifted(i)]
    BY <1>8, <2>1, <2>2
  <2>4. \A o, p \in Objects : names'[o] = names'[p] => o = p
    BY <1>3, <1>8 DEF NamesDiffer
  <2> QED
    BY <1>8, <2>3, <2>4 DEF NamesDiffer
<1> QED
  BY <1>11, <1>12, <1>13, <1>14 DEF Shape

\* The runtime functions have names that nothing else of the module has.
LEMMA RuntimeKeepsShape == ASSUME Shape, DeclareRuntime PROVE Shape'
<1> DEFINE R == [o \in {Runtime(n) : n \in DOMAIN RuntimeNames} |-> RuntimeNames[o[2]]]
<1>1. /\ phase = "declare" /\ phase' = "generate" /\ pending' = Fns /\ input' = input
      /\ names' = Joined(names, R)
  BY DEF DeclareRuntime
<1>2. Fns' = Fns /\ Configured' = Configured /\ AllObjects' = AllObjects
      /\ Taken' = Taken /\ \A j : Name(j)' = Name(j)
  BY <1>1, SameInput
<1>3. Typed /\ ObjectsAre /\ NamesAre /\ NamesDiffer /\ input \in Inputs
  BY <1>1 DEF Shape, Typed, Failed
<1>4. DOMAIN R = {Runtime(n) : n \in DOMAIN RuntimeNames}
      /\ \A n \in DOMAIN RuntimeNames : R[Runtime(n)] = RuntimeNames[n]
  BY Kinds
<1> HIDE DEF R
<1>5. /\ Objects' = Objects \cup {Runtime(n) : n \in DOMAIN RuntimeNames}
      /\ \A o \in Objects : names'[o] = names[o]
      /\ \A n \in DOMAIN RuntimeNames : names'[Runtime(n)] = RuntimeNames[n]
  <2>1. /\ DOMAIN Joined(names, R) = DOMAIN names \cup DOMAIN R
        /\ \A o \in DOMAIN names : Joined(names, R)[o] = names[o]
        /\ \A o \in DOMAIN R \ DOMAIN names : Joined(names, R)[o] = R[o]
    BY JoinedIs
  <2>2. \A n \in DOMAIN RuntimeNames : Runtime(n) \in Objects => names[Runtime(n)] = RuntimeNames[n]
    BY <1>3 DEF NamesAre
  <2> QED
    BY <1>1, <1>4, <2>1, <2>2 DEF Objects
<1>6. \A j \in Fns : /\ HasOriginal(j) /\ HasOriginal(j)' /\ ~IsRenamed(j) /\ ~IsRenamed(j)'
                     /\ IsCloned(j) /\ IsCloned(j)'
  BY <1>1 DEF HasOriginal, IsCloned, IsRenamed, Generated
<1>7. Typed'
  <2>1. \A n \in DOMAIN RuntimeNames : Runtime(n) \in AllObjects
    BY DEF AllObjects, Runtime
  <2> QED
    BY <1>1, <1>2, <1>3, <1>5, <2>1 DEF Typed, Phases
<1>8. ObjectsAre'
  <2>1. \A j \in Fns : Source(j) \in Objects' /\ Lifted(j) \in Objects'
    BY <1>3, <1>5, <1>6 DEF ObjectsAre
  <2>2. \A n \in Configured : Instr(n) \in Objects'
    BY <1>1, <1>3, <1>5 DEF ObjectsAre
  <2> QED
    BY <1>1, <1>2, <1>5, <1>6, <2>1, <2>2 DEF ObjectsAre
<1>9. NamesAre'
  <2>1. \A j \in Fns : /\ Source(j) \in Objects /\ IsOldName(names[Source(j)], Name(j))
                       /\ Lifted(j) \in Objects /\ names[Lifted(j)] = Name(j)
    BY <1>3, <1>6 DEF ObjectsAre, NamesAre
  <2>2. \A n \in Configured : names'[Instr(n)] = <<n>>
    BY <1>1, <1>3, <1>5 DEF ObjectsAre, NamesAre
  <2> QED
    BY <1>2, <1>5, <1>6, <2>1, <2>2 DEF NamesAre
<1>10. NamesDiffer'
  <2>1. \A n, m \in DOMAIN RuntimeNames : RuntimeNames[n] = RuntimeNames[m] => n = m
    BY DEF RuntimeNames
  <2>2. ASSUME NEW p \in Objects, NEW n \in DOMAIN RuntimeNames, names[p] = RuntimeNames[n]
        PROVE  p = Runtime(n)
    <3>1. names[p] \in Range(RuntimeNames)
      BY <2>2 DEF Range
    <3>2. p \in AllObjects
      BY <1>3 DEF Typed
    <3>3. CASE \E j \in Fns : p \in {Source(j), Lifted(j)}
      <4>1. PICK j \in Fns : p \in {Source(j), Lifted(j)}
        BY <3>3
      <4>2. Name(j) \in Seq(Pieces) /\ Name(j) \notin Range(RuntimeNames)
        BY <1>3, InputIs
      <4>3. names[Lifted(j)] = Name(j) /\ IsOldName(names[Source(j)], Name(j))
        BY <1>3, <1>6 DEF NamesAre
      <4>4. names[Source(j)] \notin Range(RuntimeNames)
        BY <4>2, <4>3, OldNameDiffers
      <4> QED
        BY <3>1, <4>1, <4>2, <4>3, <4>4
    <3>4. CASE \E m \in Configured : p = Instr(m)
      <4>1. PICK m \in Configured : p = Instr(m)
        BY <3>4
      <4>2. names[p] = <<m>>
        BY <1>3, <4>1 DEF NamesAre
      <4>3. RuntimeNames[n] = <<"bleach_", n>>
        BY DEF RuntimeNames
      <4>4. <<m>> # <<"bleach_", n>>
        OBVIOUS
      <4> QED
        BY <2>2, <4>2, <4>3, <4>4
    <3>5. CASE \E m \in DOMAIN RuntimeNames : p = Runtime(m)
      <4>1. PICK m \in DOMAIN RuntimeNames : p = Runtime(m)
        BY <3>5
      <4> QED
        BY <1>3, <2>1, <2>2, <4>1 DEF NamesAre
    <3> QED
      BY <3>2, <3>3, <3>4, <3>5 DEF AllObjects, Source, Lifted, Instr, Runtime
  <2>3. \A o, p \in Objects : names'[o] = names'[p] => o = p
    BY <1>3, <1>5 DEF NamesDiffer
  <2> QED
    BY <1>5, <2>1, <2>2, <2>3 DEF NamesDiffer
<1> QED
  BY <1>7, <1>8, <1>9, <1>10 DEF Shape

\* A prefix is told from the name behind it.
LEMMA PrefixedDiffer ==
    ASSUME NEW m \in Seq(Pieces), NEW n \in Seq(Pieces), Prefix \o m = Prefix \o n
    PROVE  m = n
<1>1. Prefix \in Seq(Pieces)
  BY NameAssumption
<1>2. Len(Prefix \o m) = Len(Prefix) + Len(m) /\ Len(Prefix \o n) = Len(Prefix) + Len(n)
  BY <1>1
<1>3. Len(m) = Len(n)
  BY <1>1, <1>2
<1>4. ASSUME NEW j \in 1..Len(m) PROVE m[j] = n[j]
  <2>1. (Prefix \o m)[Len(Prefix) + j] = m[j] /\ (Prefix \o n)[Len(Prefix) + j] = n[j]
    BY <1>1, <1>3
  <2> QED
    BY <2>1
<1> QED
  BY <1>3, <1>4

\* A clone gets its last name; it is the prefixed one if nothing else has it.
LEMMA RenamesKeepShape == ASSUME Shape, NEW i \in Fns, RenameFunction(i) PROVE Shape'
<1> DEFINE n == Prefix \o names[Lifted(i)]
<1>1. /\ phase = "rename" /\ i \in pending /\ input' = input
      /\ names' = Renamed(Lifted(i), n)
      /\ Step(i, IF input.header = "none" THEN "erase" ELSE "header", Fns)
  BY DEF RenameFunction
<1>2. Fns' = Fns /\ Configured' = Configured /\ AllObjects' = AllObjects
      /\ Taken' = Taken /\ \A j : Name(j)' = Name(j)
  BY <1>1, SameInput
<1>3. Typed /\ ObjectsAre /\ NamesAre /\ NamesDiffer /\ input \in Inputs /\ pending \subseteq Fns
  BY <1>1 DEF Shape, Typed, Failed
<1>4. /\ Lifted(i) \in Objects /\ names[Lifted(i)] = Name(i) /\ Name(i) \in Seq(Pieces)
      /\ n \in Seq(Pieces)
  <2>1. IsCloned(i) /\ ~IsRenamed(i)
    BY <1>1 DEF IsRenamed, IsCloned, Generated
  <2>2. Lifted(i) \in Objects /\ names[Lifted(i)] = Name(i) /\ Name(i) \in Seq(Pieces)
    BY <1>3, <2>1, InputIs DEF ObjectsAre, NamesAre
  <2> QED
    BY <2>2, NameAssumption
<1>5. n = Prefix \o Name(i)
  BY <1>4
<1> HIDE DEF n
<1>6. /\ Objects' = Objects
      /\ \A p \in Objects \ {Lifted(i)} : names'[p] = names[p] /\ names'[Lifted(i)] # names[p]
      /\ (\A p \in Objects \ {Lifted(i)} : names[p] # n) => names'[Lifted(i)] = n
  BY <1>1, <1>3, <1>4, RenamedIs DEF Objects
<1>7. \/ phase' \in {"erase", "header"} /\ pending' = Fns /\ pending = {i}
      \/ phase' = "rename" /\ pending' = pending \ {i}
  BY <1>1, StepIs
<1>8. \A j \in Fns : /\ HasOriginal(j) /\ HasOriginal(j)' /\ IsCloned(j) /\ IsCloned(j)'
                     /\ IsRenamed(j)' <=> IsRenamed(j) \/ j = i
  BY <1>1, <1>7 DEF HasOriginal, IsCloned, IsRenamed, Generated
<1>9. Typed'
  BY <1>1, <1>2, <1>3, <1>6, <1>7 DEF Typed, Phases, Generated
<1>10. ObjectsAre'
  BY <1>1, <1>2, <1>3, <1>6, <1>7, <1>8 DEF ObjectsAre
<1>11. NamesDiffer'
  BY <1>3, <1>6 DEF NamesDiffer
<1>12. \A j \in Fns : Source(j) \in Objects /\ Lifted(j) \in Objects
  BY <1>3, <1>8 DEF ObjectsAre
<1>13. ASSUME ~Taken, NEW p \in Objects, names[p] = n PROVE p = Lifted(i)
  <2>1. /\ \A j \in Fns : n # Name(j) /\ ~IsPrefix(Name(j) \o <<".old">>, n)
        /\ n \notin Range(RuntimeNames) /\ \A m \in Configured : n # <<m>>
    BY <1>5, <1>13 DEF Taken, Name
  <2>2. CASE \E j \in Fns : p = Source(j)
    <3>1. PICK j \in Fns : p = Source(j)
      BY <2>2
    <3>2. IsOldName(names[p], Name(j)) /\ Name(j) \in Seq(Pieces)
      BY <1>3, <1>8, <3>1, InputIs DEF NamesAre
    <3> QED
      BY <1>13, <2>1, <3>2, OldNameDiffers
  <2>3. CASE \E j \in Fns : p = Lifted(j)
    <3>1. PICK j \in Fns : p = Lifted(j)
      BY <2>3
    <3>2. CASE ~IsRenamed(j)
      BY <1>3, <1>8, <1>13, <2>1, <3>1, <3>2 DEF NamesAre
    <3>3. CASE IsRenamed(j)
      <4>1. Prefix \o Name(j) = Prefix \o Name(i)
        BY <1>3, <1>5, <1>13, <3>1, <3>3 DEF NamesAre
      <4>2. Name(j) = Name(i)
        BY <1>3, <4>1, InputIs, PrefixedDiffer
      <4> QED
        BY <1>3, <3>1, <4>2, InputIs
    <3> QED
      BY <3>2, <3>3
  <2>4. CASE \E m \in Configured : p = Instr(m)
    BY <1>3, <1>13, <2>1, <2>4 DEF NamesAre
  <2>5. CASE \E m \in DOMAIN RuntimeNames : p = Runtime(m)
    BY <1>3, <1>13, <2>1, <2>5 DEF NamesAre, Range
  <2>6. p \in AllObjects
    BY <1>3 DEF Typed
  <2> QED
    BY <2>2, <2>3, <2>4, <2>5, <2>6 DEF AllObjects, Source, Lifted, Instr, Runtime
<1>14. NamesAre'
  <2>1. \A j \in Fns : names'[Source(j)] = names[Source(j)] /\ IsOldName(names[Source(j)], Name(j))
    BY <1>3, <1>6, <1>8, <1>12, Kinds DEF NamesAre
  <2>2. ASSUME NEW j \in Fns, ~IsRenamed(j)' PROVE names'[Lifted(j)] = Name(j)
    <3>1. j # i /\ ~IsRenamed(j) /\ Lifted(j) # Lifted(i)
      BY <1>8, <2>2, Kinds
    <3> QED
      BY <1>3, <1>6, <1>8, <1>12, <3>1 DEF NamesAre
  <2>3. ASSUME NEW j \in Fns, IsRenamed(j)', ~Taken PROVE names'[Lifted(j)] = Prefix \o Name(j)
    <3>1. CASE j = i
      BY <1>5, <1>6, <1>13, <2>3, <3>1
    <3>2. CASE j # i
      <4>1. IsRenamed(j) /\ Lifted(j) # Lifted(i)
        BY <1>8, <2>3, <3>2, Kinds
      <4> QED
        BY <1>3, <1>6, <1>12, <2>3, <4>1 DEF NamesAre
    <3> QED
      BY <3>1, <3>2
  <2>4. \A m : /\ Instr(m) \in Objects => names'[Instr(m)] = names[Instr(m)]
               /\ Runtime(m) \in Objects => names'[Runtime(m)] = names[Runtime(m)]
    BY <1>6, Kinds
  <2> QED
    BY <1>2, <1>3, <1>6, <1>8, <2>1, <2>2, <2>3, <2>4 DEF NamesAre
<1> QED
  BY <1>9, <1>10, <1>11, <1>14 DEF Shape

\* Functions that go leave the others as they are.
LEMMA ErasesKeepShape == ASSUME Shape, NEW i \in Fns, EraseOriginal(i) PROVE Shape'
<1>1. /\ phase = "erase" /\ i \in pending /\ input' = input
      /\ names' = [o \in Objects \ {Source(i)} |-> names[o]]
      /\ Step(i, "sweep", {})
  BY DEF EraseOriginal, Without
<1>2. Fns' = Fns /\ Configured' = Configured /\ AllObjects' = AllObjects
      /\ Taken' = Taken /\ \A j : Name(j)' = Name(j)
  BY <1>1, SameInput
<1>3. Typed /\ ObjectsAre /\ NamesAre /\ NamesDiffer /\ input \in Inputs /\ pending \subseteq Fns
  BY <1>1 DEF Shape, Typed, Failed
<1>4. Objects' = Objects \ {Source(i)} /\ \A o \in Objects' : names'[o] = names[o]
  BY <1>1 DEF Objects
<1>5. \/ phase' = "sweep" /\ pending' = {} /\ pending = {i}
      \/ phase' = "erase" /\ pending' = pending \ {i}
  BY <1>1, StepIs
<1>6. \A j \in Fns : /\ IsCloned(j) /\ IsCloned(j)' /\ IsRenamed(j) /\ IsRenamed(j)'
                     /\ HasOriginal(j)' <=> HasOriginal(j) /\ j # i
  BY <1>1, <1>5 DEF HasOriginal, IsCloned, IsRenamed, Generated
<1>7. Typed'
  BY <1>1, <1>2, <1>3, <1>4, <1>5 DEF Typed, Phases, Generated
<1>8. ObjectsAre'
  BY <1>1, <1>2, <1>3, <1>4, <1>5, <1>6, Kinds DEF ObjectsAre
<1>9. NamesDiffer'
  BY <1>3, <1>4 DEF NamesDiffer
<1>10. NamesAre'
  BY <1>2, <1>3, <1>4, <1>6, <1>8 DEF NamesAre, ObjectsAre
<1> QED
  BY <1>7, <1>8, <1>9, <1>10 DEF Shape

LEMMA SweepKeepsShape == ASSUME Shape, Sweep PROVE Shape'
<1>1. /\ phase = "sweep" /\ phase' = "done" /\ input' = input /\ pending' = pending
      /\ names' = [o \in Objects \ Unused |-> names[o]]
  BY DEF Sweep, Without
<1>2. Fns' = Fns /\ Configured' = Configured /\ AllObjects' = AllObjects
      /\ Taken' = Taken /\ \A j : Name(j)' = Name(j)
  BY <1>1, SameInput
<1>3. Typed /\ ObjectsAre /\ NamesAre /\ NamesDiffer
  BY <1>1 DEF Shape, Failed
<1>4. Objects' = Objects \ Unused /\ \A o \in Objects' : names'[o] = names[o]
  BY <1>1 DEF Objects
<1>5. \A j \in Fns : /\ IsCloned(j) /\ IsCloned(j)' /\ IsRenamed(j) /\ IsRenamed(j)'
                     /\ ~HasOriginal(j) /\ ~HasOriginal(j)'
  BY <1>1 DEF HasOriginal, IsCloned, IsRenamed, Generated
<1>6. \A j : Lifted(j) \notin Unused
  BY Kinds DEF Unused
<1>7. Typed'
  BY <1>1, <1>2, <1>3, <1>4 DEF Typed, Phases, Generated
<1>8. ObjectsAre'
  BY <1>1, <1>2, <1>3, <1>4, <1>5, <1>6 DEF ObjectsAre
<1>9. NamesDiffer'
  BY <1>3, <1>4 DEF NamesDiffer
<1>10. NamesAre'
  BY <1>2, <1>3, <1>4, <1>5, <1>8 DEF NamesAre, ObjectsAre
<1> QED
  BY <1>7, <1>8, <1>9, <1>10 DEF Shape

\* One step per action.
LEMMA NextShape == Shape /\ [Next]_vars => Shape'
<1> SUFFICES ASSUME Shape, [Next]_vars PROVE Shape'
  OBVIOUS
<1>1. pending \subseteq Fns
  BY DEF Shape, Typed
<1>2. ASSUME NEW how \in Failed, Stops(how) PROVE Shape'
  BY <1>1, <1>2, KeepsShape DEF Stops
<1>3. CASE \/ NoImplementations \/ LinkError \/ ReplacesFunction \/ NoSymbol \/ HeaderNotWritable
           \/ \E i \in Fns : NoTranslation(i) \/ NoStackPointer(i) \/ NoInstruction(i) \/ ErasesUsed(i)
  BY <1>2, <1>3 DEF NoImplementations, LinkError, ReplacesFunction, NoSymbol, HeaderNotWritable,
                    NoTranslation, NoStackPointer, NoInstruction, ErasesUsed, Failed
<1>4. CASE FillModuleWithInstrs
  BY <1>4, InstrsKeepShape
<1>5. ASSUME NEW i \in Fns, CloneMachineFunction(i) PROVE Shape'
  BY <1>5, ClonesKeepShape
<1>6. CASE RedirectCalls
  BY <1>1, <1>6, KeepsShape DEF RedirectCalls
<1>7. CASE DeclareRuntime
  BY <1>7, RuntimeKeepsShape
<1>8. ASSUME NEW i \in Fns, GenerateFunction(i) PROVE Shape'
  <2>1. /\ phase = "generate" /\ UNCHANGED <<input, names>> /\ i \in pending
        /\ Step(i, IF input.hasSymtab THEN "symtab" ELSE "link", {})
    BY <1>8 DEF GenerateFunction
  <2>2. phase' \in {"generate", "symtab", "link"} /\ pending' \subseteq Fns
    BY <1>1, <2>1, StepIs
  <2> QED
    BY <2>1, <2>2, KeepsShape
<1>9. CASE FillSymtab
  BY <1>1, <1>9, KeepsShape DEF FillSymtab
<1>10. CASE LinkRuntime
  <2>1. phase = "link" /\ phase' = "rename" /\ pending' = Fns /\ UNCHANGED <<input, names>>
    BY <1>10 DEF LinkRuntime
  <2>2. <<phase, phase'>> = <<"link", "rename">> /\ pending' = Fns /\ pending' \subseteq Fns
    BY <2>1
  <2> QED
    BY <2>1, <2>2, KeepsShape
<1>11. ASSUME NEW i \in Fns, RenameFunction(i) PROVE Shape'
  BY <1>11, RenamesKeepShape
<1>12. CASE WriteHeader
  BY <1>1, <1>12, KeepsShape DEF WriteHeader
<1>13. ASSUME NEW i \in Fns, EraseOriginal(i) PROVE Shape'
  BY <1>13, ErasesKeepShape
<1>14. CASE Sweep
  BY <1>14, SweepKeepsShape
<1>15. CASE UNCHANGED vars
  <2>1. UNCHANGED <<input, names, phase, pending>>
    BY <1>15 DEF vars
  <2>2. Fns' = Fns /\ Configured' = Configured /\ AllObjects' = AllObjects
        /\ Taken' = Taken /\ Objects' = Objects /\ \A j : Name(j)' = Name(j)
    BY <2>1, SameInput DEF Objects
  <2>3. \A j : /\ IsCloned(j)' <=> IsCloned(j)
               /\ IsRenamed(j)' <=> IsRenamed(j)
               /\ HasOriginal(j)' <=> HasOriginal(j)
    BY <2>1 DEF IsCloned, IsRenamed, HasOriginal
  <2> QED
    BY <2>1, <2>2, <2>3 DEF Shape, Typed, NamesDiffer, ObjectsAre, NamesAre
<1> QED
  BY <1>3, <1>4, <1>5, <1>6, <1>7, <1>8, <1>9, <1>10, <1>11, <1>12, <1>13, <1>14, <1>15 DEF Next

-----------------------------------------------------------------------------
(* The state header *)

\* Nothing is declared before the header is written, and what is declared
\* keeps its name and its place.
HeaderInv ==
    /\ phase \notin {"erase", "sweep", "done"} \cup Failed => header = {}
    /\ \A n \in header : \E i \in Fns : Lifted(i) \in Objects /\ names[Lifted(i)] = n
    /\ phase \in {"erase", "sweep", "done"} /\ input.header = "file" => header = DeclaredNames

\* One step per kind of action: the ones up to the header, writing it, erasing.
LEMMA NextHeaderInv == Shape /\ Shape' /\ HeaderInv /\ [Next]_vars => HeaderInv'
<1> SUFFICES ASSUME Shape, Shape', HeaderInv, [Next]_vars PROVE HeaderInv'
  OBVIOUS
<1>1. CASE header' = {} /\ phase' \notin {"erase", "sweep", "done"}
  BY <1>1 DEF HeaderInv
<1>2. CASE \/ FillModuleWithInstrs \/ RedirectCalls \/ DeclareRuntime \/ FillSymtab \/ LinkRuntime
           \/ \E i \in Fns : CloneMachineFunction(i) \/ GenerateFunction(i)
  <2>1. header' = header /\ phase \notin {"erase", "sweep", "done"} \cup Failed
    BY <1>2 DEF FillModuleWithInstrs, RedirectCalls, DeclareRuntime, FillSymtab, LinkRuntime,
                CloneMachineFunction, GenerateFunction, Failed
  <2>2. phase' \notin {"erase", "sweep", "done"}
    BY <1>2 DEF FillModuleWithInstrs, RedirectCalls, DeclareRuntime, FillSymtab, LinkRuntime,
                CloneMachineFunction, GenerateFunction, Step
  <2> QED
    BY <1>1, <2>1, <2>2 DEF HeaderInv
<1>3. ASSUME NEW i \in Fns, RenameFunction(i) PROVE HeaderInv'
  <2>1. header' = header /\ phase = "rename" /\ input' = input
        /\ Step(i, IF input.header = "none" THEN "erase" ELSE "header", Fns)
    BY <1>3 DEF RenameFunction
  <2>2. header' = {}
    BY <2>1 DEF HeaderInv, Failed
  <2>3. phase' \in {"erase", "sweep", "done"} => input.header = "none"
    BY <2>1 DEF Step
  <2> QED
    BY <2>1, <2>2, <2>3 DEF HeaderInv
<1>4. CASE WriteHeader
  <2>1. header' = DeclaredNames /\ UNCHANGED <<input, names>> /\ phase = "header"
    BY <1>4 DEF WriteHeader
  <2>2. Fns' = Fns /\ DeclaredNames' = DeclaredNames
    BY <2>1 DEF Fns, DeclaredNames
  <2>3. \A i \in Fns : Lifted(i) \in Objects
    <3>1. \A i \in Fns : IsCloned(i)
      BY <2>1 DEF IsCloned, Generated
    <3> QED
      BY <2>1, <3>1 DEF Shape, ObjectsAre, Failed
  <2>4. \A n \in DeclaredNames : \E i \in Fns : names[Lifted(i)] = n
    BY DEF DeclaredNames
  <2>5. Objects' = Objects
    BY <2>1 DEF Objects
  <2>6. phase' = "erase"
    BY <1>4 DEF WriteHeader
  <2> QED
    BY <2>1, <2>2, <2>3, <2>4, <2>5, <2>6 DEF HeaderInv
<1>5. CASE Sweep \/ \E i \in Fns : EraseOriginal(i)
  <2>1. PICK gone : /\ names' = [o \in Objects \ gone |-> names[o]]
                    /\ \A i : Lifted(i) \notin gone
    <3>1. \A i : Lifted(i) \notin Unused /\ \A j : Lifted(i) \notin {Source(j)}
      BY Kinds DEF Unused
    <3> QED
      BY <1>5, <3>1 DEF Sweep, EraseOriginal, Without
  <2>2. header' = header /\ input' = input /\ phase \in {"erase", "sweep"} /\ phase' \notin Failed
    BY <1>5 DEF Sweep, EraseOriginal, Failed, Step
  <2>3. Fns' = Fns
    BY <2>2 DEF Fns
  <2>4. \A i : Lifted(i) \in Objects => Lifted(i) \in Objects' /\ names'[Lifted(i)] = names[Lifted(i)]
    BY <2>1 DEF Objects
  <2>5. \A i \in Fns : Lifted(i) \in Objects
    <3>1. \A i \in Fns : IsCloned(i)
      BY <2>2 DEF IsCloned, Generated
    <3> QED
      BY <2>2, <3>1 DEF Shape, ObjectsAre, Failed
  <2>6. {names'[Lifted(i)] : i \in Fns} = {names[Lifted(i)] : i \in Fns}
    BY <2>4, <2>5
  <2>7. DeclaredNames' = DeclaredNames
    BY <2>3, <2>6 DEF DeclaredNames
  <2>8. phase' \in {"erase", "sweep", "done"}
    BY <1>5 DEF Sweep, EraseOriginal, Step
  <2> QED
    BY <2>2, <2>3, <2>4, <2>7, <2>8 DEF HeaderInv
<1>6. CASE \/ NoImplementations \/ LinkError \/ ReplacesFunction \/ NoSymbol \/ HeaderNotWritable
           \/ \E i \in Fns : NoTranslation(i) \/ NoStackPointer(i) \/ NoInstruction(i) \/ ErasesUsed(i)
  <2>1. phase' \in Failed /\ UNCHANGED <<input, names, header>>
    BY <1>6 DEF NoImplementations, LinkError, ReplacesFunction, NoSymbol, HeaderNotWritable,
                NoTranslation, NoStackPointer, NoInstruction, ErasesUsed, Stops, Failed
  <2>2. Fns' = Fns /\ Objects' = Objects
    BY <2>1 DEF Fns, Objects
  <2> QED
    BY <2>1, <2>2 DEF HeaderInv, Failed
<1>7. CASE UNCHANGED vars
  <2>1. UNCHANGED <<input, names, header, phase>>
    BY <1>7 DEF vars
  <2>2. Fns' = Fns /\ Objects' = Objects /\ DeclaredNames' = DeclaredNames
    BY <2>1 DEF Fns, Objects, DeclaredNames
  <2> QED
    BY <2>1, <2>2 DEF HeaderInv
<1> QED
  BY <1>2, <1>3, <1>4, <1>5, <1>6, <1>7 DEF Next

-----------------------------------------------------------------------------
(* The translated functions *)

IsGenerated(i) == phase \in Generated \/ (phase = "generate" /\ i \notin pending)

\* What a function is lifted with: the first of its symbol, which is its own
\* translation as nobody before it can be called as it is.
GivenInv ==
    /\ given \in [Fns -> 0..Len(input.fns)]
    /\ \A i \in WithBody : Clear(i) =>
            given[i] \in {0, i} /\ (IsGenerated(i) /\ input.translated => given[i] = i)

\* The first function with the symbol that a function is called is itself.
LEMMA OwnFirst ==
    ASSUME input \in Inputs, NEW i \in Fns, Clear(i), NEW t \in Fns, input.fns[t].symbol = Name(i)
    PROVE  i <= t /\ input.fns[i].symbol = Name(i)
<1>1. input.fns[i].symbol = Name(i)
  BY DEF Clear, Name
<1>2. PICK j \in Fns : j <= t /\ Name(j) = input.fns[t].symbol
  BY InputIs
<1>3. j = i
  BY <1>2, InputIs
<1> QED
  BY <1>1, <1>2, <1>3

\* A set of numbers that is not empty has a least one.  If it had none, with a
\* lower bound the next number would be one too: adding one would map the
\* finite set of lower bounds into those but zero.
LEMMA LeastNumber ==
    ASSUME NEW S \in SUBSET Nat, S # {}
    PROVE  \E t \in S : \A u \in S : t <= u
<1> SUFFICES ASSUME \A t \in S : \E u \in S : u < t PROVE FALSE
  OBVIOUS
<1> DEFINE B == {b \in Nat : \A s \in S : b <= s}
           f == [b \in B |-> b + 1]
<1>1. 0 \in B /\ \A b \in B : b + 1 \in B \ {0}
  <2>1. 0 \in B
    OBVIOUS
  <2>2. ASSUME NEW b \in B PROVE b + 1 \in B \ {0}
    <3>1. b \notin S
      OBVIOUS
    <3>2. \A s \in S : b + 1 <= s
      BY <3>1
    <3> QED
      BY <3>2
  <2> QED
    BY <2>1, <2>2
<1>2. IsFiniteSet(B)
  <2>1. PICK s \in S : TRUE
    OBVIOUS
  <2>2. B \in SUBSET (0..s) /\ 0 \in Int /\ s \in Int
    OBVIOUS
  <2> HIDE DEF B
  <2>3. IsFiniteSet(0..s)
    BY <2>2, FS_Interval
  <2> QED
    BY <2>2, <2>3, FS_Subset
<1>3. f \in [B -> B \ {0}] /\ \A b, c \in B : f[b] = f[c] => b = c
  BY <1>1
<1> HIDE DEF B, f
<1>4. IsFiniteSet(B \ {0}) /\ Cardinality(B \ {0}) = Cardinality(B) - 1
  BY <1>1, <1>2, FS_RemoveElement
<1>5. Cardinality(B) \in Nat
  BY <1>2, FS_CardinalityType
<1>6. Cardinality(B \ {0}) < Cardinality(B)
  BY <1>4, <1>5
<1>7. \E b, c \in B : b # c /\ f[b] = f[c]
  BY <1>2, <1>3, <1>4, <1>6, FS_PigeonHole
<1> QED
  BY <1>3, <1>7

LEMMA GivenIsOwn ==
    ASSUME Shape, GivenInv, NEW i \in Fns, GenerateFunction(i) PROVE GivenInv'
<1>1. /\ phase = "generate" /\ i \in pending /\ input' = input /\ ~Untranslated(i)
      /\ given' = [given EXCEPT ![i] =
                    IF Translations(i) = {} THEN 0
                    ELSE CHOOSE t \in Translations(i) : \A u \in Translations(i) : t <= u]
      /\ Step(i, IF input.hasSymtab THEN "symtab" ELSE "link", {})
  BY DEF GenerateFunction
<1>2. input \in Inputs /\ pending \subseteq Fns /\ names[Lifted(i)] = Name(i)
  <2>1. IsCloned(i) /\ ~IsRenamed(i)
    BY <1>1 DEF IsCloned, IsRenamed, Generated
  <2> QED
    BY <1>1, <2>1 DEF Shape, Typed, NamesAre, Failed
<1>3. Fns' = Fns /\ WithBody' = WithBody /\ \A j \in Fns : Clear(j)' <=> Clear(j)
  BY <1>1 DEF Fns, WithBody, Clear
<1>4. \A j \in Fns : j # i => (IsGenerated(j)' <=> IsGenerated(j))
  <2>1. phase' \in {"generate"} \cup Generated
    BY <1>1 DEF Step, Generated
  <2>2. \/ phase' = (IF input.hasSymtab THEN "symtab" ELSE "link") /\ pending = {i}
        \/ phase' = phase /\ pending' = pending \ {i}
    BY <1>1, StepIs
  <2> QED
    BY <1>1, <2>2 DEF IsGenerated, Generated
<1>5. /\ Fns = 1..Len(input.fns) /\ Len(input.fns) \in Nat
      /\ Translations(i) = {t \in Fns : input.translated /\ input.fns[t].symbol = Name(i)}
  BY <1>2, InputIs DEF Translations
<1> DEFINE g == IF Translations(i) = {} THEN 0
                ELSE CHOOSE t \in Translations(i) : \A u \in Translations(i) : t <= u
<1>6. given' = [given EXCEPT ![i] = g]
  BY <1>1
<1>7. Clear(i) => g \in {0, i} /\ (Translations(i) # {} => g = i)
  <2> SUFFICES ASSUME Clear(i), Translations(i) # {} PROVE g = i
    OBVIOUS
  <2>1. \A t \in Translations(i) : i <= t
    BY <1>2, <1>5, OwnFirst
  <2>2. i \in Translations(i)
    BY <1>2, <1>5, OwnFirst
  <2>3. g \in Translations(i) /\ \A u \in Translations(i) : g <= u
    BY <2>1, <2>2
  <2> HIDE DEF g
  <2>4. g <= i /\ i <= g /\ g \in Nat /\ i \in Nat
    BY <1>5, <2>1, <2>2, <2>3
  <2> QED
    BY <2>4
<1>8. g \in 0..Len(input.fns)
  <2>1. CASE Translations(i) = {}
    BY <1>5, <2>1
  <2>2. CASE Translations(i) # {}
    <3>1. Translations(i) \in SUBSET Nat
      BY <1>5
    <3>2. \E t \in Translations(i) : \A u \in Translations(i) : t <= u
      BY <2>2, <3>1, LeastNumber
    <3>3. g \in Translations(i)
      BY <2>2, <3>2
    <3> HIDE DEF g
    <3> QED
      BY <1>5, <3>3
  <2> QED
    BY <2>1, <2>2
<1> HIDE DEF g
<1>9. i \in WithBody /\ input.translated => Translations(i) # {}
  BY <1>1 DEF Untranslated
<1>10. given' \in [Fns -> 0..Len(input.fns)]
  BY <1>6, <1>8 DEF GivenInv
<1>11. ASSUME NEW j \in WithBody, Clear(j)
       PROVE  given'[j] \in {0, j} /\ (IsGenerated(j)' /\ input.translated => given'[j] = j)
  <2>1. j \in Fns /\ given \in [Fns -> 0..Len(input.fns)]
    BY DEF WithBody, GivenInv
  <2>2. CASE j = i
    BY <1>6, <1>7, <1>9, <1>11, <2>1, <2>2
  <2>3. CASE j # i
    BY <1>4, <1>6, <1>11, <2>1, <2>3 DEF GivenInv
  <2> QED
    BY <2>2, <2>3
<1> QED
  BY <1>1, <1>3, <1>10, <1>11 DEF GivenInv, WithBody

\* Nobody else looks for a translation.
LEMMA NextGivenInv == Shape /\ GivenInv /\ [Next]_vars => GivenInv'
<1> SUFFICES ASSUME Shape, GivenInv, [Next]_vars PROVE GivenInv'
  OBVIOUS
<1>1. ASSUME UNCHANGED <<input, given>>, \A i \in Fns : IsGenerated(i)' => IsGenerated(i)
      PROVE  GivenInv'
  <2>1. Fns' = Fns /\ WithBody' = WithBody /\ \A i \in Fns : Clear(i)' <=> Clear(i)
    BY <1>1 DEF Fns, WithBody, Clear
  <2> QED
    BY <1>1, <2>1 DEF GivenInv, WithBody
<1>2. ASSUME NEW i \in Fns, GenerateFunction(i) PROVE GivenInv'
  BY <1>2, GivenIsOwn
<1>3. CASE \/ NoImplementations \/ LinkError \/ ReplacesFunction \/ NoSymbol \/ HeaderNotWritable
           \/ \E i \in Fns : NoTranslation(i) \/ NoStackPointer(i) \/ NoInstruction(i) \/ ErasesUsed(i)
  <2>1. phase' \in Failed /\ UNCHANGED <<input, given>>
    BY <1>3 DEF NoImplementations, LinkError, ReplacesFunction, NoSymbol, HeaderNotWritable,
                NoTranslation, NoStackPointer, NoInstruction, ErasesUsed, Stops, Failed
  <2> QED
    BY <1>1, <2>1 DEF IsGenerated, Generated, Failed
<1>4. CASE \/ FillModuleWithInstrs \/ RedirectCalls \/ DeclareRuntime
           \/ \E i \in Fns : CloneMachineFunction(i)
  <2>1. /\ UNCHANGED <<input, given>>
        /\ phase' \in {"clone", "redirect", "declare"} \/ (phase' = "generate" /\ pending' = Fns)
    BY <1>4 DEF FillModuleWithInstrs, RedirectCalls, DeclareRuntime, CloneMachineFunction, Step
  <2> QED
    BY <1>1, <2>1 DEF IsGenerated, Generated
<1>5. CASE \/ FillSymtab \/ LinkRuntime \/ WriteHeader \/ Sweep
           \/ \E i \in Fns : RenameFunction(i) \/ EraseOriginal(i)
  <2>1. UNCHANGED <<input, given>> /\ phase \in Generated
    BY <1>5 DEF FillSymtab, LinkRuntime, WriteHeader, Sweep, RenameFunction, EraseOriginal, Generated
  <2> QED
    BY <1>1, <2>1 DEF IsGenerated
<1>6. CASE UNCHANGED vars
  <2>1. UNCHANGED <<input, given, phase, pending>>
    BY <1>6 DEF vars
  <2> QED
    BY <1>1, <2>1 DEF IsGenerated
<1> QED
  BY <1>2, <1>3, <1>4, <1>5, <1>6 DEF Next

-----------------------------------------------------------------------------
(* What holds of every module *)

NameInv == Shape /\ HeaderInv /\ GivenInv

LEMMA NamesHold == Spec => []NameInv
<1>1. Init => NameInv
  <2> SUFFICES ASSUME Init PROVE NameInv
    OBVIOUS
  <2>1. Shape
    BY InitShape
  <2>2. phase = "instrs" /\ header = {} /\ given = [i \in Fns |-> 0]
    BY DEF Init
  <2>3. Len(input.fns) \in Nat
    BY <2>1, InputIs DEF Shape, Typed
  <2>4. GivenInv
    BY <2>2, <2>3 DEF GivenInv, IsGenerated, Generated, WithBody
  <2> QED
    BY <2>1, <2>2, <2>4 DEF NameInv, HeaderInv
<1>2. NameInv /\ [Next]_vars => NameInv'
  BY NextShape, NextHeaderInv, NextGivenInv DEF NameInv
<1> QED
  BY <1>1, <1>2, PTL DEF Spec

\* The host finds every lifted function under its prefixed name unless that is
\* taken, whatever the order in which functions are cloned and renamed and
\* whatever LLVM does with clashing names; and the header declares all of
\* those that are C names, none else (line 1391).
THEOREM HostFindsLifted == Spec => []HostSees
<1>1. NameInv => HostSees
  <2> SUFFICES ASSUME NameInv, phase = "done"
               PROVE  /\ ~Taken => \A i \in Fns : names[Lifted(i)] = Prefix \o input.fns[i].name
                      /\ input.header = "file" =>
                            header = {names[Lifted(i)] : i \in {j \in Fns : ~has_special_chars(names[Lifted(j)])}}
    BY DEF HostSees
  <2>1. NamesAre /\ (input.header = "file" => header = DeclaredNames)
    BY DEF NameInv, Shape, HeaderInv, Failed
  <2>2. ~Taken => \A i \in Fns : names[Lifted(i)] = Prefix \o input.fns[i].name
    BY <2>1 DEF NamesAre, IsRenamed, Name
  <2>3. DeclaredNames = {names[Lifted(i)] : i \in {j \in Fns : ~has_special_chars(names[Lifted(j)])}}
    BY DEF DeclaredNames
  <2> QED
    BY <2>1, <2>2, <2>3
<1> QED
  BY <1>1, NamesHold, PTL

\* However the functions are ordered and named, one is lifted with the
\* addresses of its own translation, unless another function has as its
\* symbol the name that LLVM made up for it (line 1370).
THEOREM LiftedWithOwnAddresses == Spec => []OwnTranslation
<1>1. NameInv => OwnTranslation
  BY DEF NameInv, GivenInv, OwnTranslation, IsGenerated
<1> QED
  BY <1>1, NamesHold, PTL

-----------------------------------------------------------------------------
(* Who uses whom.  From what each step finds under a name (Shape) follows  *)
(* what it puts into the bodies: which functions the machine calls of a    *)
(* clone go to, what a lifted body uses, what it registers, and what has a *)
(* body at all (Bodies).                                                   *)

\* What the lifted instructions of i use.
UsedBy(i) ==
    {Lifted(j) : j \in input.fns[i].calls} \cup {Instr(n) : n \in input.fns[i].instrs}
        \cup (IF input.fns[i].indirect THEN {Runtime("lookup")} ELSE {})

IsRegistered == input.hasSymtab /\ phase \in Generated \ {"symtab"}

AllRegistered ==
    {<<Lifted(i), get_start_of(Name(j)), Lifted(j)>> : i \in WithBody, j \in WithBody}

McallsInv ==
    /\ DOMAIN mcalls = Fns
    /\ phase \in {"clone", "redirect"} =>
            \A i \in Fns : IsCloned(i) => mcalls[i] = {Source(j) : j \in input.fns[i].calls}
    /\ phase \in {"declare", "generate"} =>
            \A i \in Fns : mcalls[i] = {Lifted(j) : j \in input.fns[i].calls}

RegisteredInv ==
    /\ phase = "symtab" => input.hasSymtab
    /\ registered = IF IsRegistered THEN AllRegistered ELSE {}
    /\ IsRegistered => \A i \in WithBody : Symbols(Name(i)) # {}

\* The uses that are not in a lifted body.
OtherUse(u) ==
    \/ \E i \in Fns : \E j \in input.fns[i].irCalls : u = <<Source(i), Source(j)>>
    \/ \E n \in MemoryInstrs : u = <<Instr(n), Runtime("addr")>>
    \/ u = <<Runtime("addr"), Runtime("impl")>>

UsesInv ==
    /\ \A i \in Fns : \A o : <<Lifted(i), o>> \in uses <=>
            \/ IsGenerated(i) /\ o \in UsedBy(i)
            \/ \E r \in registered : r[1] = Lifted(i) /\ o \in {r[3], Runtime("add")}
    /\ \A u \in uses : u = <<u[1], u[2]>> /\ u[1] \in Objects /\ u[2] \in Objects
    /\ \A u \in uses : u[1][1] # "lifted" => OtherUse(u)

DefinedInv ==
    /\ \A n \in Configured : Instr(n) \in Objects => Instr(n) \in defined
    /\ \A i \in WithBody : IsCloned(i) => Lifted(i) \in defined
    /\ phase \notin {"instrs", "clone", "redirect", "declare"} /\ Runtime("addr") \in Objects =>
            Runtime("addr") \in defined
    /\ phase \in {"rename", "header", "erase", "sweep", "done"} =>
            \A n \in Linked : Runtime(n) \in Objects => Runtime(n) \in defined

Bodies ==
    /\ defined \subseteq Objects
    /\ phase \notin Failed => McallsInv /\ RegisteredInv /\ UsesInv /\ DefinedInv

-----------------------------------------------------------------------------
(* Steps that leave one of them *)

\* What else does not depend on names and steps.
LEMMA SameFns ==
    ASSUME UNCHANGED input
    PROVE  /\ (\A i : UsedBy(i)' = UsedBy(i)) /\ (\A u : OtherUse(u)' <=> OtherUse(u))
           /\ AllRegistered' = AllRegistered /\ (\A n : Symbols(n)' = Symbols(n))
           /\ MemoryInstrs' = MemoryInstrs /\ Linked' = Linked /\ (SoundInput' <=> SoundInput)
<1>1. Fns' = Fns /\ WithBody' = WithBody /\ Configured' = Configured /\ MemoryInstrs' = MemoryInstrs
      /\ Implementations' = Implementations /\ Linked' = Linked
  BY DEF Fns, WithBody, Configured, MemoryInstrs, Implementations, Linked
<1>2. \A n : Symbols(n)' = Symbols(n)
  BY DEF Symbols
<1>3. \A n : get_start_of(n)' = get_start_of(n)
  BY <1>2 DEF get_start_of
<1>4. AllRegistered' = AllRegistered
  BY <1>1, <1>3 DEF AllRegistered, Name
<1>5. SoundInput' <=> SoundInput
  BY <1>1, <1>2 DEF SoundInput, NoFirstModule, DefinedTwice, Clashing, Unsupported
<1>6. \A i : UsedBy(i)' = UsedBy(i)
  BY DEF UsedBy
<1>7. \A u : OtherUse(u)' <=> OtherUse(u)
  BY <1>1 DEF OtherUse
<1> QED
  BY <1>1, <1>2, <1>4, <1>5, <1>6, <1>7

LEMMA UsesKept ==
    ASSUME UsesInv, UNCHANGED <<input, uses, registered>>, Objects \subseteq Objects',
           \A i \in Fns : IsGenerated(i)' <=> IsGenerated(i)
    PROVE  UsesInv'
<1>1. Fns' = Fns /\ (\A i : UsedBy(i)' = UsedBy(i)) /\ (\A u : OtherUse(u)' <=> OtherUse(u))
  BY SameInput, SameFns
<1>2. \A u \in uses' : u = <<u[1], u[2]>> /\ u[1] \in Objects' /\ u[2] \in Objects'
  BY DEF UsesInv
<1>3. \A u \in uses' : u[1][1] # "lifted" => OtherUse(u)'
  BY <1>1 DEF UsesInv
<1>4. ASSUME NEW i \in Fns, NEW o
      PROVE  <<Lifted(i), o>> \in uses' <=>
                \/ IsGenerated(i)' /\ o \in UsedBy(i)'
                \/ \E r \in registered' : r[1] = Lifted(i) /\ o \in {r[3], Runtime("add")}
  BY <1>1 DEF UsesInv
<1> QED
  BY <1>1, <1>2, <1>3, <1>4 DEF UsesInv

LEMMA RegisteredKept ==
    ASSUME RegisteredInv, UNCHANGED <<input, registered>>, IsRegistered' <=> IsRegistered,
           phase' = "symtab" => input.hasSymtab
    PROVE  RegisteredInv'
<1>1. AllRegistered' = AllRegistered /\ (\A n : Symbols(n)' = Symbols(n)) /\ WithBody' = WithBody
      /\ \A i : Name(i)' = Name(i)
  BY SameInput, SameFns
<1> QED
  BY <1>1 DEF RegisteredInv

-----------------------------------------------------------------------------
(* The steps *)

LEMMA InitBodies == Init => Bodies
<1> SUFFICES ASSUME Init PROVE Bodies
  OBVIOUS
<1>1. /\ input \in Inputs /\ phase = "instrs" /\ pending = {} /\ registered = {}
      /\ mcalls = [i \in Fns |-> {}]
      /\ uses = UNION {{<<Source(i), Source(j)>> : j \in input.fns[i].irCalls} : i \in Fns}
      /\ defined = {Source(i) : i \in {j \in Fns : input.fns[j].ir}}
  BY DEF Init
<1>2. Objects = {Source(i) : i \in Fns}
  BY InitShape, <1>1 DEF Shape, ObjectsAre, Failed
<1>3. \A i \in Fns : ~IsGenerated(i) /\ ~IsCloned(i) /\ ~IsRegistered
  BY <1>1 DEF IsGenerated, IsCloned, IsRegistered, Generated
<1>4. UsesInv
  <2>1. \A u \in uses : \E i \in Fns : \E j \in input.fns[i].irCalls : u = <<Source(i), Source(j)>>
    BY <1>1
  <2>2. \A i \in Fns : input.fns[i].irCalls \subseteq Fns
    BY <1>1, InputIs
  <2>3. \A u \in uses : u = <<u[1], u[2]>> /\ u[1] \in Objects /\ u[2] \in Objects
    BY <1>2, <2>1, <2>2
  <2>4. \A i, o : <<Lifted(i), o>> \notin uses
    <3> SUFFICES ASSUME NEW i, NEW o, <<Lifted(i), o>> \in uses PROVE FALSE
      OBVIOUS
    <3>1. PICK k \in Fns : \E j \in input.fns[k].irCalls : <<Lifted(i), o>> = <<Source(k), Source(j)>>
      BY <2>1
    <3>2. Lifted(i) = Source(k)
      BY <3>1
    <3> QED
      BY <3>2, Kinds
  <2> QED
    BY <1>1, <1>3, <2>1, <2>3, <2>4 DEF UsesInv, OtherUse
<1>5. DefinedInv
  <2>1. \A n : Instr(n) \notin Objects /\ Runtime(n) \notin Objects
    BY <1>2, Kinds
  <2>2. WithBody \subseteq Fns
    BY DEF WithBody
  <2> QED
    BY <1>1, <1>3, <2>1, <2>2 DEF DefinedInv
<1>6. RegisteredInv /\ McallsInv
  BY <1>1, <1>3, InputIs DEF RegisteredInv, McallsInv
<1> QED
  BY <1>1, <1>2, <1>4, <1>5, <1>6 DEF Bodies

\* The implementations of the instructions are in the module.
LEMMA InstrsKeepBodies == ASSUME Shape, Shape', Bodies, FillModuleWithInstrs PROVE Bodies'
<1> DEFINE A == [o \in {Instr(n) : n \in Configured} |-> <<o[2]>>]
           B == [o \in {Runtime("addr") : n \in MemoryInstrs} |-> RuntimeNames["addr"]]
<1>1. /\ phase = "instrs" /\ phase' = "clone" /\ pending' = Fns
      /\ UNCHANGED <<input, mcalls, registered>>
      /\ names' = Joined(Joined(names, A), B)
      /\ defined' = defined \cup {Instr(n) : n \in Configured}
      /\ uses' = uses \cup {<<Instr(n), Runtime("addr")>> : n \in MemoryInstrs}
  BY DEF FillModuleWithInstrs
<1>2. /\ McallsInv /\ RegisteredInv /\ UsesInv /\ DefinedInv /\ defined \subseteq Objects
      /\ ObjectsAre /\ ObjectsAre'
  BY <1>1 DEF Bodies, Shape, Failed
<1>3. /\ Fns' = Fns /\ WithBody' = WithBody /\ Configured' = Configured
      /\ MemoryInstrs' = MemoryInstrs /\ (\A u : OtherUse(u)' <=> OtherUse(u))
  BY <1>1, SameInput, SameFns
<1>4. Objects \subseteq Objects' /\ \A n \in MemoryInstrs : Runtime("addr") \in Objects'
  <2>1. DOMAIN Joined(Joined(names, A), B) = DOMAIN Joined(names, A) \cup DOMAIN B
    BY JoinedIs
  <2>2. DOMAIN Joined(names, A) = DOMAIN names \cup DOMAIN A
    BY JoinedIs
  <2>3. DOMAIN B = {Runtime("addr") : n \in MemoryInstrs}
    OBVIOUS
  <2> HIDE DEF A, B
  <2>4. Objects' = (Objects \cup DOMAIN A) \cup {Runtime("addr") : n \in MemoryInstrs}
    BY <1>1, <2>1, <2>2, <2>3 DEF Objects
  <2> QED
    BY <2>4
<1> HIDE DEF A, B
<1>5. MemoryInstrs \subseteq Configured /\ \A n \in Configured : Instr(n) \in Objects'
  BY <1>1, <1>2, <1>3 DEF ObjectsAre, MemoryInstrs, Configured
<1>6. \A i \in Fns : /\ ~IsGenerated(i) /\ ~IsGenerated(i)' /\ ~IsCloned(i)'
                     /\ ~IsRegistered /\ ~IsRegistered'
  BY <1>1 DEF IsGenerated, IsCloned, IsRegistered, Generated
<1>7. UsesInv'
  <2>1. \A i, o : <<Lifted(i), o>> \in uses' <=> <<Lifted(i), o>> \in uses
    <3>1. \A i, n : Lifted(i) # Instr(n)
      BY Kinds
    <3> QED
      BY <1>1, <3>1
  <2>2. registered = {} /\ registered' = {}
    BY <1>1, <1>2, InputIs DEF RegisteredInv, IsRegistered, Generated
  <2>3. \A u \in uses' \ uses : \E n \in MemoryInstrs : u = <<Instr(n), Runtime("addr")>>
    BY <1>1
  <2>4. \A u \in uses' : u[1][1] # "lifted" => OtherUse(u)
    BY <1>2, <2>3 DEF UsesInv, OtherUse
  <2>5. \A u \in uses' : u = <<u[1], u[2]>> /\ u[1] \in Objects' /\ u[2] \in Objects'
    BY <1>2, <1>4, <1>5, <2>3 DEF UsesInv
  <2> QED
    BY <1>2, <1>3, <1>6, <2>1, <2>2, <2>4, <2>5 DEF UsesInv
<1>8. DefinedInv' /\ defined' \subseteq Objects'
  BY <1>1, <1>2, <1>3, <1>4, <1>5, <1>6 DEF DefinedInv, WithBody
<1>9. RegisteredInv'
  <2>1. ~IsRegistered /\ ~IsRegistered'
    BY <1>1 DEF IsRegistered, Generated
  <2> QED
    BY <1>1, <1>2, <2>1, RegisteredKept
<1>10. McallsInv'
  BY <1>1, <1>2, <1>3, <1>6 DEF McallsInv
<1> QED
  BY <1>7, <1>8, <1>9, <1>10 DEF Bodies

\* A clone has the calls of its machine code, still to the originals.
LEMMA ClonesKeepBodies == ASSUME Shape, Shape', Bodies, NEW i \in Fns, CloneMachineFunction(i) PROVE Bodies'
<1> DEFINE R == Renamed(Source(i), names[Source(i)] \o <<".old">>)
           C == [o \in {Lifted(i)} |-> names[Source(i)]]
<1>1. /\ phase = "clone" /\ i \in pending /\ UNCHANGED <<input, uses, registered>>
      /\ names' = Joined(R, C) /\ Step(i, "redirect", {})
      /\ defined' = IF i \in WithBody THEN defined \cup {Lifted(i)} ELSE defined
      /\ mcalls' = [mcalls EXCEPT ![i] = {Source(j) : j \in input.fns[i].calls}]
  BY DEF CloneMachineFunction
<1>2. /\ McallsInv /\ RegisteredInv /\ UsesInv /\ DefinedInv /\ defined \subseteq Objects
      /\ ObjectsAre /\ input \in Inputs
  BY <1>1 DEF Bodies, Shape, Typed, Failed
<1>3. /\ Fns' = Fns /\ WithBody' = WithBody /\ Configured' = Configured
      /\ MemoryInstrs' = MemoryInstrs
  BY <1>1, SameInput, SameFns
<1>4. \/ phase' = "redirect" /\ pending' = {} /\ pending = {i}
      \/ phase' = "clone" /\ pending' = pending \ {i}
  BY <1>1, StepIs
<1>5. Objects' = Objects \cup {Lifted(i)}
  <2>1. DOMAIN R = Objects
    BY DEF Renamed, Objects
  <2>2. DOMAIN C = {Lifted(i)}
    OBVIOUS
  <2>3. DOMAIN Joined(R, C) = DOMAIN R \cup DOMAIN C
    BY JoinedIs
  <2> HIDE DEF R, C
  <2> QED
    BY <1>1, <2>1, <2>2, <2>3 DEF Objects
<1> HIDE DEF R, C
<1>6. \A j \in Fns : /\ ~IsGenerated(j) /\ ~IsGenerated(j)'
                     /\ IsCloned(j)' <=> IsCloned(j) \/ j = i
  BY <1>1, <1>4 DEF IsCloned, IsGenerated, Generated
<1>7. UsesInv'
  <2>1. Objects \subseteq Objects'
    BY <1>5
  <2>2. UNCHANGED <<input, uses, registered>>
    BY <1>1
  <2>3. \A j \in Fns : IsGenerated(j)' <=> IsGenerated(j)
    BY <1>6
  <2> QED
    BY <1>2, <2>1, <2>2, <2>3, UsesKept
<1>8. RegisteredInv'
  <2>1. ~IsRegistered /\ ~IsRegistered'
    BY <1>1, <1>4 DEF IsRegistered, Generated
  <2> QED
    BY <1>1, <1>2, <1>4, <2>1, RegisteredKept
<1>9. McallsInv'
  <2>1. DOMAIN mcalls' = Fns /\ mcalls'[i] = {Source(j) : j \in input.fns[i].calls}
        /\ \A k \in Fns \ {i} : mcalls'[k] = mcalls[k]
    BY <1>1, <1>2 DEF McallsInv
  <2>2. \A k \in Fns \ {i} : IsCloned(k) => mcalls[k] = {Source(j) : j \in input.fns[k].calls}
    BY <1>1, <1>2 DEF McallsInv
  <2>3. phase' \notin {"declare", "generate"}
    BY <1>1, <1>4
  <2>4. \A k \in Fns : IsCloned(k)' => mcalls'[k] = {Source(j) : j \in input.fns[k].calls}
    BY <1>6, <2>1, <2>2
  <2> QED
    BY <1>1, <1>3, <2>1, <2>3, <2>4 DEF McallsInv
<1>10. DefinedInv'
  <2>1. /\ \A n : Instr(n) \in Objects' => Instr(n) \in Objects
        /\ phase' \in {"clone", "redirect"} /\ defined \subseteq defined'
    BY <1>1, <1>4, <1>5, Kinds
  <2>2. \A n \in Configured : Instr(n) \in Objects' => Instr(n) \in defined'
    BY <1>2, <2>1 DEF DefinedInv
  <2>3. \A j \in WithBody : IsCloned(j)' => Lifted(j) \in defined'
    <3>1. WithBody \subseteq Fns /\ \A j \in WithBody : IsCloned(j) => Lifted(j) \in defined
      BY <1>2 DEF WithBody, DefinedInv
    <3> QED
      BY <1>1, <1>6, <3>1
  <2> QED
    BY <1>3, <2>1, <2>2, <2>3 DEF DefinedInv
<1>11. defined' \subseteq Objects'
  BY <1>1, <1>2, <1>5
<1> QED
  BY <1>7, <1>8, <1>9, <1>10, <1>11 DEF Bodies

\* The calls go to the clones.
LEMMA RedirectKeepsBodies == ASSUME Shape, Shape', Bodies, RedirectCalls PROVE Bodies'
<1>1. /\ phase = "redirect" /\ phase' = "declare"
      /\ UNCHANGED <<input, uses, registered, names, defined>>
      /\ mcalls' = [i \in Fns |-> Redirected(mcalls[i])]
  BY DEF RedirectCalls
<1>2. /\ McallsInv /\ RegisteredInv /\ UsesInv /\ DefinedInv /\ defined \subseteq Objects
  BY <1>1 DEF Bodies, Failed
<1>3. /\ Fns' = Fns /\ WithBody' = WithBody /\ Configured' = Configured /\ Objects' = Objects
  BY <1>1, SameInput DEF Objects
<1>4. \A j \in Fns : ~IsGenerated(j) /\ ~IsGenerated(j)' /\ IsCloned(j) /\ IsCloned(j)'
  BY <1>1 DEF IsCloned, IsGenerated, Generated
<1>5. UsesInv'
  BY <1>1, <1>2, <1>3, <1>4, UsesKept
<1>6. RegisteredInv'
  <2>1. ~IsRegistered /\ ~IsRegistered'
    BY <1>1 DEF IsRegistered, Generated
  <2> QED
    BY <1>1, <1>2, <2>1, RegisteredKept
<1>7. McallsInv'
  <2>1. ASSUME NEW i \in Fns PROVE mcalls'[i] = {Lifted(j) : j \in input.fns[i].calls}
    <3>1. mcalls[i] = {Source(j) : j \in input.fns[i].calls}
      BY <1>1, <1>2, <1>4 DEF McallsInv
    <3>2. mcalls'[i] = {Lifted(o[2]) : o \in {Source(j) : j \in input.fns[i].calls}}
      BY <1>1, <3>1 DEF Redirected
    <3> QED
      BY <3>2, Kinds
  <2> QED
    BY <1>1, <1>3, <2>1 DEF McallsInv
<1>8. DefinedInv'
  <2>1. WithBody \subseteq Fns
    BY DEF WithBody
  <2> QED
    BY <1>1, <1>2, <1>3, <1>4, <2>1 DEF DefinedInv
<1> QED
  BY <1>1, <1>2, <1>3, <1>5, <1>6, <1>7, <1>8 DEF Bodies

\* The runtime functions come, one of them with a body.
LEMMA RuntimeKeepsBodies == ASSUME Shape, Shape', Bodies, DeclareRuntime PROVE Bodies'
<1> DEFINE R == [o \in {Runtime(n) : n \in DOMAIN RuntimeNames} |-> RuntimeNames[o[2]]]
<1>1. /\ phase = "declare" /\ phase' = "generate" /\ pending' = Fns
      /\ UNCHANGED <<input, mcalls, registered>>
      /\ names' = Joined(names, R)
      /\ defined' = defined \cup {Runtime("addr")}
      /\ uses' = uses \cup {<<Runtime("addr"), Runtime("impl")>>}
  BY DEF DeclareRuntime
<1>2. /\ McallsInv /\ RegisteredInv /\ UsesInv /\ DefinedInv /\ defined \subseteq Objects
      /\ ObjectsAre /\ ObjectsAre'
  BY <1>1 DEF Bodies, Shape, Failed
<1>3. /\ Fns' = Fns /\ WithBody' = WithBody /\ Configured' = Configured
      /\ MemoryInstrs' = MemoryInstrs /\ (\A u : OtherUse(u)' <=> OtherUse(u))
  BY <1>1, SameInput, SameFns
<1>4. Objects' = Objects \cup {Runtime(n) : n \in DOMAIN RuntimeNames}
  <2>1. DOMAIN Joined(names, R) = DOMAIN names \cup DOMAIN R
    BY JoinedIs
  <2>2. DOMAIN R = {Runtime(n) : n \in DOMAIN RuntimeNames}
    OBVIOUS
  <2> HIDE DEF R
  <2> QED
    BY <1>1, <2>1, <2>2 DEF Objects
<1> HIDE DEF R
<1>5. Runtime("addr") \in Objects' /\ Runtime("impl") \in Objects'
  BY <1>4 DEF RuntimeNames
<1>6. \A j \in Fns : ~IsGenerated(j) /\ ~IsGenerated(j)' /\ IsCloned(j) /\ IsCloned(j)'
  BY <1>1 DEF IsGenerated, IsCloned, Generated
<1>7. ~IsRegistered /\ ~IsRegistered' /\ registered = {} /\ registered' = {}
  BY <1>1, <1>2 DEF RegisteredInv, IsRegistered, Generated
<1>8. UsesInv'
  <2>1. \A j, o : <<Lifted(j), o>> \in uses' <=> <<Lifted(j), o>> \in uses
    <3>1. \A j, n : Lifted(j) # Runtime(n)
      BY Kinds
    <3> QED
      BY <1>1, <3>1
  <2>2. \A u \in uses' : u[1][1] # "lifted" => OtherUse(u)
    BY <1>1, <1>2 DEF UsesInv, OtherUse
  <2>3. \A u \in uses' : u = <<u[1], u[2]>> /\ u[1] \in Objects' /\ u[2] \in Objects'
    BY <1>1, <1>2, <1>4, <1>5 DEF UsesInv
  <2> QED
    BY <1>2, <1>3, <1>6, <1>7, <2>1, <2>2, <2>3 DEF UsesInv
<1>9. RegisteredInv'
  BY <1>1, <1>2, <1>7, RegisteredKept
<1>10. McallsInv'
  <2>1. \A j : {Lifted(k) : k \in input.fns[j].calls}' = {Lifted(k) : k \in input.fns[j].calls}
    BY <1>1
  <2> QED
    BY <1>1, <1>2, <1>3 DEF McallsInv
<1>11. DefinedInv'
  <2>1. \A n : Instr(n) \in Objects' => Instr(n) \in Objects
    BY <1>4, Kinds
  <2>2. WithBody \subseteq Fns
    BY DEF WithBody
  <2> QED
    BY <1>1, <1>2, <1>3, <1>6, <2>1, <2>2 DEF DefinedInv
<1>12. defined' \subseteq Objects'
  BY <1>1, <1>2, <1>4, <1>5
<1> QED
  BY <1>8, <1>9, <1>10, <1>11, <1>12 DEF Bodies

\* A body uses the clones it calls, the instructions, and the lookup.
LEMMA GenerateKeepsBodies == ASSUME Shape, Shape', Bodies, NEW i \in Fns, GenerateFunction(i) PROVE Bodies'
<1>1. /\ phase = "generate" /\ i \in pending /\ ~Unsupported(i)
      /\ UNCHANGED <<input, names, defined, mcalls, registered>>
      /\ uses' = uses \cup {<<Lifted(i), o>> : o \in
                    mcalls[i] \cup {Instr(n) : n \in input.fns[i].instrs}
                    \cup (IF input.fns[i].indirect THEN {Runtime("lookup")} ELSE {})}
      /\ Step(i, IF input.hasSymtab THEN "symtab" ELSE "link", {})
  BY DEF GenerateFunction
<1>2. /\ McallsInv /\ RegisteredInv /\ UsesInv /\ DefinedInv /\ defined \subseteq Objects
      /\ ObjectsAre /\ input \in Inputs
  BY <1>1 DEF Bodies, Shape, Typed, Failed
<1>3. /\ Fns' = Fns /\ WithBody' = WithBody /\ Configured' = Configured /\ Objects' = Objects
      /\ (\A u : OtherUse(u)' <=> OtherUse(u)) /\ (\A j : UsedBy(j)' = UsedBy(j))
  BY <1>1, SameInput, SameFns DEF Objects
<1>4. \/ phase' = (IF input.hasSymtab THEN "symtab" ELSE "link") /\ pending' = {} /\ pending = {i}
      \/ phase' = "generate" /\ pending' = pending \ {i}
  BY <1>1, StepIs
<1>5. \A j \in Fns : IsCloned(j) /\ IsCloned(j)' /\ (IsGenerated(j)' <=> IsGenerated(j) \/ j = i)
  <2>1. phase' \in Generated \/ phase' = "generate"
    BY <1>4 DEF Generated
  <2> QED
    BY <1>1, <1>4, <2>1 DEF IsCloned, IsGenerated, Generated
<1>6. ~IsRegistered /\ ~IsRegistered' /\ registered = {} /\ registered' = {}
  BY <1>1, <1>2, <1>4 DEF RegisteredInv, IsRegistered, Generated
<1>7. uses' = uses \cup {<<Lifted(i), o>> : o \in UsedBy(i)}
  <2>1. mcalls[i] = {Lifted(j) : j \in input.fns[i].calls}
    BY <1>1, <1>2 DEF McallsInv
  <2> QED
    BY <1>1, <2>1 DEF UsedBy
<1>8. UsedBy(i) \subseteq Objects /\ Lifted(i) \in Objects
  <2>1. \A j \in input.fns[i].calls : Lifted(j) \in Objects
    BY <1>2, <1>5, InputIs DEF ObjectsAre
  <2>2. \A n \in input.fns[i].instrs : Instr(n) \in Objects
    BY <1>1, <1>2 DEF ObjectsAre, Unsupported
  <2>3. Runtime("lookup") \in Objects
    BY <1>1, <1>2 DEF ObjectsAre, RuntimeNames
  <2> QED
    BY <1>2, <1>5, <2>1, <2>2, <2>3 DEF UsedBy, ObjectsAre
<1>9. UsesInv'
  <2>1. ASSUME NEW j \in Fns, NEW o
        PROVE  <<Lifted(j), o>> \in uses' <=> IsGenerated(j)' /\ o \in UsedBy(j)
    <3>1. <<Lifted(j), o>> \in uses <=> IsGenerated(j) /\ o \in UsedBy(j)
      BY <1>2, <1>6 DEF UsesInv
    <3>2. Lifted(j) = Lifted(i) <=> j = i
      BY Kinds
    <3> QED
      BY <1>5, <1>7, <3>1, <3>2
  <2>2. ASSUME NEW u \in uses', u[1][1] # "lifted" PROVE OtherUse(u)
    <3>1. u \in uses
      BY <1>7, <2>2, Kinds
    <3> QED
      BY <1>2, <2>2, <3>1 DEF UsesInv
  <2>3. \A u \in uses' : u = <<u[1], u[2]>> /\ u[1] \in Objects' /\ u[2] \in Objects'
    BY <1>2, <1>3, <1>7, <1>8 DEF UsesInv
  <2> QED
    BY <1>3, <1>6, <2>1, <2>2, <2>3 DEF UsesInv
<1>10. RegisteredInv'
  BY <1>1, <1>2, <1>4, <1>6, RegisteredKept
<1>11. McallsInv'
  BY <1>1, <1>2, <1>3, <1>4 DEF McallsInv
<1>12. DefinedInv'
  <2>1. phase' \notin {"rename", "header", "erase", "sweep", "done"}
    BY <1>4
  <2>2. WithBody \subseteq Fns
    BY DEF WithBody
  <2> QED
    BY <1>1, <1>2, <1>3, <1>5, <2>1, <2>2 DEF DefinedInv
<1> QED
  BY <1>1, <1>2, <1>3, <1>9, <1>10, <1>11, <1>12 DEF Bodies

\* Every body registers every function under its address in the table.
LEMMA SymtabKeepsBodies == ASSUME Shape, Shape', Bodies, FillSymtab PROVE Bodies'
<1>1. /\ phase = "symtab" /\ phase' = "link"
      /\ \A i \in WithBody : Symbols(names[Lifted(i)]) # {}
      /\ registered' = Registrations
      /\ uses' = uses \cup {<<r[1], Runtime("add")>> : r \in Registrations}
                      \cup {<<r[1], r[3]>> : r \in Registrations}
      /\ UNCHANGED <<input, pending, names, defined, mcalls>>
  BY DEF FillSymtab
<1>2. /\ McallsInv /\ RegisteredInv /\ UsesInv /\ DefinedInv /\ defined \subseteq Objects
      /\ ObjectsAre /\ NamesAre
  BY <1>1 DEF Bodies, Shape, Failed
<1>3. /\ Fns' = Fns /\ WithBody' = WithBody /\ Configured' = Configured /\ Objects' = Objects
      /\ (\A u : OtherUse(u)' <=> OtherUse(u)) /\ (\A j : UsedBy(j)' = UsedBy(j))
      /\ AllRegistered' = AllRegistered /\ (\A n : Symbols(n)' = Symbols(n))
      /\ \A j : Name(j)' = Name(j)
  BY <1>1, SameInput, SameFns DEF Objects
<1>4. /\ WithBody \subseteq Fns
      /\ \A j \in Fns : /\ IsCloned(j) /\ IsCloned(j)' /\ IsGenerated(j) /\ IsGenerated(j)'
                        /\ ~IsRenamed(j) /\ Lifted(j) \in Objects /\ names[Lifted(j)] = Name(j)
  <2>1. \A j \in Fns : /\ IsCloned(j) /\ IsCloned(j)' /\ IsGenerated(j) /\ IsGenerated(j)'
                       /\ ~IsRenamed(j)
    BY <1>1 DEF IsCloned, IsGenerated, IsRenamed, Generated
  <2> QED
    BY <1>2, <2>1 DEF ObjectsAre, NamesAre, WithBody
<1>5. Registrations = AllRegistered
  BY <1>4 DEF Registrations, AllRegistered
<1>6. input.hasSymtab => IsRegistered'
  BY <1>1 DEF IsRegistered, Generated
<1>7. registered = {} /\ Runtime("add") \in Objects
  BY <1>1, <1>2 DEF RegisteredInv, IsRegistered, ObjectsAre, RuntimeNames
<1>8. \A r \in AllRegistered : \E i, j \in Fns : r[1] = Lifted(i) /\ r[3] = Lifted(j)
  BY <1>4 DEF AllRegistered
<1>9. UsesInv'
  <2>1. ASSUME NEW i \in Fns, NEW o
        PROVE  <<Lifted(i), o>> \in uses' <=>
                    \/ IsGenerated(i)' /\ o \in UsedBy(i)
                    \/ \E r \in registered' : r[1] = Lifted(i) /\ o \in {r[3], Runtime("add")}
    <3>1. <<Lifted(i), o>> \in uses <=> o \in UsedBy(i)
      BY <1>2, <1>4, <1>7 DEF UsesInv
    <3>2. <<Lifted(i), o>> \in {<<r[1], Runtime("add")>> : r \in AllRegistered} <=>
            \E r \in AllRegistered : r[1] = Lifted(i) /\ o = Runtime("add")
      OBVIOUS
    <3>3. <<Lifted(i), o>> \in {<<r[1], r[3]>> : r \in AllRegistered} <=>
            \E r \in AllRegistered : r[1] = Lifted(i) /\ o = r[3]
      OBVIOUS
    <3>4. <<Lifted(i), o>> \in uses' <=>
            \/ <<Lifted(i), o>> \in uses
            \/ <<Lifted(i), o>> \in {<<r[1], Runtime("add")>> : r \in AllRegistered}
            \/ <<Lifted(i), o>> \in {<<r[1], r[3]>> : r \in AllRegistered}
      BY <1>1, <1>5
    <3>5. (\E r \in registered' : r[1] = Lifted(i) /\ o \in {r[3], Runtime("add")}) <=>
            \/ \E r \in AllRegistered : r[1] = Lifted(i) /\ o = Runtime("add")
            \/ \E r \in AllRegistered : r[1] = Lifted(i) /\ o = r[3]
      BY <1>1, <1>5
    <3> QED
      BY <1>4, <3>1, <3>2, <3>3, <3>4, <3>5
  <2>2. \A u \in uses' \ uses : \E i, j \in Fns :
            u[1] = Lifted(i) /\ u[2] \in {Lifted(j), Runtime("add")} /\ u = <<u[1], u[2]>>
    BY <1>1, <1>5, <1>8
  <2>3. ASSUME NEW u \in uses', u[1][1] # "lifted" PROVE OtherUse(u)
    <3>1. u \in uses
      BY <2>2, <2>3, Kinds
    <3> QED
      BY <1>2, <2>3, <3>1 DEF UsesInv
  <2>4. \A u \in uses' : u = <<u[1], u[2]>> /\ u[1] \in Objects' /\ u[2] \in Objects'
    BY <1>2, <1>3, <1>4, <1>7, <2>2 DEF UsesInv
  <2> QED
    BY <1>3, <2>1, <2>3, <2>4 DEF UsesInv
<1>10. RegisteredInv'
  <2>1. input.hasSymtab
    BY <1>1, <1>2 DEF RegisteredInv
  <2>2. \A i \in WithBody : Symbols(Name(i)) # {}
    BY <1>1, <1>4
  <2>3. (\A i \in WithBody : Symbols(Name(i)) # {})' <=> \A i \in WithBody : Symbols(Name(i)) # {}
    BY <1>1, <1>3 DEF Symbols, Name
  <2> QED
    BY <1>1, <1>3, <1>5, <1>6, <2>1, <2>2, <2>3 DEF RegisteredInv
<1>11. McallsInv'
  BY <1>1, <1>2, <1>3 DEF McallsInv
<1>12. DefinedInv'
  BY <1>1, <1>2, <1>3, <1>4 DEF DefinedInv
<1> QED
  BY <1>1, <1>2, <1>3, <1>9, <1>10, <1>11, <1>12 DEF Bodies

\* The runtime is linked.
LEMMA LinkKeepsBodies == ASSUME Shape, Shape', Bodies, LinkRuntime PROVE Bodies'
<1>1. /\ phase = "link" /\ phase' = "rename" /\ pending' = Fns
      /\ defined' = defined \cup {Runtime(n) : n \in Linked}
      /\ UNCHANGED <<input, names, uses, mcalls, registered>>
  BY DEF LinkRuntime
<1>2. /\ McallsInv /\ RegisteredInv /\ UsesInv /\ DefinedInv /\ defined \subseteq Objects
      /\ ObjectsAre
  BY <1>1 DEF Bodies, Shape, Failed
<1>3. /\ Fns' = Fns /\ WithBody' = WithBody /\ Configured' = Configured /\ Objects' = Objects
      /\ Linked' = Linked
  BY <1>1, SameInput, SameFns DEF Objects
<1>4. \A j \in Fns : IsCloned(j) /\ IsCloned(j)' /\ IsGenerated(j) /\ IsGenerated(j)'
  BY <1>1 DEF IsCloned, IsGenerated, Generated
<1>5. \A n \in Linked : Runtime(n) \in Objects
  BY <1>1, <1>2 DEF ObjectsAre, Linked, RuntimeNames
<1>6. UsesInv'
  BY <1>1, <1>2, <1>3, <1>4, UsesKept
<1>7. RegisteredInv'
  <2>1. IsRegistered' <=> IsRegistered
    BY <1>1 DEF IsRegistered, Generated
  <2> QED
    BY <1>1, <1>2, <2>1, RegisteredKept
<1>8. McallsInv'
  BY <1>1, <1>2, <1>3 DEF McallsInv
<1>9. DefinedInv'
  <2>1. WithBody \subseteq Fns
    BY DEF WithBody
  <2> QED
    BY <1>1, <1>2, <1>3, <1>4, <2>1 DEF DefinedInv
<1> QED
  BY <1>1, <1>2, <1>3, <1>5, <1>6, <1>7, <1>8, <1>9 DEF Bodies

\* Names and the header do not concern the bodies.
LEMMA NamingKeepsBodies ==
    ASSUME Shape, Shape', Bodies, NEW i \in Fns, RenameFunction(i) \/ WriteHeader
    PROVE  Bodies'
<1>1. /\ phase \in {"rename", "header"} /\ phase' \in {"rename", "header", "erase"}
      /\ UNCHANGED <<input, defined, uses, mcalls, registered>>
  BY DEF RenameFunction, WriteHeader, Step
<1>2. /\ McallsInv /\ RegisteredInv /\ UsesInv /\ DefinedInv /\ defined \subseteq Objects
  BY <1>1 DEF Bodies, Shape, Failed
<1>3. Objects' = Objects
  BY DEF RenameFunction, WriteHeader, Renamed, Objects
<1>4. /\ Fns' = Fns /\ WithBody' = WithBody /\ Configured' = Configured /\ Linked' = Linked
  BY <1>1, SameInput, SameFns
<1>5. \A j \in Fns : IsCloned(j) /\ IsCloned(j)' /\ IsGenerated(j) /\ IsGenerated(j)'
  BY <1>1 DEF IsCloned, IsGenerated, Generated
<1>6. UsesInv'
  BY <1>1, <1>2, <1>3, <1>5, UsesKept
<1>7. RegisteredInv'
  <2>1. IsRegistered' <=> IsRegistered
    BY <1>1 DEF IsRegistered, Generated
  <2> QED
    BY <1>1, <1>2, <2>1, RegisteredKept
<1>8. McallsInv'
  BY <1>1, <1>2, <1>4 DEF McallsInv
<1>9. DefinedInv'
  <2>1. WithBody \subseteq Fns
    BY DEF WithBody
  <2> QED
    BY <1>1, <1>2, <1>3, <1>4, <1>5, <2>1 DEF DefinedInv
<1> QED
  BY <1>1, <1>2, <1>3, <1>6, <1>7, <1>8, <1>9 DEF Bodies

\* Functions that go are used by nobody that stays.
LEMMA GoneKeepsBodies ==
    ASSUME Shape, Shape', Bodies, NEW gone \in SUBSET Objects, Without(gone),
           phase \in {"erase", "sweep"}, phase' \in {"erase", "sweep", "done"},
           UNCHANGED <<input, mcalls, registered>>,
           \A o \in gone : o[1] # "lifted" /\ Users(o) \subseteq gone
    PROVE  Bodies'
<1>1. /\ names' = [o \in Objects \ gone |-> names[o]]
      /\ defined' = defined \ gone
      /\ uses' = {u \in uses : u[1] \notin gone}
  BY DEF Without
<1>2. /\ McallsInv /\ RegisteredInv /\ UsesInv /\ DefinedInv /\ defined \subseteq Objects
  BY DEF Bodies, Failed
<1>3. Objects' = Objects \ gone
  BY <1>1 DEF Objects
<1>4. /\ Fns' = Fns /\ WithBody' = WithBody /\ Configured' = Configured /\ Linked' = Linked
      /\ (\A u : OtherUse(u)' <=> OtherUse(u)) /\ (\A j : UsedBy(j)' = UsedBy(j))
  BY SameInput, SameFns
<1>5. \A j \in Fns : IsCloned(j) /\ IsCloned(j)' /\ IsGenerated(j) /\ IsGenerated(j)'
  BY DEF IsCloned, IsGenerated, Generated
<1>6. \A j : Lifted(j) \notin gone
  BY Kinds
<1>7. UsesInv'
  <2>1. \A j, o : <<Lifted(j), o>> \in uses' <=> <<Lifted(j), o>> \in uses
    BY <1>1, <1>6
  <2>2. ASSUME NEW u \in uses' PROVE u = <<u[1], u[2]>> /\ u[1] \in Objects' /\ u[2] \in Objects'
    <3>1. /\ u \in uses /\ u[1] \notin gone
          /\ u = <<u[1], u[2]>> /\ u[1] \in Objects /\ u[2] \in Objects
      BY <1>1, <1>2 DEF UsesInv
    <3>2. u[1] \in Users(u[2])
      BY <3>1 DEF Users
    <3>3. u[2] \notin gone
      BY <3>1, <3>2
    <3> QED
      BY <1>3, <3>1, <3>3
  <2>3. \A u \in uses' : u[1][1] # "lifted" => OtherUse(u)
    BY <1>1, <1>2 DEF UsesInv
  <2> QED
    BY <1>2, <1>4, <1>5, <2>1, <2>2, <2>3 DEF UsesInv
<1>8. RegisteredInv'
  <2>1. IsRegistered' <=> IsRegistered
    BY DEF IsRegistered, Generated
  <2> QED
    BY <1>2, <2>1, RegisteredKept
<1>9. McallsInv'
  BY <1>2, <1>4 DEF McallsInv
<1>10. DefinedInv'
  <2>1. WithBody \subseteq Fns
    BY DEF WithBody
  <2> QED
    BY <1>1, <1>2, <1>3, <1>4, <1>5, <1>6, <2>1 DEF DefinedInv
<1> QED
  BY <1>1, <1>2, <1>3, <1>7, <1>8, <1>9, <1>10 DEF Bodies

\* One step per action.
LEMMA NextBodies == Shape /\ Shape' /\ Bodies /\ [Next]_vars => Bodies'
<1> SUFFICES ASSUME Shape, Shape', Bodies, [Next]_vars PROVE Bodies'
  OBVIOUS
<1>1. CASE \/ NoImplementations \/ LinkError \/ ReplacesFunction \/ NoSymbol \/ HeaderNotWritable
           \/ \E i \in Fns : NoTranslation(i) \/ NoStackPointer(i) \/ NoInstruction(i) \/ ErasesUsed(i)
  <2>1. phase' \in Failed /\ UNCHANGED <<names, defined>>
    BY <1>1 DEF NoImplementations, LinkError, ReplacesFunction, NoSymbol, HeaderNotWritable,
                NoTranslation, NoStackPointer, NoInstruction, ErasesUsed, Stops, Failed
  <2> QED
    BY <2>1 DEF Bodies, Objects
<1>2. CASE FillModuleWithInstrs
  BY <1>2, InstrsKeepBodies
<1>3. ASSUME NEW i \in Fns, CloneMachineFunction(i) PROVE Bodies'
  BY <1>3, ClonesKeepBodies
<1>4. CASE RedirectCalls
  BY <1>4, RedirectKeepsBodies
<1>5. CASE DeclareRuntime
  BY <1>5, RuntimeKeepsBodies
<1>6. ASSUME NEW i \in Fns, GenerateFunction(i) PROVE Bodies'
  BY <1>6, GenerateKeepsBodies
<1>7. CASE FillSymtab
  BY <1>7, SymtabKeepsBodies
<1>8. CASE LinkRuntime
  BY <1>8, LinkKeepsBodies
<1>9. ASSUME NEW i \in Fns, RenameFunction(i) PROVE Bodies'
  BY <1>9, NamingKeepsBodies
<1>10. CASE WriteHeader
  <2>1. \E i : i \in Fns
    BY InputIs DEF Shape, Typed
  <2> QED
    BY <1>10, <2>1, NamingKeepsBodies
<1>11. ASSUME NEW i \in Fns, EraseOriginal(i) PROVE Bodies'
  <2>1. /\ phase = "erase" /\ i \in pending /\ Users(Source(i)) \subseteq {Source(i)}
        /\ Without({Source(i)}) /\ Step(i, "sweep", {})
        /\ UNCHANGED <<input, mcalls, registered>>
    BY <1>11 DEF EraseOriginal
  <2>2. {Source(i)} \in SUBSET Objects
    BY <2>1 DEF Shape, ObjectsAre, HasOriginal, Failed
  <2>3. phase' \in {"erase", "sweep", "done"}
    BY <2>1, StepIs
  <2> QED
    BY <2>1, <2>2, <2>3, Kinds, GoneKeepsBodies
<1>12. CASE Sweep
  <2>1. phase = "sweep" /\ phase' = "done" /\ Without(Unused) /\ UNCHANGED <<input, mcalls, registered>>
    BY <1>12 DEF Sweep
  <2>2. Unused \in SUBSET Objects /\ \A o \in Unused : o[1] # "lifted" /\ Users(o) \subseteq Unused
    BY DEF Unused
  <2> QED
    BY <2>1, <2>2, GoneKeepsBodies
<1>13. CASE UNCHANGED vars
  <2>1. UNCHANGED <<input, phase, pending, names, defined, uses, mcalls, registered>>
    BY <1>13 DEF vars
  <2>2. /\ Fns' = Fns /\ WithBody' = WithBody /\ Configured' = Configured /\ Linked' = Linked
        /\ Objects' = Objects
    BY <2>1, SameInput, SameFns DEF Objects
  <2>3. /\ IsRegistered' <=> IsRegistered
        /\ \A i : (IsGenerated(i)' <=> IsGenerated(i)) /\ (IsCloned(i)' <=> IsCloned(i))
    BY <2>1 DEF IsRegistered, IsGenerated, IsCloned
  <2>4. UsesInv => UsesInv'
    BY <2>1, <2>2, <2>3, UsesKept
  <2>5. RegisteredInv => RegisteredInv'
    <3>1. RegisteredInv => (phase' = "symtab" => input.hasSymtab)
      BY <2>1 DEF RegisteredInv
    <3> QED
      BY <2>1, <2>3, <3>1, RegisteredKept
  <2>6. McallsInv => McallsInv'
    BY <2>1, <2>2, <2>3 DEF McallsInv
  <2>7. DefinedInv => DefinedInv'
    BY <2>1, <2>2, <2>3 DEF DefinedInv
  <2> QED
    BY <2>1, <2>2, <2>4, <2>5, <2>6, <2>7 DEF Bodies
<1> QED
  BY <1>1, <1>2, <1>3, <1>4, <1>5, <1>6, <1>7, <1>8, <1>9, <1>10, <1>11, <1>12, <1>13 DEF Next

-----------------------------------------------------------------------------
(* What holds of every module *)

LEMMA BodiesHold == Spec => [](NameInv /\ Bodies)
<1>1. NameInv => Shape
  BY DEF NameInv
<1>2. NameInv /\ NameInv' /\ Bodies /\ [Next]_vars => Bodies'
  BY NextBodies DEF NameInv
<1>3. Spec => []NameInv
  BY NamesHold
<1> QED
  BY <1>2, <1>3, InitBodies, PTL DEF Spec

\* Names stay apart, only functions of the module have bodies, nothing that is
\* still used is erased (line 1405), and what is declared in the header is a
\* name of the module.
THEOREM BleachTypeOK == Spec => []TypeOK
<1>1. NameInv /\ Bodies => TypeOK
  <2> SUFFICES ASSUME NameInv, Bodies PROVE TypeOK
    OBVIOUS
  <2>1. /\ Typed /\ NamesDiffer /\ HeaderInv /\ GivenInv /\ defined \subseteq Objects
        /\ phase \notin Failed => UsesInv
    BY DEF NameInv, Shape, Bodies
  <2>2. header \subseteq Range(names)
    BY <2>1 DEF HeaderInv, Range, Objects
  <2> QED
    BY <2>1, <2>2 DEF TypeOK, Typed, Phases, NamesDiffer, GivenInv, UsesInv
<1> QED
  BY <1>1, BodiesHold, PTL

\* A machine call of a lifted function is lifted to a call of the clone of its
\* callee and never to a function of the input; a lifted function uses other
\* lifted functions only to call or to register them (line 1334).
THEOREM LiftedCallLifted == Spec => []CallsReachLifted
<1>1. NameInv /\ Bodies => CallsReachLifted
  <2> SUFFICES ASSUME NameInv, Bodies, phase \in Generated, NEW i \in Fns
               PROVE  {u[2] : u \in {v \in uses : v[1] = Lifted(i) /\ v[2][1] \in {"source", "lifted"}}}
                        = {Lifted(j) : j \in input.fns[i].calls}
                            \cup {v[3] : v \in {w \in registered : w[1] = Lifted(i)}}
    BY DEF CallsReachLifted
  <2> DEFINE U == {o : o \in {u[2] : u \in {v \in uses : v[1] = Lifted(i) /\ v[2][1] \in {"source", "lifted"}}}}
             V == {Lifted(j) : j \in input.fns[i].calls}
                    \cup {v[3] : v \in {w \in registered : w[1] = Lifted(i)}}
  <2>1. UsesInv /\ RegisteredInv /\ IsGenerated(i)
    BY DEF Bodies, Failed, Generated, IsGenerated
  <2>2. \A o : o \in U <=> <<Lifted(i), o>> \in uses /\ o[1] \in {"source", "lifted"}
    <3>1. \A u \in uses : u = <<u[1], u[2]>>
      BY <2>1 DEF UsesInv
    <3> QED
      BY <3>1
  <2>3. \A o : <<Lifted(i), o>> \in uses <=>
            \/ o \in UsedBy(i)
            \/ \E r \in registered : r[1] = Lifted(i) /\ o \in {r[3], Runtime("add")}
    BY <2>1 DEF UsesInv
  <2>4. \A r \in registered : \E j : r[3] = Lifted(j)
    BY <2>1 DEF RegisteredInv, AllRegistered
  <2>5. ASSUME NEW o \in U PROVE o \in V
    <3>1. o[1] \in {"source", "lifted"} /\ <<Lifted(i), o>> \in uses
      BY <2>2
    <3> QED
      BY <2>3, <3>1, Kinds DEF UsedBy
  <2>6. ASSUME NEW o \in V PROVE o \in U
    <3>1. \E j : o = Lifted(j)
      BY <2>4
    <3>2. <<Lifted(i), o>> \in uses
      BY <2>3 DEF UsedBy
    <3> QED
      BY <2>2, <3>1, <3>2, Kinds
  <2>7. U = V
    BY <2>5, <2>6
  <2> QED
    BY <2>7
<1> QED
  BY <1>1, BodiesHold, PTL

\* With the table that was written for the program, every lifted function with
\* a body registers all of them, each at its own address (line 308).
THEOREM RegistersOwnAddresses == Spec => []SymtabExact
<1>1. NameInv /\ Bodies => SymtabExact
  <2> SUFFICES ASSUME NameInv, Bodies, phase \in Generated \ {"symtab"}, input.hasSymtab,
                      input.symtab = [i \in Fns |-> [name |-> input.fns[i].symbol,
                                                     start |-> input.fns[i].start]],
                      \A i \in WithBody : Clear(i)
               PROVE  registered = {<<Lifted(i), input.fns[j].start, Lifted(j)>> :
                                        i \in WithBody, j \in WithBody}
    BY DEF SymtabExact
  <2>1. /\ input \in Inputs /\ registered = AllRegistered
        /\ \A j \in WithBody : j \in Fns /\ Symbols(Name(j)) # {}
    BY DEF NameInv, Shape, Typed, Bodies, RegisteredInv, IsRegistered, Failed, Generated, WithBody
  <2>2. ASSUME NEW j \in WithBody PROVE get_start_of(Name(j)) = input.fns[j].start
    <3>1. Symbols(Name(j)) = {k \in Fns : input.fns[k].symbol = Name(j)}
      BY DEF Symbols
    <3>2. \A k \in Symbols(Name(j)) : j <= k /\ input.fns[j].symbol = Name(j)
      BY <2>1, <3>1, OwnFirst
    <3>3. j \in Symbols(Name(j)) /\ \A l \in Symbols(Name(j)) : j <= l
      BY <2>1, <3>1, <3>2
    <3> DEFINE k == CHOOSE k \in Symbols(Name(j)) : \A l \in Symbols(Name(j)) : k <= l
    <3>4. k \in Symbols(Name(j)) /\ \A l \in Symbols(Name(j)) : k <= l
      BY <3>3
    <3>5. get_start_of(Name(j)) = input.symtab[k].start
      BY DEF get_start_of
    <3> HIDE DEF k
    <3>6. k <= j /\ j <= k /\ k \in Nat /\ j \in Nat
      BY <2>1, <3>1, <3>3, <3>4, InputIs
    <3>7. k = j
      BY <3>6
    <3> QED
      BY <2>1, <3>5, <3>7
  <2> QED
    BY <2>1, <2>2 DEF AllRegistered
<1> QED
  BY <1>1, BodiesHold, PTL

\* Of what the finished module uses, it defines all but the functions that were
\* only declared and, without a symbol table, the lookup (line 1387).
THEOREM ModuleLinks == Spec => []Linkable
<1>1. NameInv /\ Bodies => Linkable
  <2> SUFFICES ASSUME NameInv, Bodies, phase = "done", NEW u \in uses, u[2] \notin defined
               PROVE  u[2] \in {Lifted(i) : i \in Fns \ WithBody}
                                \cup (IF input.hasSymtab THEN {} ELSE {Runtime("lookup")})
    BY DEF Linkable
  <2>1. /\ Objects \subseteq AllObjects /\ ObjectsAre /\ UsesInv /\ DefinedInv /\ RegisteredInv
    BY DEF NameInv, Shape, Typed, Bodies, Failed
  <2>2. u[2] \in Objects /\ u[2] \in AllObjects
    BY <2>1 DEF UsesInv
  <2>3. CASE \E i \in Fns : u[2] = Source(i)
    BY <2>1, <2>2, <2>3 DEF ObjectsAre, HasOriginal
  <2>4. ASSUME NEW i \in Fns, u[2] = Lifted(i) PROVE i \notin WithBody
    <3>1. IsCloned(i)
      BY DEF IsCloned, Generated
    <3> QED
      BY <2>1, <2>4, <3>1 DEF DefinedInv
  <2>5. CASE \E n \in Configured : u[2] = Instr(n)
    BY <2>1, <2>2, <2>5 DEF DefinedInv
  <2>6. ASSUME NEW n \in DOMAIN RuntimeNames, u[2] = Runtime(n)
        PROVE  n = "lookup" /\ ~input.hasSymtab
    <3>1. n # "addr" /\ n \notin Linked
      BY <2>1, <2>2, <2>6 DEF DefinedInv
    <3>2. n \in {"add", "lookup"} /\ ~input.hasSymtab
      BY <3>1 DEF RuntimeNames, Linked
    <3>3. registered = {}
      BY <2>1, <3>2 DEF RegisteredInv, IsRegistered
    <3>4. CASE u[1][1] = "lifted"
      <4>1. u[1] \in Objects /\ u = <<u[1], u[2]>>
        BY <2>1 DEF UsesInv
      <4>2. PICK i \in Fns : u[1] = Lifted(i)
        BY <2>1, <3>4, <4>1 DEF AllObjects, Lifted
      <4>3. u[2] \in UsedBy(i)
        BY <2>1, <3>3, <4>1, <4>2 DEF UsesInv
      <4>4. u[2] = Runtime("lookup")
        BY <2>6, <4>3, Kinds DEF UsedBy
      <4>5. Runtime(n)[2] = n /\ Runtime("lookup")[2] = "lookup"
        BY Kinds
      <4> QED
        BY <2>6, <3>2, <4>4, <4>5
    <3>5. CASE u[1][1] # "lifted"
      <4>1. OtherUse(u)
        BY <2>1, <3>5 DEF UsesInv
      <4>2. n \in {"addr", "impl"}
        BY <2>6, <4>1, Kinds DEF OtherUse
      <4> QED
        BY <3>2, <4>2
    <3> QED
      BY <3>4, <3>5
  <2>7. \/ \E i \in Fns : u[2] \in {Source(i), Lifted(i)}
        \/ \E n \in Configured : u[2] = Instr(n)
        \/ \E n \in DOMAIN RuntimeNames : u[2] = Runtime(n)
    BY <2>2 DEF AllObjects, Source, Lifted, Instr, Runtime
  <2>8. CASE \E n \in DOMAIN RuntimeNames : u[2] = Runtime(n)
    BY <2>6, <2>8
  <2> QED
    BY <2>3, <2>4, <2>5, <2>7, <2>8
<1> QED
  BY <1>1, BodiesHold, PTL

\* Instructions and functions that go together are never turned down and the
\* pass never holds on to what is gone: a translation is found for every body,
\* a symbol for every address, and nothing uses an original when it is erased
\* (line 133, 1377, 1405).
THEOREM AcceptsSound == Spec => []Accepts
<1>1. Init => Accepts
  BY DEF Init, Accepts, Failed
<1>2. NameInv /\ Bodies /\ Accepts /\ [Next]_vars => Accepts'
  <2> SUFFICES ASSUME NameInv, Bodies, Accepts, [Next]_vars, SoundInput', phase' \in Failed PROVE FALSE
    BY DEF Accepts
  <2>1. UNCHANGED input
    BY DEF Next, vars, Stops, FillModuleWithInstrs, NoImplementations, LinkError, ReplacesFunction,
           CloneMachineFunction, RedirectCalls, DeclareRuntime, GenerateFunction, NoTranslation,
           NoStackPointer, NoInstruction, FillSymtab, NoSymbol, LinkRuntime, RenameFunction, WriteHeader,
           HeaderNotWritable, EraseOriginal, ErasesUsed, Sweep
  <2>2. SoundInput
    BY <2>1, SameFns
  <2>3. /\ phase \notin Failed /\ Typed /\ ObjectsAre /\ NamesAre /\ UsesInv /\ RegisteredInv
    BY <2>2 DEF Accepts, NameInv, Shape, Bodies
  <2>4. CASE NoImplementations \/ LinkError \/ ReplacesFunction \/ HeaderNotWritable
    BY <2>2, <2>4 DEF SoundInput, NoImplementations, LinkError, ReplacesFunction, HeaderNotWritable
  <2>5. CASE NoSymbol
    <3>1. PICK i \in WithBody : phase = "symtab" /\ Symbols(names[Lifted(i)]) = {}
      BY <2>5 DEF NoSymbol
    <3>2. input.hasSymtab /\ names[Lifted(i)] = Name(i)
      BY <2>3, <3>1 DEF RegisteredInv, NamesAre, IsCloned, IsRenamed, WithBody, Generated
    <3> QED
      BY <2>2, <3>1, <3>2 DEF SoundInput, Name
  <2>6. ASSUME NEW i \in Fns, NoTranslation(i) PROVE FALSE
    <3>1. phase = "generate" /\ input.translated /\ i \in WithBody /\ Translations(i) = {}
      BY <2>6 DEF NoTranslation, Untranslated
    <3>2. names[Lifted(i)] = Name(i) /\ input.fns[i].symbol = Name(i)
      BY <2>2, <2>3, <3>1 DEF SoundInput, NamesAre, IsCloned, IsRenamed, Generated, Name
    <3> QED
      BY <3>1, <3>2 DEF Translations
  <2>7. ASSUME NEW i \in Fns, NoStackPointer(i) \/ NoInstruction(i) PROVE FALSE
    BY <2>2, <2>7 DEF NoStackPointer, NoInstruction, SoundInput
  <2>8. ASSUME NEW i \in Fns, ErasesUsed(i) PROVE FALSE
    <3>1. PICK o : o # Source(i) /\ <<o, Source(i)>> \in uses
      BY <2>8 DEF ErasesUsed, Users
    <3>2. CASE o[1] = "lifted"
      <4>1. o \in AllObjects
        BY <2>3, <3>1 DEF UsesInv, Typed
      <4>2. PICK j \in Fns : o = Lifted(j)
        BY <3>2, <4>1 DEF AllObjects, Lifted
      <4>3. \/ Source(i) \in UsedBy(j)
            \/ \E r \in registered : Source(i) \in {r[3], Runtime("add")}
        BY <2>3, <3>1, <4>2 DEF UsesInv
      <4>4. \A r \in registered : \E k : r[3] = Lifted(k)
        BY <2>3 DEF RegisteredInv, AllRegistered
      <4> QED
        BY <4>3, <4>4, Kinds DEF UsedBy
    <3>3. CASE o[1] # "lifted"
      <4>1. OtherUse(<<o, Source(i)>>)
        BY <2>3, <3>1, <3>3 DEF UsesInv
      <4>2. \A k \in Fns : input.fns[k].irCalls = {}
        BY <2>2 DEF SoundInput
      <4> QED
        BY <4>1, <4>2, Kinds DEF OtherUse
    <3> QED
      BY <3>2, <3>3
  <2>9. CASE \/ FillModuleWithInstrs \/ RedirectCalls \/ DeclareRuntime \/ FillSymtab \/ LinkRuntime
             \/ WriteHeader \/ Sweep
             \/ \E i \in Fns : \/ CloneMachineFunction(i) \/ GenerateFunction(i)
                               \/ RenameFunction(i) \/ EraseOriginal(i)
    BY <2>3, <2>9 DEF FillModuleWithInstrs, RedirectCalls, DeclareRuntime, FillSymtab, LinkRuntime,
                      WriteHeader, Sweep, CloneMachineFunction, GenerateFunction, RenameFunction,
                      EraseOriginal, Step, Failed
  <2>10. CASE UNCHANGED vars
    BY <2>3, <2>10 DEF vars
  <2> QED
    BY <2>4, <2>5, <2>6, <2>7, <2>8, <2>9, <2>10 DEF Next
<1> QED
  BY <1>1, <1>2, BodiesHold, PTL DEF Spec

=============================================================================
