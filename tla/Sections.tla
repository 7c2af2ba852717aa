------------------------------ MODULE Sections ------------------------------
(***************************************************************************)
(* The data of the program in the lifted module.  mctomir reads the bytes  *)
(* of the sections, the lifter makes four globals of each and a table of   *)
(* all, and the loads and stores of the lifted code look their address up  *)
(* in that table at run time.  An address that is not found is taken for   *)
(* one of the host's, except by LW, which then loads zero.                 *)
(*                                                                         *)
(* A cell stands for the smallest unit that is accessed; addresses have    *)
(* AddressBits bits where the code has 64.                                 *)
(***************************************************************************)
EXTENDS Integers, SequencesExt

CONSTANTS
    AddressBits,
    Widths,     \* how many cells an access may have
    Values,     \* of a cell
    Images      \* see ImageAssumption

Addresses == 0..(2^AddressBits - 1)

\* Object files that are linked, so that no two sections share an address,
\* with the globals the instruction file declares, <<section, what>>, and
\* the memory of the host.  A section of type NOBITS, as .bss, has no bytes in
\* the file, but cells in the memory of the machine; it starts as zeros.
Span(s) == s.start..(s.start + s.size - 1)
ASSUME ImageAssumption ==
    /\ AddressBits \in Nat /\ 0 \in Values /\ Widths \subseteq Nat \ {0}
    /\ \A x \in Images :
        /\ Len(x.sections) \in Nat /\ DOMAIN x.sections = 1..Len(x.sections)
        /\ \A k \in DOMAIN x.sections :
            LET s == x.sections[k] IN
            /\ s.start \in Addresses
            /\ s.alloc \in BOOLEAN /\ s.write \in BOOLEAN /\ s.size \in Nat
            /\ s.alloc => Span(s) \subseteq Addresses
            /\ s.bits \in BOOLEAN /\ s.bytes \in Seq(Values)
            /\ Len(s.bytes) = IF s.bits THEN s.size ELSE 0
        /\ \A k, l \in DOMAIN x.sections :
            x.sections[k].alloc /\ x.sections[l].alloc /\ k # l =>
                Span(x.sections[k]) \cap Span(x.sections[l]) = {}
        /\ DOMAIN x.host \subseteq Addresses /\ x.host \in [DOMAIN x.host -> Values]
        /\ \A k \in DOMAIN x.sections :
            x.sections[k].alloc => Span(x.sections[k]) \cap DOMAIN x.host = {}

VARIABLES
    image,
    phase,      \* "read", "globals", "run"
    seen,       \* how many sections of the file have been looked at
    sections,   \* data sections read, their data is in "data" from then on
    gvals,      \* the values of the globals by their names <<section, what, n>>
    declared,   \* those that are declared and not yet defined
    secs,       \* the globals of each section
    table,      \* bleach_section_globals
    data,       \* the cells of each section
    host,       \* the memory of the host
    last        \* the last access: its kind, address and cells

Result(kind, a, cells) == [kind |-> kind, at |-> a, cells |-> cells]

vars == <<image, phase, seen, sections, gvals, declared, secs, table, data, host, last>>

Init ==
    /\ image \in Images
    /\ phase = "read" /\ seen = 0
    /\ sections = << >> /\ secs = << >> /\ table = << >> /\ data = << >>
    /\ gvals = << >>
    /\ declared = {<<d[1], d[2], 0>> : d \in image.declared}
    /\ host = image.host
    /\ last = Result("none", 0, << >>)

-----------------------------------------------------------------------------
(* mctomir: read_sections *)

is_data_section(s) == s.alloc

\* One turn of the loop; set_section copies the bytes.
ReadSection ==
    /\ phase = "read" /\ seen < Len(image.sections)
    /\ LET s == image.sections[seen + 1]
       IN  IF is_data_section(s)
           THEN sections' = Append(sections, s) /\ data' = Append(data, s.bytes)
           ELSE UNCHANGED <<sections, data>>
    /\ seen' = seen + 1
    /\ UNCHANGED <<image, phase, gvals, declared, secs, table, host, last>>

FinishReading ==
    /\ phase = "read" /\ seen = Len(image.sections)
    /\ phase' = "globals"
    /\ UNCHANGED <<image, seen, sections, gvals, declared, secs, table, data, host, last>>

-----------------------------------------------------------------------------
(* The lifter: globals, table *)

\* A declared global is defined and then private, which hides it from the next
\* section of that name; LLVM makes the names of new ones unique.
GlobalFor(s, what) ==
    IF <<s.name, what, 0>> \in declared
    THEN <<s.name, what, 0>> ELSE <<s.name, what, Len(secs) + 1>>

\* Mutant: the linkage stays as it is.
StillDeclared(g) == declared

DeclaredBesides(g) == declared \ Range(g)

create_section_globals ==
    /\ phase = "globals" /\ Len(secs) < Len(sections)
    /\ LET k == Len(secs) + 1
           s == sections[k]
           g == [size |-> GlobalFor(s, "size"), start |-> GlobalFor(s, "start"),
                 ptr |-> GlobalFor(s, "ptr")]
           value == [size |-> Len(data[k]), start |-> s.start, ptr |-> k]
       IN  /\ secs' = Append(secs, g)
           /\ gvals' = [x \in DOMAIN gvals \cup Range(g) |->
                            IF x \in Range(g) THEN value[x[2]] ELSE gvals[x]]
           /\ declared' = DeclaredBesides(g)
    /\ UNCHANGED <<image, phase, seen, sections, table, data, host, last>>

create_sections_array_global ==
    /\ phase = "globals" /\ Len(secs) = Len(sections)
    /\ table' = [k \in DOMAIN secs |-> [data |-> gvals[secs[k].ptr],
                                        start |-> gvals[secs[k].start],
                                        size |-> gvals[secs[k].size]]]
    /\ phase' = "run"
    /\ UNCHANGED <<image, seen, sections, gvals, declared, secs, data, host, last>>

-----------------------------------------------------------------------------
(* Run time: bleach_try_get_real_addr_impl, the loads and stores of rv.yaml *)

\* Mutant: the end of the section belongs to it.
InClosed(a, s) == a >= s.start /\ a <= (s.start + s.size) % 2^AddressBits

In(a, s) == a >= s.start /\ a < (s.start + s.size) % 2^AddressBits

\* The pointer the lookup gives: a cell of the data of a section, or null.
Hits(a) == {k \in DOMAIN table : In(a, table[k])}
try_get_real_addr(a) ==
    IF Hits(a) = {} THEN <<0, 0>>
    ELSE LET k == CHOOSE k \in Hits(a) : \A l \in Hits(a) : k <= l
         IN  <<table[k].data, a - table[k].start + 1>>

\* All cells of an access are where its first one is; past the end of an
\* object anything may happen, also when another section follows.
InSection(a, n) ==
    LET p == try_get_real_addr(a)
    IN  p[1] # 0 /\ p[2] + n - 1 \in DOMAIN data[p[1]]
InHost(a, n) ==
    try_get_real_addr(a)[1] = 0 /\ a..(a + n - 1) \subseteq DOMAIN host

Undefined == {"undefined load", "undefined store"}
Running == phase = "run" /\ last.kind \notin Undefined

\* Mutant: SW does not truncate the register.
WholeRegister(c, n) == c..(c + 2 * n - 1)

Stored(c, n) == c..(c + n - 1)

LoadSection(a, n) ==
    /\ Running /\ InSection(a, n)
    /\ LET p == try_get_real_addr(a)
       IN  last' = Result("load", a, [i \in 1..n |-> data[p[1]][p[2] + i - 1]])
    /\ UNCHANGED <<image, phase, seen, sections, gvals, declared, secs, table, data, host>>

LoadHost(a, n) ==
    /\ Running /\ InHost(a, n)
    /\ last' = Result("load", a, [i \in 1..n |-> host[a + i - 1]])
    /\ UNCHANGED <<image, phase, seen, sections, gvals, declared, secs, table, data, host>>

\* LW of an address that is no data of the program nor of the host.  Of the
\* host's data LW loads zero as well: programs that do so are left out.
LoadNothing(a, n) ==
    /\ Running /\ try_get_real_addr(a)[1] = 0 /\ a \notin DOMAIN host
    /\ last' = Result("load", a, [i \in 1..n |-> 0])
    /\ UNCHANGED <<image, phase, seen, sections, gvals, declared, secs, table, data, host>>

\* The globals of sections that are not written are constants.
StoreSection(a, n, v) ==
    /\ Running /\ InSection(a, n)
    /\ LET p == try_get_real_addr(a)
       IN  /\ sections[p[1]].write
           /\ data' = [data EXCEPT ![p[1]] =
                [c \in DOMAIN @ |-> IF c \in Stored(p[2], n) THEN v ELSE @[c]]]
    /\ last' = Result("store", a, [i \in 1..n |-> v])
    /\ UNCHANGED <<image, phase, seen, sections, gvals, declared, secs, table, host>>

StoreHost(a, n, v) ==
    /\ Running /\ InHost(a, n)
    /\ host' = [b \in DOMAIN host |-> IF b \in Stored(a, n) THEN v ELSE host[b]]
    /\ last' = Result("store", a, [i \in 1..n |-> v])
    /\ UNCHANGED <<image, phase, seen, sections, gvals, declared, secs, table, data>>

UndefinedLoad(a, n) ==
    /\ Running
    /\ ~InHost(a, n) /\ ~InSection(a, n)
    /\ last' = Result("undefined load", a, << >>)
    /\ UNCHANGED <<image, phase, seen, sections, gvals, declared, secs, table, data, host>>

UndefinedStore(a, n) ==
    /\ Running
    /\ ~InHost(a, n)
    /\ InSection(a, n) => ~sections[try_get_real_addr(a)[1]].write
    /\ last' = Result("undefined store", a, << >>)
    /\ UNCHANGED <<image, phase, seen, sections, gvals, declared, secs, table, data, host>>

Next ==
    \/ ReadSection \/ FinishReading
    \/ create_section_globals
    \/ create_sections_array_global
    \/ \E a \in Addresses, n \in Widths :
        \/ LoadSection(a, n) \/ LoadHost(a, n) \/ LoadNothing(a, n)
        \/ UndefinedLoad(a, n) \/ UndefinedStore(a, n)
        \/ \E v \in Values : StoreSection(a, n, v) \/ StoreHost(a, n, v)

Spec == Init /\ [][Next]_vars

-----------------------------------------------------------------------------
(* Properties *)

\* The sections whose addresses the lookup can find: they have bytes, and they
\* do not end with the address space, where their end is zero.
Findable ==
    {k \in DOMAIN image.sections :
        LET s == image.sections[k]
        IN  s.alloc /\ s.bits /\ s.start + s.size < 2^AddressBits}

CellOf(a) ==
    IF a \in DOMAIN host THEN host[a]
    ELSE IF phase = "run"
         THEN LET p == try_get_real_addr(a) IN data[p[1]][p[2]]
         ELSE LET s == image.sections[CHOOSE k \in Findable : a \in Span(image.sections[k])]
              IN  s.bytes[a - s.start + 1]

Objects == {Span(image.sections[k]) : k \in Findable} \cup {DOMAIN host}

\* The lifted code sees the memory of the machine and that of the host as one:
\* what it loads is what was stored last or what the file has there, whatever
\* sections the file has and in whatever order (line 380, 431, 463;
\* section_intrinsics.cpp:10).  Not promised are stores to constant sections,
\* any access to .bss, to a section that ends with the address space or across
\* the end of a section.
Flat == INSTANCE FlatMemory WITH
    mem <- [a \in UNION Objects |-> CellOf(a)],
    objects <- Objects,
    readonly <- UNION {Span(s) : s \in {t \in Range(image.sections) : t.alloc /\ ~t.write}}
Refines == Flat!Spec

\* State is of its type; table, globals and cells belong to the sections read.
TypeOK ==
    /\ image \in Images
    /\ phase \in {"read", "globals", "run"}
    /\ Range(sections) \subseteq Range(image.sections)
    /\ Len(secs) <= Len(sections) /\ DOMAIN data = DOMAIN sections
    /\ \A k \in DOMAIN data : data[k] \in [1..Len(sections[k].bytes) -> Values]
    /\ DOMAIN gvals = UNION {Range(secs[k]) : k \in DOMAIN secs}
    /\ declared \cap DOMAIN gvals = {}
    /\ \A k \in DOMAIN table : table[k].data \in DOMAIN data
    /\ DOMAIN host = DOMAIN image.host
    /\ last.kind \in {"none", "load", "store"} \cup Undefined
    /\ Range(last.cells) \subseteq Values

\* An address is found in the table if and only if a section with bytes that
\* does not end with the address space holds it, and then in that section's data and at its offset, also when two
\* sections have the name of the same globals (line 404).
LookupExact ==
    phase = "run" => \A a \in Addresses :
        LET p == try_get_real_addr(a)
            Holding == {k \in Findable : a \in Span(image.sections[k])}
        IN  IF Holding = {} THEN p[1] = 0
            ELSE /\ p[1] # 0
                 /\ \A k \in Holding : sections[p[1]] = image.sections[k]
                                       /\ p[2] = a - image.sections[k].start + 1
=============================================================================
