---------------------------- MODULE SectionsProofs ----------------------------
(***************************************************************************)
(* For all object files, instruction files and memories of the host: an    *)
(* address is found in the table if and only if a section with bytes that  *)
(* does not end with the address space holds it, and lifted code sees one  *)
(* flat memory.                                                            *)
(***************************************************************************)
EXTENDS Sections, FiniteSetTheorems, TLAPS

File(j) == image.sections[j]
Names == {<<File(j).name, what, n>> : j \in DOMAIN image.sections,
                                      what \in {"size", "start", "ptr"}, n \in Nat}
Globals == [size : Names, start : Names, ptr : Names]

\* What the assumption says of a file.
LEMMA FileIs ==
    ASSUME image \in Images
    PROVE  /\ Len(image.sections) \in Nat /\ DOMAIN image.sections = 1..Len(image.sections)
           /\ \A j \in DOMAIN image.sections :
                /\ File(j).start \in Addresses /\ File(j).start \in Nat /\ File(j).size \in Nat
                /\ File(j).alloc \in BOOLEAN /\ File(j).write \in BOOLEAN /\ File(j).bits \in BOOLEAN
                /\ File(j).alloc => Span(File(j)) \subseteq Addresses
                /\ File(j).bytes \in Seq(Values)
                /\ Len(File(j).bytes) = IF File(j).bits THEN File(j).size ELSE 0
                /\ File(j).alloc => Span(File(j)) \cap DOMAIN image.host = {}
           /\ \A j, l \in DOMAIN image.sections :
                File(j).alloc /\ File(l).alloc /\ j # l => Span(File(j)) \cap Span(File(l)) = {}
           /\ DOMAIN image.host \subseteq Addresses
           /\ image.host \in [DOMAIN image.host -> Values]
<1>1. /\ Len(image.sections) \in Nat /\ DOMAIN image.sections = 1..Len(image.sections)
      /\ DOMAIN image.host \subseteq Addresses
      /\ image.host \in [DOMAIN image.host -> Values]
  BY ImageAssumption
<1>2. ASSUME NEW j \in DOMAIN image.sections
      PROVE  /\ File(j).start \in Addresses /\ File(j).size \in Nat
             /\ File(j).alloc \in BOOLEAN /\ File(j).write \in BOOLEAN /\ File(j).bits \in BOOLEAN
             /\ File(j).alloc => Span(File(j)) \subseteq Addresses
             /\ File(j).bytes \in Seq(Values)
             /\ Len(File(j).bytes) = IF File(j).bits THEN File(j).size ELSE 0
             /\ File(j).alloc => Span(File(j)) \cap DOMAIN image.host = {}
  BY ImageAssumption DEF File
<1>3. \A j, l \in DOMAIN image.sections :
        File(j).alloc /\ File(l).alloc /\ j # l => Span(File(j)) \cap Span(File(l)) = {}
  BY ImageAssumption DEF File
<1>4. \A a \in Addresses : a \in Nat
  BY ImageAssumption DEF Addresses
<1> QED
  BY <1>1, <1>2, <1>3, <1>4

-----------------------------------------------------------------------------
(* The sections that are read, their globals, the table *)

Typed ==
    /\ image \in Images /\ phase \in {"read", "globals", "run"}
    /\ seen \in 0..Len(image.sections)
    /\ phase # "read" => seen = Len(image.sections)
    /\ sections \in Seq({File(j) : j \in DOMAIN image.sections})
    /\ data \in Seq(Seq(Values)) /\ Len(data) = Len(sections)
    /\ \A k \in 1..Len(sections) : Len(data[k]) = Len(sections[k].bytes)
    /\ host \in [DOMAIN image.host -> Values]
    /\ last.kind \in {"none", "load", "store"} \cup Undefined /\ Range(last.cells) \subseteq Values

\* The sections of the file that are data, once each.
ReadInv ==
    /\ \A k \in 1..Len(sections) : \E j \in 1..seen : sections[k] = File(j) /\ File(j).alloc
    /\ \A j \in 1..seen : File(j).alloc => \E k \in 1..Len(sections) : sections[k] = File(j)
    /\ \A k, l \in 1..Len(sections) : k # l => Span(sections[k]) \cap Span(sections[l]) = {}
    /\ phase # "run" => \A k \in 1..Len(sections) : data[k] = sections[k].bytes

GlobalsOf(ss) == UNION {Range(ss[k]) : k \in 1..Len(ss)}

\* No global is defined twice: one that was declared is not any more, a new one
\* bears the number of its section.
GlobalsInv ==
    /\ secs \in Seq(Globals)
    /\ Len(secs) <= Len(sections)
    /\ phase = "read" => secs = << >>
    /\ DOMAIN gvals = GlobalsOf(secs)
    /\ declared \cap DOMAIN gvals = {}
    /\ \A x \in declared : x[3] = 0
    /\ \A x \in DOMAIN gvals : x[3] \in 0..Len(secs)
    /\ \A k \in 1..Len(secs) :
        /\ gvals[secs[k].ptr] = k
        /\ gvals[secs[k].start] = sections[k].start
        /\ gvals[secs[k].size] = Len(sections[k].bytes)

TableInv ==
    /\ phase # "run" => table = << >>
    /\ phase = "run" => table = [k \in 1..Len(sections) |->
            [data |-> k, start |-> sections[k].start, size |-> Len(sections[k].bytes)]]

Inv == Typed /\ ReadInv /\ GlobalsInv /\ TableInv

LEMMA InitInv == Init => Inv
<1> SUFFICES ASSUME Init PROVE Inv
  OBVIOUS
<1> USE DEF Init
<1>1. Typed
  <2>1. host \in [DOMAIN image.host -> Values] /\ Len(image.sections) \in Nat
    BY FileIs
  <2>2. last.kind = "none" /\ last.cells = << >>
    BY DEF Result
  <2>3. Range(last.cells) \subseteq Values
    BY <2>2 DEF Range
  <2> QED
    BY <2>1, <2>2, <2>3 DEF Typed
<1>2. ReadInv
  BY DEF ReadInv
<1>3. GlobalsInv
  <2>1. \A x \in declared : x[3] = 0
    OBVIOUS
  <2>2. DOMAIN gvals = {} /\ GlobalsOf(secs) = {}
    BY DEF GlobalsOf
  <2> QED
    BY <2>1, <2>2 DEF GlobalsInv
<1>4. TableInv
  BY DEF TableInv
<1> QED
  BY <1>1, <1>2, <1>3, <1>4 DEF Inv

\* The next section of the file.
LEMMA ReadKeeps == ASSUME Inv, ReadSection PROVE Inv'
<1>1. /\ phase = "read" /\ seen < Len(image.sections) /\ seen' = seen + 1
      /\ IF File(seen + 1).alloc
         THEN sections' = Append(sections, File(seen + 1)) /\ data' = Append(data, File(seen + 1).bytes)
         ELSE UNCHANGED <<sections, data>>
      /\ UNCHANGED <<image, phase, gvals, declared, secs, table, host, last>>
  BY DEF ReadSection, File, is_data_section
<1>2. Typed /\ ReadInv /\ GlobalsInv /\ TableInv
  BY DEF Inv
<1>3. /\ seen + 1 \in DOMAIN image.sections /\ seen \in Nat /\ seen' \in 0..Len(image.sections)
      /\ 1..(seen + 1) = (1..seen) \cup {seen + 1}
      /\ 1..seen \subseteq DOMAIN image.sections
      /\ \A j : File(j)' = File(j)
  <2>1. Len(image.sections) \in Nat /\ DOMAIN image.sections = 1..Len(image.sections)
    BY <1>2, FileIs DEF Typed
  <2> QED
    BY <1>1, <1>2, <2>1 DEF Typed, File
<1>4. Globals' = Globals /\ Len(sections) \in Nat /\ secs = << >>
  BY <1>1, <1>2 DEF Globals, Names, File, GlobalsInv, Typed
<1>5. CASE ~File(seen + 1).alloc
  <2>1. sections' = sections /\ data' = data
    BY <1>1, <1>5
  <2>2. Typed'
    BY <1>1, <1>2, <1>3, <2>1 DEF Typed
  <2>3. ReadInv'
    BY <1>1, <1>2, <1>3, <1>5, <2>1 DEF ReadInv
  <2>4. GlobalsInv' /\ TableInv'
    BY <1>1, <1>2, <1>4, <2>1 DEF GlobalsInv, TableInv
  <2> QED
    BY <2>2, <2>3, <2>4 DEF Inv
<1>6. CASE File(seen + 1).alloc
  <2> DEFINE n == Len(sections)
             f == File(seen + 1)
  <2>1. /\ sections' = Append(sections, f) /\ data' = Append(data, f.bytes)
        /\ f \in {File(j) : j \in DOMAIN image.sections} /\ f.bytes \in Seq(Values) /\ f.alloc
    BY <1>1, <1>2, <1>3, <1>6, FileIs DEF Typed
  <2>2. /\ sections \in Seq({File(j) : j \in DOMAIN image.sections})
        /\ data \in Seq(Seq(Values)) /\ Len(data) = n
    BY <1>2 DEF Typed
  <2> HIDE DEF f
  <2>3. /\ Len(sections') = n + 1 /\ sections'[n + 1] = f /\ \A k \in 1..n : sections'[k] = sections[k]
        /\ sections' \in Seq({File(j) : j \in DOMAIN image.sections})
    BY <2>1, <2>2
  <2>4. /\ Len(data') = n + 1 /\ data'[n + 1] = f.bytes /\ \A k \in 1..n : data'[k] = data[k]
        /\ data' \in Seq(Seq(Values))
    BY <2>1, <2>2
  <2> HIDE DEF n
  <2>5. n \in Nat /\ 1..(n + 1) = (1..n) \cup {n + 1}
    BY <1>4 DEF n
  <2>6. \A k \in 1..(n + 1) : Len(data'[k]) = Len(sections'[k].bytes)
    <3>1. \A k \in 1..n : Len(data[k]) = Len(sections[k].bytes)
      BY <1>2 DEF Typed, n
    <3> QED
      BY <2>3, <2>4, <2>5, <3>1
  <2>7. Typed'
    BY <1>1, <1>2, <1>3, <2>3, <2>4, <2>6 DEF Typed
  <2>8. ReadInv'
    <3>1. /\ \A k \in 1..n : \E j \in 1..seen : sections[k] = File(j) /\ File(j).alloc
          /\ \A j \in 1..seen : File(j).alloc => \E k \in 1..n : sections[k] = File(j)
          /\ \A k, l \in 1..n : k # l => Span(sections[k]) \cap Span(sections[l]) = {}
          /\ \A k \in 1..n : data[k] = sections[k].bytes
      BY <1>1, <1>2 DEF ReadInv, n
    <3>2. \A k \in 1..(n + 1) : \E j \in 1..seen' : sections'[k] = File(j) /\ File(j).alloc
      BY <1>1, <1>3, <2>1, <2>3, <2>5, <3>1 DEF f
    <3>3. \A j \in 1..seen' : File(j).alloc => \E k \in 1..(n + 1) : sections'[k] = File(j)
      BY <1>1, <1>3, <2>3, <2>5, <3>1 DEF f
    <3>4. \A k \in 1..n : Span(sections[k]) \cap Span(f) = {}
      <4> TAKE k \in 1..n
      <4>1. PICK j \in 1..seen : sections[k] = File(j) /\ File(j).alloc
        BY <3>1
      <4>2. j \in DOMAIN image.sections /\ j # seen + 1
        BY <1>3
      <4> QED
        BY <1>2, <1>3, <2>1, <4>1, <4>2, FileIs DEF Typed, f
    <3>5. \A k, l \in 1..(n + 1) : k # l => Span(sections'[k]) \cap Span(sections'[l]) = {}
      BY <2>3, <2>5, <3>1, <3>4
    <3>6. \A k \in 1..(n + 1) : data'[k] = sections'[k].bytes
      BY <2>3, <2>4, <2>5, <3>1
    <3>7. Len(sections') = n + 1
      BY <2>3
    <3> QED
      BY <1>3, <3>2, <3>3, <3>5, <3>6, <3>7 DEF ReadInv
  <2>9. GlobalsInv' /\ TableInv'
    BY <1>1, <1>2, <1>4, <2>3, <2>5 DEF GlobalsInv, TableInv
  <2> QED
    BY <2>7, <2>8, <2>9 DEF Inv
<1> QED
  BY <1>5, <1>6

\* The globals of one section.
LEMMA GlobalsKeep == ASSUME Inv, create_section_globals PROVE Inv'
<1> DEFINE n == Len(secs)
           k == n + 1
           f == sections[k]
           g == [size |-> GlobalFor(f, "size"), start |-> GlobalFor(f, "start"),
                 ptr |-> GlobalFor(f, "ptr")]
           value == [size |-> Len(data[k]), start |-> f.start, ptr |-> k]
<1>1. /\ phase = "globals" /\ Len(secs) < Len(sections)
      /\ secs' = Append(secs, g)
      /\ gvals' = [x \in DOMAIN gvals \cup Range(g) |->
                        IF x \in Range(g) THEN value[x[2]] ELSE gvals[x]]
      /\ declared' = declared \ Range(g)
      /\ UNCHANGED <<image, phase, seen, sections, table, data, host, last>>
  BY DEF create_section_globals, DeclaredBesides
<1>2. Typed /\ ReadInv /\ GlobalsInv /\ TableInv
  BY DEF Inv
<1>3. /\ n \in Nat /\ k \in 1..Len(sections) /\ Len(sections) \in Nat
      /\ 1..k = (1..n) \cup {k} /\ k \notin 1..n
  <2>1. n \in Nat /\ Len(sections) \in Nat
    BY <1>2 DEF Typed, GlobalsInv
  <2> HIDE DEF n
  <2> QED
    BY <1>1, <2>1 DEF n
<1>4. f \in {File(j) : j \in DOMAIN image.sections}
  BY <1>2, <1>3 DEF Typed
<1>5. /\ g.size[1] = f.name /\ g.size[2] = "size" /\ g.size \in Names
      /\ g.start[2] = "start" /\ g.start \in Names
      /\ g.ptr[2] = "ptr" /\ g.ptr \in Names
      /\ \A x \in {g.size, g.start, g.ptr} : (x \in declared /\ x[3] = 0) \/ x[3] = k
  BY <1>3, <1>4 DEF GlobalFor, Names
<1>6. Range(g) = {g.size, g.start, g.ptr}
  BY DEF Range
<1>7. g \in Globals
  BY <1>5 DEF Globals
<1>8. value.size = Len(data[k]) /\ value.start = f.start /\ value.ptr = k
  OBVIOUS
<1> HIDE DEF g, value, f
<1>9. /\ gvals'[g.size] = Len(data[k]) /\ gvals'[g.start] = f.start /\ gvals'[g.ptr] = k
      /\ DOMAIN gvals' = DOMAIN gvals \cup Range(g)
      /\ \A x \in DOMAIN gvals \ Range(g) : gvals'[x] = gvals[x]
  <2>1. value[(g.size)[2]] = value.size /\ value[(g.start)[2]] = value.start
        /\ value[(g.ptr)[2]] = value.ptr
    BY <1>5
  <2> QED
    BY <1>1, <1>6, <1>8, <2>1
<1>10. Globals' = Globals /\ (\A j : File(j)' = File(j))
  BY <1>1 DEF Names, File, Globals
<1>11. Typed'
  BY <1>1, <1>2, <1>10 DEF Typed
<1>12. ReadInv' /\ TableInv'
  BY <1>1, <1>2, <1>10 DEF ReadInv, TableInv
<1>13. GlobalsInv'
  <2>1. /\ Len(secs') = k /\ secs'[k] = g /\ \A l \in 1..n : secs'[l] = secs[l]
        /\ secs' \in Seq(Globals)
    BY <1>1, <1>2, <1>7 DEF GlobalsInv
  <2>2. DOMAIN gvals = UNION {Range(secs[l]) : l \in 1..n}
    BY <1>2 DEF GlobalsInv, GlobalsOf
  <2>3. DOMAIN gvals' = GlobalsOf(secs')
    <3>1. \A x : x \in GlobalsOf(secs') <=> \E l \in 1..k : x \in Range(secs'[l])
      BY <2>1 DEF GlobalsOf
    <3>2. \A x : x \in DOMAIN gvals' <=> x \in Range(g) \/ \E l \in 1..n : x \in Range(secs[l])
      BY <1>9, <2>2
    <3>3. \A x : (\E l \in 1..k : x \in Range(secs'[l])) <=>
                    x \in Range(g) \/ \E l \in 1..n : x \in Range(secs[l])
      BY <1>3, <2>1
    <3> QED
      BY <3>1, <3>2, <3>3
  <2>4. declared' \cap DOMAIN gvals' = {} /\ \A x \in declared' : x[3] = 0
    BY <1>1, <1>2, <1>9 DEF GlobalsInv
  <2>5. \A x \in DOMAIN gvals : x[3] \in 0..n
    BY <1>2 DEF GlobalsInv
  <2>6. \A x \in DOMAIN gvals' : x[3] \in 0..k
    BY <1>3, <1>5, <1>6, <1>9, <2>5
  <2>7. \A x \in Range(g) : x \notin DOMAIN gvals
    <3>1. \A x \in Range(g) : x \in declared \/ x[3] = k
      BY <1>5, <1>6
    <3>2. declared \cap DOMAIN gvals = {}
      BY <1>2 DEF GlobalsInv
    <3>3. \A x \in DOMAIN gvals : x[3] # k
      BY <1>3, <2>5
    <3> QED
      BY <3>1, <3>2, <3>3
  <2>8. ASSUME NEW l \in 1..k
        PROVE  /\ gvals'[secs'[l].ptr] = l
               /\ gvals'[secs'[l].start] = sections[l].start
               /\ gvals'[secs'[l].size] = Len(sections[l].bytes)
    <3>1. CASE l = k
      <4>1. Len(data[k]) = Len(f.bytes)
        BY <1>2, <1>3 DEF Typed, f
      <4> QED
        BY <1>9, <2>1, <3>1, <4>1 DEF f
    <3>2. CASE l \in 1..n
      <4>1. secs[l] \in Globals
        BY <1>2, <3>2 DEF GlobalsInv
      <4>2. {secs[l].size, secs[l].start, secs[l].ptr} \subseteq Range(secs[l])
        BY <4>1 DEF Range, Globals
      <4>3. {secs[l].size, secs[l].start, secs[l].ptr} \subseteq DOMAIN gvals \ Range(g)
        BY <2>2, <2>7, <3>2, <4>2
      <4>4. /\ gvals[secs[l].ptr] = l /\ gvals[secs[l].start] = sections[l].start
            /\ gvals[secs[l].size] = Len(sections[l].bytes)
        BY <1>2, <3>2 DEF GlobalsInv
      <4> QED
        BY <1>9, <2>1, <3>2, <4>3, <4>4
    <3> QED
      BY <1>3, <3>1, <3>2
  <2>9. Len(secs') <= Len(sections')
    BY <1>1, <1>3, <2>1
  <2>10. (\A x \in DOMAIN gvals' : x[3] \in 0..Len(secs')) /\ phase' # "read"
    BY <1>1, <2>1, <2>6
  <2>11. \A l \in 1..Len(secs') : /\ gvals'[secs'[l].ptr] = l
                                  /\ gvals'[secs'[l].start] = sections'[l].start
                                  /\ gvals'[secs'[l].size] = Len(sections'[l].bytes)
    BY <1>1, <2>1, <2>8
  <2>12. secs' \in Seq(Globals')
    BY <1>10, <2>1
  <2> QED
    BY <2>3, <2>4, <2>9, <2>10, <2>11, <2>12 DEF GlobalsInv
<1> QED
  BY <1>11, <1>12, <1>13 DEF Inv

\* The table is made of the values the globals have by then.
LEMMA TableKeeps == ASSUME Inv, create_sections_array_global PROVE Inv'
<1>1. /\ phase = "globals" /\ phase' = "run" /\ Len(secs) = Len(sections)
      /\ table' = [k \in DOMAIN secs |-> [data |-> gvals[secs[k].ptr], start |-> gvals[secs[k].start],
                                         size |-> gvals[secs[k].size]]]
      /\ UNCHANGED <<image, seen, sections, gvals, declared, secs, data, host, last>>
  BY DEF create_sections_array_global
<1>2. Typed /\ ReadInv /\ GlobalsInv
  BY DEF Inv
<1>3. Globals' = Globals /\ (\A j : File(j)' = File(j))
  BY <1>1 DEF Names, File, Globals
<1>4. Typed'
  BY <1>1, <1>2, <1>3 DEF Typed
<1>5. ReadInv' /\ GlobalsInv'
  <2>1. ReadInv'
    BY <1>1, <1>2, <1>3 DEF ReadInv
  <2>2. GlobalsInv'
    BY <1>1, <1>2, <1>3 DEF GlobalsInv
  <2> QED
    BY <2>1, <2>2
<1>6. TableInv'
  <2>1. DOMAIN secs = 1..Len(sections)
    BY <1>1, <1>2 DEF GlobalsInv
  <2>2. \A k \in 1..Len(sections) : /\ gvals[secs[k].ptr] = k /\ gvals[secs[k].start] = sections[k].start
                                   /\ gvals[secs[k].size] = Len(sections[k].bytes)
    BY <1>1, <1>2 DEF GlobalsInv
  <2> QED
    BY <1>1, <2>1, <2>2 DEF TableInv
<1> QED
  BY <1>4, <1>5, <1>6 DEF Inv

-----------------------------------------------------------------------------
(* The lookup *)

\* The k-th section read has the address, and bytes, and an end that is not
\* lost.
Holds(k, a) ==
    /\ a \in Span(sections[k]) /\ sections[k].bits
    /\ sections[k].start + sections[k].size < 2^AddressBits

\* The section that holds an address is the only one that is hit.
LEMMA LookupIs ==
    ASSUME Inv, phase = "run", NEW a \in Addresses
    PROVE  /\ \A k \in 1..Len(sections) : Holds(k, a) =>
                    try_get_real_addr(a) = <<k, a - sections[k].start + 1>>
           /\ (\A k \in 1..Len(sections) : ~Holds(k, a)) => try_get_real_addr(a) = <<0, 0>>
<1>1. Typed /\ ReadInv /\ TableInv /\ Len(sections) \in Nat
  BY DEF Inv, Typed
<1>2. table = [k \in 1..Len(sections) |->
                [data |-> k, start |-> sections[k].start, size |-> Len(sections[k].bytes)]]
  BY <1>1 DEF TableInv
<1>3. ASSUME NEW k \in 1..Len(sections)
      PROVE  In(a, table[k]) <=> Holds(k, a)
  <2>1. PICK j \in DOMAIN image.sections : sections[k] = File(j) /\ File(j).alloc
    BY <1>1, FileIs DEF ReadInv, Typed
  <2> DEFINE s == sections[k]
             M == 2^AddressBits
             z == Len(s.bytes)
  <2>2. /\ s.start \in Nat /\ s.size \in Nat /\ s.bits \in BOOLEAN
        /\ Span(s) \subseteq Addresses /\ z = IF s.bits THEN s.size ELSE 0
        /\ s.start \in Addresses
    BY <1>1, <2>1, FileIs DEF Typed
  <2>3. M \in Int /\ a \in 0..(M - 1) /\ Addresses = 0..(M - 1)
    BY ImageAssumption DEF Addresses
  <2>4. Span(s) = s.start..(s.start + s.size - 1)
    BY DEF Span
  <2>5. In(a, table[k]) <=> a >= s.start /\ a < (s.start + z) % M
    BY <1>2 DEF In
  <2>6. Holds(k, a) <=> a \in Span(s) /\ s.bits /\ s.start + s.size < M
    BY DEF Holds
  <2> HIDE DEF s, M, z
  <2>7. M > 0 /\ M \in Nat /\ a \in Nat /\ s.start < M
    BY <2>2, <2>3
  <2>8. CASE z = 0
    <3>1. (s.start + z) % M = s.start
      BY <2>2, <2>7, <2>8
    <3> QED
      BY <2>2, <2>4, <2>5, <2>6, <2>7, <2>8, <3>1
  <2>9. CASE z # 0
    <3>1. s.bits /\ z = s.size /\ s.size > 0
      BY <2>2, <2>9
    <3>2. s.start + s.size - 1 \in Span(s)
      BY <2>2, <2>4, <3>1
    <3>3. s.start + s.size <= M
      BY <2>2, <2>3, <3>2
    <3>4. CASE s.start + s.size = M
      <4>1. (s.start + z) % M = 0
        BY <2>2, <2>7, <3>1, <3>4
      <4> QED
        BY <2>5, <2>6, <2>7, <3>4, <4>1
    <3>5. CASE s.start + s.size < M
      <4>1. \A x, y \in Nat : x < y => x % y = x
        OBVIOUS
      <4>2. s.start + z = s.start + s.size /\ s.start + s.size \in Nat
        BY <2>2, <3>1
      <4>3. (s.start + z) % M = s.start + s.size
        BY <2>7, <3>5, <4>1, <4>2
      <4>4. a \in Span(s) <=> a >= s.start /\ a < s.start + s.size
        BY <2>2, <2>4, <2>7
      <4> QED
        BY <2>5, <2>6, <3>1, <3>5, <4>3, <4>4
    <3> QED
      BY <2>2, <2>7, <3>3, <3>4, <3>5
  <2> QED
    BY <2>8, <2>9
<1>4. Hits(a) = {k \in 1..Len(sections) : Holds(k, a)}
  BY <1>2, <1>3 DEF Hits
<1>5. ASSUME NEW k \in 1..Len(sections), Holds(k, a)
      PROVE  try_get_real_addr(a) = <<k, a - sections[k].start + 1>>
  <2>1. \A l \in 1..Len(sections) : Holds(l, a) => l = k
    BY <1>1, <1>5 DEF Holds, ReadInv
  <2>2. Hits(a) = {k}
    BY <1>4, <1>5, <2>1
  <2>3. (CHOOSE h \in Hits(a) : \A l \in Hits(a) : h <= l) = k
    BY <1>1, <2>2
  <2>4. table[k].data = k /\ table[k].start = sections[k].start
    BY <1>2
  <2> QED
    BY <2>2, <2>3, <2>4 DEF try_get_real_addr
<1> QED
  BY <1>4, <1>5 DEF try_get_real_addr

-----------------------------------------------------------------------------
(* The other steps *)

LEMMA FinishKeeps == ASSUME Inv, FinishReading PROVE Inv'
<1>1. /\ phase = "read" /\ seen = Len(image.sections) /\ phase' = "globals"
      /\ UNCHANGED <<image, seen, sections, gvals, declared, secs, table, data, host, last>>
  BY DEF FinishReading
<1>2. Typed /\ ReadInv /\ GlobalsInv /\ TableInv
  BY DEF Inv
<1>3. Globals' = Globals /\ (\A j : File(j)' = File(j))
  BY <1>1 DEF Names, File, Globals
<1>4. Typed'
  BY <1>1, <1>2, <1>3 DEF Typed
<1>5. ReadInv'
  BY <1>1, <1>2, <1>3 DEF ReadInv
<1>6. GlobalsInv' /\ TableInv'
  BY <1>1, <1>2, <1>3 DEF GlobalsInv, TableInv
<1> QED
  BY <1>4, <1>5, <1>6 DEF Inv

\* An access changes cells and nothing of how they are found.
LEMMA AccessKeeps ==
    ASSUME Inv, Running,
           UNCHANGED <<image, phase, seen, sections, gvals, declared, secs, table>>,
           data' \in Seq(Seq(Values)), Len(data') = Len(data),
           \A k \in 1..Len(data) : Len(data'[k]) = Len(data[k]),
           host' \in [DOMAIN image.host -> Values],
           last'.kind \in {"load", "store"} \cup Undefined, Range(last'.cells) \subseteq Values
    PROVE  Inv'
<1>1. Typed /\ ReadInv /\ GlobalsInv /\ TableInv /\ phase = "run"
  BY DEF Inv, Running
<1>2. Globals' = Globals /\ (\A j : File(j)' = File(j))
  BY DEF Names, File, Globals
<1>3. Typed'
  <2>1. \A k \in 1..Len(sections') : Len(data'[k]) = Len(sections'[k].bytes)
    BY <1>1 DEF Typed
  <2> QED
    BY <1>1, <1>2, <2>1 DEF Typed
<1>4. ReadInv'
  BY <1>1, <1>2 DEF ReadInv
<1>5. GlobalsInv' /\ TableInv'
  BY <1>1, <1>2 DEF GlobalsInv, TableInv
<1> QED
  BY <1>3, <1>4, <1>5 DEF Inv

\* The section with its bytes that an access within it is in.
LEMMA InSectionIs ==
    ASSUME Inv, phase = "run", NEW a \in Addresses, NEW n \in Widths, InSection(a, n)
    PROVE  \E k \in 1..Len(sections) :
            /\ Holds(k, a) /\ try_get_real_addr(a) = <<k, a - sections[k].start + 1>>
            /\ Len(data[k]) = sections[k].size
            /\ a - sections[k].start + n \in 1..Len(data[k])
            /\ a \in Nat /\ n \in Nat \ {0} /\ sections[k].start \in Nat /\ sections[k].size \in Nat
            /\ a..(a + n - 1) \subseteq Span(sections[k])
<1>1. Typed /\ ReadInv /\ n \in Nat \ {0} /\ a \in Nat
  BY ImageAssumption DEF Inv, Addresses
<1>2. PICK k \in 1..Len(sections) : Holds(k, a)
  <2>1. try_get_real_addr(a)[1] # 0
    BY DEF InSection
  <2> QED
    BY <2>1, LookupIs
<1>3. try_get_real_addr(a) = <<k, a - sections[k].start + 1>>
  BY <1>2, LookupIs
<1>4. PICK j \in DOMAIN image.sections : sections[k] = File(j) /\ File(j).alloc
  BY <1>1, FileIs DEF ReadInv, Typed
<1>5. sections[k].start \in Nat /\ sections[k].size \in Nat /\ Len(sections[k].bytes) = sections[k].size
  BY <1>1, <1>2, <1>4, FileIs DEF Typed, Holds
<1>6. data[k] \in Seq(Values) /\ Len(data[k]) = sections[k].size
  BY <1>1, <1>5 DEF Typed
<1>7. a - sections[k].start + 1 + n - 1 \in 1..Len(data[k])
  BY <1>3, <1>6 DEF InSection
<1>8. a - sections[k].start + 1 + n - 1 = a - sections[k].start + n
  BY <1>1, <1>5
<1>9. a - sections[k].start + n \in 1..Len(data[k])
  BY <1>7, <1>8
<1>10. a..(a + n - 1) \subseteq Span(sections[k])
  <2>1. a >= sections[k].start
    BY <1>1, <1>2, <1>5 DEF Holds, Span
  <2> QED
    BY <1>1, <1>5, <1>6, <1>9, <2>1 DEF Span
<1> QED
  BY <1>1, <1>2, <1>3, <1>5, <1>6, <1>9, <1>10

LEMMA LoadSectionKeeps ==
    ASSUME Inv, NEW a \in Addresses, NEW n \in Widths, LoadSection(a, n) PROVE Inv'
<1>1. /\ Running /\ phase = "run" /\ InSection(a, n)
      /\ UNCHANGED <<image, phase, seen, sections, gvals, declared, secs, table, data, host>>
      /\ last'.kind = "load"
      /\ last'.cells = [i \in 1..n |-> data[try_get_real_addr(a)[1]][try_get_real_addr(a)[2] + i - 1]]
  BY DEF LoadSection, Running, Result
<1>2. PICK k \in 1..Len(sections) :
            /\ try_get_real_addr(a) = <<k, a - sections[k].start + 1>>
            /\ a - sections[k].start + n \in 1..Len(data[k])
            /\ a \in Nat /\ n \in Nat \ {0} /\ sections[k].start \in Nat
            /\ Holds(k, a) /\ sections[k].size \in Nat /\ Len(data[k]) = sections[k].size
  BY <1>1, InSectionIs
<1>3. Typed
  BY DEF Inv
<1>4. \A i \in 1..n : data[k][a - sections[k].start + 1 + i - 1] \in Values
  <2> TAKE i \in 1..n
  <2>1. a - sections[k].start + 1 + i - 1 \in 1..Len(data[k])
    <3>1. a >= sections[k].start
      BY <1>2 DEF Holds, Span
    <3>2. \A s, x, m, z \in Nat : x >= s /\ x - s + m \in 1..z =>
            \A y \in 1..m : x - s + 1 + y - 1 \in 1..z
      OBVIOUS
    <3>3. /\ sections[k].start \in Nat /\ a \in Nat /\ n \in Nat /\ Len(data[k]) \in Nat
          /\ a - sections[k].start + n \in 1..Len(data[k])
      BY <1>2
    <3> QED
      BY <3>1, <3>2, <3>3
  <2>2. data[k] \in Seq(Values)
    BY <1>2, <1>3 DEF Typed
  <2> QED
    BY <2>1, <2>2
<1>5. Range(last'.cells) \subseteq Values
  BY <1>1, <1>2, <1>4 DEF Range
<1>6. data' \in Seq(Seq(Values)) /\ host' \in [DOMAIN image.host -> Values] /\ data' = data
  BY <1>1, <1>3 DEF Typed
<1> QED
  BY <1>1, <1>5, <1>6, AccessKeeps

LEMMA OtherLoadsKeep ==
    ASSUME Inv, NEW a \in Addresses, NEW n \in Widths,
           LoadHost(a, n) \/ LoadNothing(a, n) \/ UndefinedLoad(a, n) \/ UndefinedStore(a, n)
    PROVE  Inv'
<1>1. /\ Running
      /\ UNCHANGED <<image, phase, seen, sections, gvals, declared, secs, table, data, host>>
  BY DEF LoadHost, LoadNothing, UndefinedLoad, UndefinedStore
<1>2. Typed
  BY DEF Inv
<1>3. last'.kind \in {"load"} \cup Undefined /\ Range(last'.cells) \subseteq Values
  <2>1. CASE LoadHost(a, n)
    <3>1. /\ last'.kind = "load" /\ last'.cells = [i \in 1..n |-> host[a + i - 1]]
          /\ a..(a + n - 1) \subseteq DOMAIN host
      BY <2>1 DEF LoadHost, Result, InHost
    <3>2. a \in Nat /\ n \in Nat
      BY ImageAssumption DEF Addresses
    <3>3. \A i \in 1..n : host[a + i - 1] \in Values
      BY <1>2, <3>1, <3>2 DEF Typed
    <3> QED
      BY <3>1, <3>3 DEF Range
  <2>2. CASE LoadNothing(a, n)
    <3>1. last'.kind = "load" /\ last'.cells = [i \in 1..n |-> 0]
      BY <2>2 DEF LoadNothing, Result
    <3> QED
      BY <3>1, ImageAssumption DEF Range
  <2>3. CASE UndefinedLoad(a, n) \/ UndefinedStore(a, n)
    <3>1. last'.kind \in Undefined /\ last'.cells = << >>
      <4>1. \/ last' = Result("undefined load", a, << >>)
            \/ last' = Result("undefined store", a, << >>)
        BY <2>3 DEF UndefinedLoad, UndefinedStore
      <4>2. \A x : Result(x, a, << >>).kind = x /\ Result(x, a, << >>).cells = << >>
        BY DEF Result
      <4> QED
        BY <4>1, <4>2 DEF Undefined
    <3>2. Range(<< >>) = {}
      BY DEF Range
    <3> QED
      BY <3>1, <3>2
  <2> QED
    BY <2>1, <2>2, <2>3
<1>4. data' \in Seq(Seq(Values)) /\ host' \in [DOMAIN image.host -> Values] /\ data' = data
  BY <1>1, <1>2 DEF Typed
<1> QED
  BY <1>1, <1>3, <1>4, AccessKeeps

\* A store keeps the length of the data of a section.
LEMMA StoreSectionKeeps ==
    ASSUME Inv, NEW a \in Addresses, NEW n \in Widths, NEW v \in Values, StoreSection(a, n, v)
    PROVE  Inv'
<1> DEFINE p == try_get_real_addr(a)
<1>1. /\ Running /\ phase = "run" /\ InSection(a, n)
      /\ data' = [data EXCEPT ![p[1]] = [c \in DOMAIN @ |-> IF c \in Stored(p[2], n) THEN v ELSE @[c]]]
      /\ UNCHANGED <<image, phase, seen, sections, gvals, declared, secs, table, host>>
      /\ last'.kind = "store" /\ last'.cells = [i \in 1..n |-> v]
  BY DEF StoreSection, Running, Result
<1>2. PICK k \in 1..Len(sections) : p[1] = k
  BY <1>1, InSectionIs
<1>3. Typed
  BY DEF Inv
<1> HIDE DEF p
<1>4. DEFINE d == [c \in DOMAIN data[k] |-> IF c \in Stored(p[2], n) THEN v ELSE data[k][c]]
<1>5. d \in Seq(Values) /\ Len(d) = Len(data[k])
  <2>1. data[k] \in Seq(Values) /\ DOMAIN data[k] = 1..Len(data[k]) /\ Len(data[k]) \in Nat
    BY <1>3 DEF Typed
  <2>2. d \in [1..Len(data[k]) -> Values]
    BY <2>1
  <2> HIDE DEF d
  <2> QED
    BY <2>1, <2>2
<1>6. data' = [data EXCEPT ![k] = d]
  BY <1>1, <1>2
<1> HIDE DEF d
<1>7. /\ data' \in Seq(Seq(Values)) /\ Len(data') = Len(data)
      /\ \A l \in 1..Len(data) : Len(data'[l]) = Len(data[l])
  <2>1. data \in Seq(Seq(Values)) /\ Len(data) = Len(sections)
    BY <1>3 DEF Typed
  <2> QED
    BY <1>5, <1>6, <2>1
<1>8. host' \in [DOMAIN image.host -> Values] /\ Range(last'.cells) \subseteq Values
  BY <1>1, <1>3 DEF Typed, Range
<1> QED
  BY <1>1, <1>7, <1>8, AccessKeeps

LEMMA StoreHostKeeps ==
    ASSUME Inv, NEW a \in Addresses, NEW n \in Widths, NEW v \in Values, StoreHost(a, n, v)
    PROVE  Inv'
<1>1. /\ Running
      /\ host' = [b \in DOMAIN host |-> IF b \in Stored(a, n) THEN v ELSE host[b]]
      /\ UNCHANGED <<image, phase, seen, sections, gvals, declared, secs, table, data>>
      /\ last'.kind = "store" /\ last'.cells = [i \in 1..n |-> v]
  BY DEF StoreHost, Result
<1>2. Typed
  BY DEF Inv
<1>3. /\ data' \in Seq(Seq(Values)) /\ data' = data
      /\ host' \in [DOMAIN image.host -> Values] /\ Range(last'.cells) \subseteq Values
  BY <1>1, <1>2 DEF Typed, Range
<1> QED
  BY <1>1, <1>3, AccessKeeps

LEMMA NextInv == ASSUME Inv, [Next]_vars PROVE Inv'
<1>1. CASE ReadSection
  BY <1>1, ReadKeeps
<1>2. CASE FinishReading
  BY <1>2, FinishKeeps
<1>3. CASE create_section_globals
  BY <1>3, GlobalsKeep
<1>4. CASE create_sections_array_global
  BY <1>4, TableKeeps
<1>5. CASE \E a \in Addresses, n \in Widths :
            \/ LoadSection(a, n) \/ LoadHost(a, n) \/ LoadNothing(a, n)
            \/ UndefinedLoad(a, n) \/ UndefinedStore(a, n)
            \/ \E v \in Values : StoreSection(a, n, v) \/ StoreHost(a, n, v)
  BY <1>5, LoadSectionKeeps, OtherLoadsKeep, StoreSectionKeeps, StoreHostKeeps
<1>6. CASE UNCHANGED vars
  <2>1. UNCHANGED <<image, phase, seen, sections, gvals, declared, secs, table, data, host, last>>
    BY <1>6 DEF vars
  <2>2. Globals' = Globals /\ (\A j : File(j)' = File(j))
    BY <2>1 DEF Names, File, Globals
  <2>3. Typed' /\ ReadInv'
    BY <2>1, <2>2 DEF Inv, Typed, ReadInv
  <2>4. GlobalsInv' /\ TableInv'
    BY <2>1, <2>2 DEF Inv, GlobalsInv, TableInv
  <2> QED
    BY <2>3, <2>4 DEF Inv
<1> QED
  BY <1>1, <1>2, <1>3, <1>4, <1>5, <1>6 DEF Next

-----------------------------------------------------------------------------
(* The invariants *)

LEMMA SpecInv == Spec => []Inv
  BY InitInv, NextInv, PTL DEF Spec

\* State is of its type; table, globals and cells belong to the sections that
\* were read (TypeOK; mctomir-transform.cpp:474, lifter.cpp:380-468).
THEOREM SectionsTypeOK == Spec => []TypeOK
<1>1. Inv => TypeOK
  <2> SUFFICES ASSUME Inv PROVE TypeOK
    OBVIOUS
  <2>1. Typed /\ ReadInv /\ GlobalsInv /\ TableInv
    BY DEF Inv
  <2>2. Range(sections) \subseteq Range(image.sections)
    BY <2>1, FileIs DEF Typed, Range, File
  <2>3. DOMAIN data = DOMAIN sections /\ DOMAIN data = 1..Len(sections)
    BY <2>1 DEF Typed
  <2>4. \A k \in DOMAIN data : data[k] \in [1..Len(sections[k].bytes) -> Values]
    <3> TAKE k \in DOMAIN data
    <3>1. data[k] \in Seq(Values) /\ Len(data[k]) = Len(sections[k].bytes)
      BY <2>1, <2>3 DEF Typed
    <3> QED
      BY <3>1
  <2>5. DOMAIN gvals = UNION {Range(secs[k]) : k \in DOMAIN secs}
    <3>1. DOMAIN secs = 1..Len(secs)
      BY <2>1 DEF GlobalsInv
    <3> QED
      BY <2>1, <3>1 DEF GlobalsInv, GlobalsOf
  <2>6. \A k \in DOMAIN table : table[k].data \in DOMAIN data
    <3>1. CASE phase = "run"
      BY <2>1, <2>3, <3>1 DEF TableInv
    <3>2. CASE phase # "run"
      <4>1. table = << >> /\ DOMAIN << >> = {}
        BY <2>1, <3>2 DEF TableInv
      <4> QED
        BY <4>1
    <3> QED
      BY <3>1, <3>2
  <2> QED
    BY <2>1, <2>2, <2>3, <2>4, <2>5, <2>6 DEF TypeOK, Typed, GlobalsInv
<1> QED
  BY <1>1, SpecInv, PTL

\* The sections of the file that can be found are among those that were read.
LEMMA FindableRead ==
    ASSUME Inv, phase # "read", NEW a
    PROVE  /\ \A j \in Findable : a \in Span(File(j)) =>
                \E k \in 1..Len(sections) : sections[k] = File(j) /\ Holds(k, a)
           /\ \A k \in 1..Len(sections) : Holds(k, a) =>
                \E j \in Findable : sections[k] = File(j) /\ a \in Span(File(j))
<1>1. Typed /\ ReadInv /\ seen = Len(image.sections) /\ DOMAIN image.sections = 1..Len(image.sections)
  BY FileIs DEF Inv, Typed
<1>2. \A j : j \in Findable <=> /\ j \in 1..seen
                               /\ File(j).alloc /\ File(j).bits
                               /\ File(j).start + File(j).size < 2^AddressBits
  BY <1>1 DEF Findable, File
<1>3. ASSUME NEW j \in Findable, a \in Span(File(j))
      PROVE  \E k \in 1..Len(sections) : sections[k] = File(j) /\ Holds(k, a)
  <2>1. PICK k \in 1..Len(sections) : sections[k] = File(j)
    BY <1>1, <1>2 DEF ReadInv
  <2> QED
    BY <1>2, <1>3, <2>1 DEF Holds
<1>4. ASSUME NEW k \in 1..Len(sections), Holds(k, a)
      PROVE  \E j \in Findable : sections[k] = File(j) /\ a \in Span(File(j))
  <2>1. PICK j \in 1..seen : sections[k] = File(j) /\ File(j).alloc
    BY <1>1 DEF ReadInv
  <2> QED
    BY <1>2, <1>4, <2>1 DEF Holds
<1> QED
  BY <1>3, <1>4

\* An address is found in the table if and only if a section with bytes that does
\* not end with the address space holds it, and then at its place in that section's data, whatever sections the
\* file has, also two with the names of the same globals (LookupExact;
\* lifter.cpp:404, section_intrinsics.cpp:10).
THEOREM LookupIsExact == Spec => []LookupExact
<1>1. Inv => LookupExact
  <2> SUFFICES ASSUME Inv, phase = "run", NEW a \in Addresses
               PROVE  LET p == try_get_real_addr(a)
                          Holding == {k \in Findable : a \in Span(image.sections[k])}
                      IN  IF Holding = {} THEN p[1] = 0
                          ELSE /\ p[1] # 0
                               /\ \A k \in Holding : sections[p[1]] = image.sections[k]
                                                     /\ p[2] = a - image.sections[k].start + 1
    BY DEF LookupExact
  <2> DEFINE p == try_get_real_addr(a)
             Holding == {k \in Findable : a \in Span(image.sections[k])}
  <2>1. Holding = {j \in Findable : a \in Span(File(j))}
    BY DEF File
  <2>2. CASE Holding = {}
    <3>1. \A k \in 1..Len(sections) : ~Holds(k, a)
      BY <2>1, <2>2, FindableRead
    <3>2. p = <<0, 0>>
      BY <3>1, LookupIs
    <3> QED
      BY <2>2, <3>2
  <2>3. CASE Holding # {}
    <3>1. ASSUME NEW j \in Holding
          PROVE  p[1] # 0 /\ sections[p[1]] = image.sections[j] /\ p[2] = a - image.sections[j].start + 1
      <4>1. PICK k \in 1..Len(sections) : sections[k] = File(j) /\ Holds(k, a)
        BY <2>1, <3>1, FindableRead
      <4>2. p = <<k, a - sections[k].start + 1>>
        BY <4>1, LookupIs
      <4> HIDE DEF p
      <4> QED
        BY <4>1, <4>2 DEF File
    <3> HIDE DEF p, Holding
    <3> QED
      BY <2>3, <3>1 DEF p, Holding
  <2> QED
    BY <2>2, <2>3
<1> QED
  BY <1>1, SpecInv, PTL

-----------------------------------------------------------------------------
(* One flat memory *)

Mem == [a \in UNION Objects |-> CellOf(a)]
ReadOnly == UNION {Span(s) : s \in {t \in Range(image.sections) : t.alloc /\ ~t.write}}

\* Where a cell of the flat memory is.
LEMMA CellIs ==
    ASSUME Inv
    PROVE  /\ \A a \in DOMAIN host : CellOf(a) = host[a] /\ a \in Addresses
           /\ \A j \in Findable : \A a \in Span(File(j)) :
                /\ a \in Addresses /\ a \notin DOMAIN host
                /\ phase # "run" => CellOf(a) = File(j).bytes[a - File(j).start + 1]
                /\ phase = "run" => \A k \in 1..Len(sections) :
                        sections[k] = File(j) => CellOf(a) = data[k][a - File(j).start + 1]
<1>1. Typed /\ ReadInv /\ DOMAIN host = DOMAIN image.host
  BY DEF Inv, Typed
<1>2. \A a \in DOMAIN host : CellOf(a) = host[a] /\ a \in Addresses
  BY <1>1, FileIs DEF CellOf, Typed
<1>3. ASSUME NEW j \in Findable, NEW a \in Span(File(j))
      PROVE  /\ a \in Addresses /\ a \notin DOMAIN host
             /\ phase # "run" => CellOf(a) = File(j).bytes[a - File(j).start + 1]
             /\ phase = "run" => \A k \in 1..Len(sections) :
                        sections[k] = File(j) => CellOf(a) = data[k][a - File(j).start + 1]
  <2>1. j \in DOMAIN image.sections /\ File(j).alloc /\ a \in Addresses /\ a \notin DOMAIN host
    BY <1>1, FileIs DEF Typed, Findable, File
  <2>2. ASSUME phase # "run"
        PROVE  CellOf(a) = File(j).bytes[a - File(j).start + 1]
    <3>1. \A l \in Findable : a \in Span(image.sections[l]) => l = j
      BY <1>1, <2>1, FileIs DEF Typed, Findable, File
    <3>2. (CHOOSE l \in Findable : a \in Span(image.sections[l])) = j
      BY <3>1 DEF File
    <3> QED
      BY <2>1, <2>2, <3>2 DEF CellOf, File
  <2>3. ASSUME phase = "run", NEW k \in 1..Len(sections), sections[k] = File(j)
        PROVE  CellOf(a) = data[k][a - File(j).start + 1]
    <3>1. Holds(k, a)
      BY <2>3 DEF Holds, Findable, File
    <3>2. try_get_real_addr(a) = <<k, a - sections[k].start + 1>>
      BY <2>1, <2>3, <3>1, LookupIs
    <3> QED
      BY <2>1, <2>3, <3>2 DEF CellOf
  <2> QED
    BY <2>1, <2>2, <2>3
<1> QED
  BY <1>2, <1>3

LEMMA InObjects ==
    \A a : a \in UNION Objects <=> a \in DOMAIN host \/ \E j \in Findable : a \in Span(File(j))
  BY DEF Objects, File

\* What no step changes.
LEMMA Fixed ==
    ASSUME image' = image, DOMAIN host' = DOMAIN host
    PROVE  /\ Findable' = Findable /\ Objects' = Objects /\ ReadOnly' = ReadOnly
           /\ \A j : File(j)' = File(j)
<1>1. Findable' = Findable
  BY DEF Findable
<1> QED
  BY <1>1 DEF Objects, ReadOnly, File, Range

\* The lookup after a step.
LEMMA LookupNext ==
    (Inv /\ phase = "run" => \A a \in Addresses : \A k \in 1..Len(sections) :
        Holds(k, a) => try_get_real_addr(a) = <<k, a - sections[k].start + 1>>)'
<1>1. Inv /\ phase = "run" => \A a \in Addresses : \A k \in 1..Len(sections) :
        Holds(k, a) => try_get_real_addr(a) = <<k, a - sections[k].start + 1>>
  BY LookupIs
<1> QED
  BY <1>1, PTL

\* As the lifter makes the table, each cell keeps its value.
LEMMA PhasesStutter ==
    ASSUME Inv, Inv', ReadSection \/ FinishReading \/ create_section_globals \/ create_sections_array_global
    PROVE  UNCHANGED <<Mem, Objects, ReadOnly, last>>
<1>1. /\ image' = image /\ host' = host /\ last' = last /\ phase # "run"
      /\ phase' = "run" => phase = "globals" /\ data' = data /\ sections' = sections
  BY DEF ReadSection, FinishReading, create_section_globals, create_sections_array_global
<1>2. /\ Findable' = Findable /\ Objects' = Objects /\ ReadOnly' = ReadOnly
      /\ \A j : File(j)' = File(j)
  BY <1>1, Fixed
<1>3. \A a \in DOMAIN host : CellOf(a) = host[a] /\ CellOf(a)' = host[a]
  BY <1>1 DEF CellOf
<1>4. ASSUME NEW j \in Findable, NEW a \in Span(File(j))
      PROVE  CellOf(a)' = CellOf(a)
  <2>1. CellOf(a) = File(j).bytes[a - File(j).start + 1]
    BY <1>1, CellIs
  <2>2. CASE phase' # "run"
    BY <1>1, <2>2 DEF CellOf, Findable
  <2>3. CASE phase' = "run"
    <3>1. PICK k \in 1..Len(sections) : sections[k] = File(j) /\ Holds(k, a)
      BY <1>1, <2>3, FindableRead
    <3>2. data[k] = sections[k].bytes
      BY <1>1 DEF Inv, ReadInv
    <3>3. try_get_real_addr(a)' = <<k, a - sections[k].start + 1>>
      <4>1. a \in Addresses /\ Holds(k, a)' /\ k \in 1..Len(sections') /\ a \in Addresses'
        BY <1>1, <2>3, <3>1, CellIs DEF Holds, Addresses
      <4>2. \A l \in 1..Len(sections') : Holds(l, a)' => try_get_real_addr(a)' = <<l, a - sections'[l].start + 1>>
        BY <2>3, <4>1, LookupNext
      <4> QED
        BY <1>1, <2>3, <4>1, <4>2
    <3>4. a \notin DOMAIN host
      BY CellIs
    <3> QED
      BY <1>1, <2>1, <2>3, <3>1, <3>2, <3>3, <3>4 DEF CellOf
  <2> QED
    BY <2>2, <2>3
<1>5. \A a \in UNION Objects : CellOf(a)' = CellOf(a)
  BY <1>3, <1>4, InObjects
<1> QED
  BY <1>1, <1>2, <1>5 DEF Mem

LEMMA LoadsKeepMem ==
    ASSUME UNCHANGED <<image, phase, table, data, host>>
    PROVE  UNCHANGED <<Mem, Objects, ReadOnly>>
<1>1. Findable' = Findable /\ Objects' = Objects /\ ReadOnly' = ReadOnly
  BY Fixed
<1>2. \A a : try_get_real_addr(a)' = try_get_real_addr(a)
  BY DEF try_get_real_addr, Hits, In
<1>3. \A a : CellOf(a)' = CellOf(a)
  BY <1>1, <1>2 DEF CellOf
<1> QED
  BY <1>1, <1>3 DEF Mem

\* What an access within a section reads and stores is in its object.
LEMMA SectionAccess ==
    ASSUME Inv, phase = "run", NEW a \in Addresses, NEW n \in Widths, InSection(a, n)
    PROVE  \E j \in Findable, k \in 1..Len(sections) :
            /\ sections[k] = File(j) /\ try_get_real_addr(a) = <<k, a - File(j).start + 1>>
            /\ a..(a + n - 1) \subseteq Span(File(j))
            /\ Span(File(j)) \in Objects
            /\ a \in Nat /\ n \in Nat \ {0} /\ File(j).start \in Nat /\ File(j).start <= a
            /\ Len(data[k]) = File(j).size
<1>1. PICK k \in 1..Len(sections) :
            /\ Holds(k, a) /\ try_get_real_addr(a) = <<k, a - sections[k].start + 1>>
            /\ Len(data[k]) = sections[k].size
            /\ a \in Nat /\ n \in Nat \ {0} /\ sections[k].start \in Nat /\ sections[k].size \in Nat
            /\ a..(a + n - 1) \subseteq Span(sections[k])
  BY InSectionIs
<1>2. PICK j \in Findable : sections[k] = File(j) /\ a \in Span(File(j))
  BY <1>1, FindableRead
<1>3. Span(File(j)) \in Objects
  BY DEF Objects, File
<1>4. File(j).start <= a
  BY <1>1, <1>2 DEF Span
<1> QED
  BY <1>1, <1>2, <1>3, <1>4

LEMMA LoadSectionIsLoad ==
    ASSUME Inv, NEW a \in Addresses, NEW n \in Widths, LoadSection(a, n)
    PROVE  Flat!Load(a, n) /\ UNCHANGED <<Objects, ReadOnly>> /\ last.kind \notin Undefined
<1>1. /\ phase = "run" /\ InSection(a, n) /\ last.kind \notin Undefined
      /\ UNCHANGED <<image, phase, table, data, host>>
      /\ last' = Result("load", a, [i \in 1..n |->
                    data[try_get_real_addr(a)[1]][try_get_real_addr(a)[2] + i - 1]])
  BY DEF LoadSection, Running
<1>2. UNCHANGED <<Mem, Objects, ReadOnly>>
  BY <1>1, LoadsKeepMem
<1>3. PICK j \in Findable, k \in 1..Len(sections) :
            /\ sections[k] = File(j) /\ try_get_real_addr(a) = <<k, a - File(j).start + 1>>
            /\ a..(a + n - 1) \subseteq Span(File(j))
            /\ Span(File(j)) \in Objects
            /\ a \in Nat /\ n \in Nat \ {0} /\ File(j).start \in Nat
  BY <1>1, SectionAccess
<1>4. DOMAIN Mem = UNION Objects
  BY DEF Mem
<1>5. Flat!Within(a, n, DOMAIN Mem)
  BY <1>3, <1>4 DEF Flat!Within, Flat!Span
<1>6. ASSUME NEW i \in 1..n
      PROVE  Mem[a + i - 1] = data[k][a - File(j).start + 1 + i - 1]
  <2> DEFINE b == a + i - 1
  <2>1. b \in Span(File(j)) /\ b - File(j).start + 1 = a - File(j).start + 1 + i - 1
    <3>1. i \in Int /\ 1 <= i /\ i <= n /\ a \in Nat /\ n \in Nat /\ File(j).start \in Nat
      BY <1>3
    <3>2. b \in a..(a + n - 1)
      BY <3>1
    <3>3. b \in Span(File(j))
      BY <1>3, <3>2
    <3> QED
      BY <3>1, <3>3
  <2>2. CellOf(b) = data[k][b - File(j).start + 1]
    BY <1>1, <1>3, <2>1, CellIs
  <2>3. b \in UNION Objects
    BY <1>3, <2>1
  <2> QED
    BY <2>1, <2>2, <2>3 DEF Mem
<1>7. [i \in 1..n |-> Mem[a + i - 1]] =
        [i \in 1..n |-> data[try_get_real_addr(a)[1]][try_get_real_addr(a)[2] + i - 1]]
  <2>1. try_get_real_addr(a)[1] = k /\ try_get_real_addr(a)[2] = a - File(j).start + 1
    BY <1>3
  <2>2. \A i \in 1..n : Mem[a + i - 1] =
            data[try_get_real_addr(a)[1]][try_get_real_addr(a)[2] + i - 1]
    BY <1>6, <2>1
  <2> QED
    BY <2>2
<1>8. last' = Result("load", a, [i \in 1..n |-> Mem[a + i - 1]])
  BY <1>1, <1>7
<1> QED
  BY <1>1, <1>2, <1>5, <1>8 DEF Flat!Load, Flat!Result, Result, Mem

LEMMA LoadHostIsLoad ==
    ASSUME Inv, NEW a \in Addresses, NEW n \in Widths, LoadHost(a, n)
    PROVE  Flat!Load(a, n) /\ UNCHANGED <<Objects, ReadOnly>> /\ last.kind \notin Undefined
<1>1. /\ last.kind \notin Undefined
      /\ UNCHANGED <<image, phase, table, data, host>>
      /\ a..(a + n - 1) \subseteq DOMAIN host
      /\ last' = Result("load", a, [i \in 1..n |-> host[a + i - 1]])
  BY DEF LoadHost, Running, InHost
<1>2. UNCHANGED <<Mem, Objects, ReadOnly>>
  BY <1>1, LoadsKeepMem
<1>3. a \in Nat /\ n \in Nat /\ DOMAIN host \in Objects
  BY ImageAssumption DEF Addresses, Objects
<1>4. DOMAIN Mem = UNION Objects
  BY DEF Mem
<1>5. Flat!Within(a, n, DOMAIN Mem)
  BY <1>1, <1>3, <1>4 DEF Flat!Within, Flat!Span
<1>6. \A i \in 1..n : Mem[a + i - 1] = host[a + i - 1]
  <2> TAKE i \in 1..n
  <2>1. a + i - 1 \in DOMAIN host
    BY <1>1, <1>3
  <2> QED
    BY <1>3, <2>1, CellIs DEF Mem
<1>7. last' = Result("load", a, [i \in 1..n |-> Mem[a + i - 1]])
  BY <1>1, <1>6
<1> QED
  BY <1>1, <1>2, <1>5, <1>7 DEF Flat!Load, Flat!Result, Result, Mem

\* A load that the table does not find is one of which nothing is promised.
LEMMA NothingIsUnspecified ==
    ASSUME Inv, NEW a \in Addresses, NEW n \in Widths, LoadNothing(a, n)
    PROVE  Flat!UnspecifiedLoad(a, n) /\ UNCHANGED <<Objects, ReadOnly>> /\ last.kind \notin Undefined
<1>1. /\ last.kind \notin Undefined /\ phase = "run"
      /\ UNCHANGED <<image, phase, table, data, host>>
      /\ try_get_real_addr(a)[1] = 0 /\ a \notin DOMAIN host
      /\ last' = Result("load", a, [i \in 1..n |-> 0])
  BY DEF LoadNothing, Running
<1>2. UNCHANGED <<Mem, Objects, ReadOnly>>
  BY <1>1, LoadsKeepMem
<1>3. a \in Nat /\ n \in Nat \ {0} /\ 0 \in Values
  BY ImageAssumption DEF Addresses
<1>4. a \notin UNION Objects
  <2>1. \A k \in 1..Len(sections) : ~Holds(k, a)
    BY <1>1, LookupIs
  <2> QED
    BY <1>1, <2>1, InObjects, FindableRead
<1>5. ~Flat!Within(a, n, DOMAIN Mem)
  <2>1. a \in Flat!Span(a, n)
    BY <1>3 DEF Flat!Span
  <2>2. DOMAIN Mem = UNION Objects
    BY DEF Mem
  <2> QED
    BY <1>4, <2>1, <2>2 DEF Flat!Within
<1>6. [i \in 1..n |-> 0] \in [1..n -> Values]
  BY <1>3
<1> QED
  BY <1>1, <1>2, <1>5, <1>6 DEF Flat!UnspecifiedLoad, Flat!Result, Result, Mem

\* The objects are the host's memory and the sections that can be found.
LEMMA InObject ==
    ASSUME NEW o \in Objects
    PROVE  o = DOMAIN host \/ \E j \in Findable : o = Span(File(j))
BY DEF Objects, File

\* An access the host does not answer lies in no object but a section that does.
LEMMA Outside ==
    ASSUME Inv, phase = "run", NEW a \in Addresses, NEW n \in Widths, ~InHost(a, n)
    PROVE  /\ Flat!Span(a, n) = a..(a + n - 1) /\ a \in Flat!Span(a, n)
           /\ ~(Flat!Span(a, n) \subseteq DOMAIN host)
           /\ \A j \in Findable : Flat!Span(a, n) \subseteq Span(File(j)) =>
                /\ InSection(a, n)
                /\ sections[try_get_real_addr(a)[1]] = File(j)
                /\ a \in Span(File(j)) /\ File(j) \in Range(image.sections) /\ File(j).alloc
<1>1. a \in Nat /\ n \in Nat \ {0} /\ Typed
  BY ImageAssumption DEF Addresses, Inv
<1>2. Flat!Span(a, n) = a..(a + n - 1) /\ a \in Flat!Span(a, n)
  BY <1>1 DEF Flat!Span
<1>3. ~(Flat!Span(a, n) \subseteq DOMAIN host)
  <2> SUFFICES ASSUME Flat!Span(a, n) \subseteq DOMAIN host PROVE FALSE
    OBVIOUS
  <2>1. \A k \in 1..Len(sections) : ~Holds(k, a)
    BY <1>2, FindableRead, CellIs
  <2>2. try_get_real_addr(a)[1] = 0
    BY <2>1, LookupIs
  <2> QED
    BY <1>2, <2>2 DEF InHost
<1>4. ASSUME NEW j \in Findable, Flat!Span(a, n) \subseteq Span(File(j))
      PROVE  /\ InSection(a, n)
             /\ sections[try_get_real_addr(a)[1]] = File(j)
             /\ a \in Span(File(j)) /\ File(j) \in Range(image.sections) /\ File(j).alloc
  <2>1. PICK k \in 1..Len(sections) : sections[k] = File(j) /\ Holds(k, a)
    BY <1>2, <1>4, FindableRead
  <2>2. /\ try_get_real_addr(a)[1] = k
        /\ try_get_real_addr(a)[2] = a - File(j).start + 1 /\ k # 0
    BY <2>1, LookupIs
  <2>3. j \in DOMAIN image.sections /\ File(j).alloc /\ File(j).bits /\ image \in Images
    BY <1>1, FileIs DEF Typed, Findable, File
  <2>4. /\ File(j).start \in Nat /\ File(j).size \in Nat
        /\ Len(File(j).bytes) = File(j).size
    BY <2>3, FileIs
  <2>5. data[k] \in Seq(Values) /\ Len(data[k]) = File(j).size
    BY <1>1, <2>1, <2>4 DEF Typed
  <2>6. a \in Span(File(j)) /\ a + n - 1 \in Span(File(j))
    BY <1>1, <1>2, <1>4
  <2>7. a - File(j).start + 1 + n - 1 \in 1..File(j).size
    BY <1>1, <2>4, <2>6 DEF Span
  <2>8. DOMAIN data[k] = 1..File(j).size
    BY <2>5
  <2>9. InSection(a, n)
    <3>1. try_get_real_addr(a)[2] + n - 1 \in DOMAIN data[try_get_real_addr(a)[1]]
      BY <2>2, <2>7, <2>8
    <3> QED
      BY <2>2, <3>1 DEF InSection
  <2> QED
    BY <2>1, <2>2, <2>3, <2>6, <2>9 DEF File, Range
<1> QED
  BY <1>2, <1>3, <1>4

\* Of a load nothing is promised only if it leaves its object: a constant section
\* is read like any other.
LEMMA UndefinedLoadIsUnspecified ==
    ASSUME Inv, NEW a \in Addresses, NEW n \in Widths, UndefinedLoad(a, n)
    PROVE  Flat!UnspecifiedLoad(a, n) /\ UNCHANGED <<Objects, ReadOnly>> /\ last.kind \notin Undefined
<1>1. /\ last.kind \notin Undefined /\ phase = "run"
      /\ UNCHANGED <<image, phase, table, data, host>>
      /\ ~InHost(a, n) /\ ~InSection(a, n)
      /\ last' = Result("undefined load", a, << >>)
  BY DEF UndefinedLoad, Running
<1>2. UNCHANGED <<Mem, Objects, ReadOnly>>
  BY <1>1, LoadsKeepMem
<1>3. ~Flat!Within(a, n, DOMAIN Mem)
  <2>1. ASSUME NEW o \in Objects, Flat!Span(a, n) \subseteq o
        PROVE  FALSE
    <3>1. o = DOMAIN host \/ \E j \in Findable : o = Span(File(j))
      BY InObject
    <3>2. /\ ~(Flat!Span(a, n) \subseteq DOMAIN host)
          /\ \A j \in Findable : Flat!Span(a, n) \subseteq Span(File(j)) => InSection(a, n)
      BY <1>1, Outside
    <3> QED
      BY <1>1, <2>1, <3>1, <3>2
  <2> QED
    BY <2>1 DEF Flat!Within
<1> QED
  BY <1>1, <1>2, <1>3 DEF Flat!UnspecifiedLoad, Flat!Result, Result, Mem

\* A store is undefined only if it leaves its object or the section is constant.
LEMMA UndefinedStoreIsUndefined ==
    ASSUME Inv, NEW a \in Addresses, NEW n \in Widths, UndefinedStore(a, n)
    PROVE  Flat!UndefinedStore(a, n) /\ UNCHANGED <<Objects, ReadOnly>> /\ last.kind \notin Undefined
<1>1. /\ last.kind \notin Undefined /\ phase = "run"
      /\ UNCHANGED <<image, phase, table, data, host>>
      /\ ~InHost(a, n)
      /\ InSection(a, n) => ~sections[try_get_real_addr(a)[1]].write
      /\ last' = Result("undefined store", a, << >>)
  BY DEF UndefinedStore, Running
<1>2. UNCHANGED <<Mem, Objects, ReadOnly>>
  BY <1>1, LoadsKeepMem
<1>3. ~Flat!Within(a, n, DOMAIN Mem \ ReadOnly)
  <2>1. ASSUME NEW o \in Objects, Flat!Span(a, n) \subseteq o \cap (DOMAIN Mem \ ReadOnly)
        PROVE  FALSE
    <3>1. PICK j \in Findable : o = Span(File(j))
      <4>1. o = DOMAIN host \/ \E j \in Findable : o = Span(File(j))
        BY InObject
      <4>2. ~(Flat!Span(a, n) \subseteq DOMAIN host)
        BY <1>1, Outside
      <4> QED
        BY <2>1, <4>1, <4>2
    <3>2. /\ ~File(j).write /\ File(j).alloc /\ File(j) \in Range(image.sections)
          /\ a \in Span(File(j)) /\ a \in Flat!Span(a, n)
      BY <1>1, <2>1, <3>1, Outside
    <3>3. a \in ReadOnly
      BY <3>2 DEF ReadOnly
    <3> QED
      BY <2>1, <3>2, <3>3
  <2> QED
    BY <2>1 DEF Flat!Within
<1> QED
  BY <1>1, <1>2, <1>3 DEF Flat!UndefinedStore, Flat!Result, Result, Mem, ReadOnly

\* A store to a section changes the cells at its addresses and no other: the
\* data of two sections are apart as their addresses are.
LEMMA StoreSectionIsStore ==
    ASSUME Inv, Inv', NEW a \in Addresses, NEW n \in Widths, NEW v \in Values, StoreSection(a, n, v)
    PROVE  Flat!Store(a, n, v) /\ UNCHANGED <<Objects, ReadOnly>> /\ last.kind \notin Undefined
<1>1. /\ phase = "run" /\ InSection(a, n) /\ last.kind \notin Undefined
      /\ sections[try_get_real_addr(a)[1]].write
      /\ data' = [data EXCEPT ![try_get_real_addr(a)[1]] =
            [c \in DOMAIN @ |-> IF c \in Stored(try_get_real_addr(a)[2], n) THEN v ELSE @[c]]]
      /\ UNCHANGED <<image, phase, seen, sections, gvals, declared, secs, table, host>>
      /\ last' = Result("store", a, [i \in 1..n |-> v])
  BY DEF StoreSection, Running
<1>2. /\ Findable' = Findable /\ Objects' = Objects /\ ReadOnly' = ReadOnly
      /\ \A j : File(j)' = File(j)
  BY <1>1, Fixed
<1>3. PICK j \in Findable, k \in 1..Len(sections) :
            /\ sections[k] = File(j) /\ try_get_real_addr(a) = <<k, a - File(j).start + 1>>
            /\ a..(a + n - 1) \subseteq Span(File(j))
            /\ Span(File(j)) \in Objects
            /\ a \in Nat /\ n \in Nat \ {0} /\ File(j).start \in Nat /\ File(j).start <= a
            /\ Len(data[k]) = File(j).size
  BY <1>1, SectionAccess
<1>4. /\ Typed /\ ReadInv /\ j \in DOMAIN image.sections /\ File(j).alloc /\ File(j).write
      /\ File(j).size \in Nat
  <2>1. try_get_real_addr(a)[1] = k
    BY <1>3
  <2>2. Typed /\ ReadInv /\ j \in DOMAIN image.sections /\ File(j).alloc
    BY DEF Inv, Findable, File
  <2> QED
    BY <1>1, <1>3, <2>1, <2>2, FileIs DEF Typed
<1> DEFINE p == a - File(j).start + 1
<1>5. data' = [data EXCEPT ![k] =
            [c \in DOMAIN data[k] |-> IF c \in p..(p + n - 1) THEN v ELSE data[k][c]]]
  <2>1. try_get_real_addr(a)[1] = k /\ try_get_real_addr(a)[2] = p
    BY <1>3
  <2> HIDE DEF p
  <2> QED
    BY <1>1, <2>1 DEF Stored
<1>0. \A b : try_get_real_addr(b)' = try_get_real_addr(b)
  <2>1. table' = table
    BY <1>1
  <2> QED
    BY <2>1 DEF try_get_real_addr, Hits, In
<1>6. ASSUME NEW b \in Span(File(j))
      PROVE  CellOf(b)' = IF b \in a..(a + n - 1) THEN v ELSE CellOf(b)
  <2> DEFINE c == b - File(j).start + 1
  <2>1. CellOf(b) = data[k][c]
    BY <1>1, <1>3, CellIs
  <2>2. b \in Addresses /\ b \notin DOMAIN host /\ Holds(k, b)
    BY <1>3, CellIs DEF Holds, Findable, File
  <2>3. try_get_real_addr(b) = <<k, c>> /\ try_get_real_addr(b)' = try_get_real_addr(b)
    BY <1>1, <1>3, <1>0, <2>2, LookupIs
  <2>4. CellOf(b)' = data'[k][c]
    BY <1>1, <2>2, <2>3 DEF CellOf
  <2>5. /\ c \in 1..File(j).size /\ b \in Nat
        /\ c \in p..(p + n - 1) <=> b \in a..(a + n - 1)
    <3>1. b \in File(j).start..(File(j).start + File(j).size - 1)
      BY DEF Span
    <3>2. \A s, z, x, m \in Nat : \A y \in s..(s + z - 1) :
            /\ y - s + 1 \in 1..z /\ y \in Nat
            /\ y - s + 1 \in (x - s + 1)..(x - s + 1 + m - 1) <=> y \in x..(x + m - 1)
      OBVIOUS
    <3>3. File(j).start \in Nat /\ File(j).size \in Nat /\ a \in Nat /\ n \in Nat
      BY <1>3, <1>4
    <3> HIDE DEF File
    <3> QED
      BY <3>1, <3>2, <3>3
  <2>6. DOMAIN data[k] = 1..File(j).size /\ k \in DOMAIN data
    <3>1. data[k] \in Seq(Values) /\ k \in DOMAIN data
      BY <1>3, <1>4 DEF Typed
    <3> QED
      BY <1>3, <3>1
  <2>7. data'[k][c] = IF c \in p..(p + n - 1) THEN v ELSE data[k][c]
    <3> HIDE DEF c, p
    <3> QED
      BY <1>5, <2>5, <2>6
  <2> HIDE DEF c, p
  <2> QED
    BY <2>1, <2>4, <2>5, <2>7
<1>7. ASSUME NEW i \in Findable, i # j, NEW b \in Span(File(i))
      PROVE  CellOf(b)' = CellOf(b) /\ b \notin a..(a + n - 1)
  <2>1. i \in DOMAIN image.sections /\ File(i).alloc /\ b \notin Span(File(j))
    BY <1>4, <1>7, FileIs DEF Typed, Findable, File
  <2>2. PICK l \in 1..Len(sections) : sections[l] = File(i) /\ Holds(l, b)
    BY <1>1, FindableRead
  <2>3. l # k
    BY <1>3, <2>1, <2>2
  <2>4. b \in Addresses /\ b \notin DOMAIN host
    BY CellIs
  <2>5. /\ try_get_real_addr(b) = <<l, b - File(i).start + 1>>
        /\ try_get_real_addr(b)' = try_get_real_addr(b)
    BY <1>1, <1>0, <2>2, <2>4, LookupIs
  <2>6. data'[l] = data[l]
    BY <1>4, <1>5, <2>2, <2>3 DEF Typed
  <2> QED
    BY <1>1, <1>3, <2>1, <2>4, <2>5, <2>6 DEF CellOf
<1>8. ASSUME NEW b \in DOMAIN host
      PROVE  CellOf(b)' = CellOf(b) /\ b \notin a..(a + n - 1)
  BY <1>1, <1>3, <1>8, CellIs DEF CellOf
<1>9. /\ DOMAIN Mem = UNION Objects
      /\ Mem' = [b \in DOMAIN Mem |-> IF b \in Flat!Span(a, n) THEN v ELSE Mem[b]]
  <2>1. \A b \in UNION Objects :
            CellOf(b)' = IF b \in Flat!Span(a, n) THEN v ELSE CellOf(b)
    BY <1>6, <1>7, <1>8, InObjects DEF Flat!Span
  <2> QED
    BY <1>2, <2>1 DEF Mem
<1>10. Flat!Within(a, n, DOMAIN Mem \ ReadOnly)
  <2>1. ASSUME NEW b \in Flat!Span(a, n), b \in ReadOnly
        PROVE  FALSE
    <3>1. PICK i \in DOMAIN image.sections : b \in Span(File(i)) /\ File(i).alloc /\ ~File(i).write
      BY <1>4, <2>1 DEF ReadOnly, Range, File
    <3>2. b \in Span(File(j)) /\ i # j
      BY <1>3, <1>4, <3>1 DEF Flat!Span
    <3> QED
      BY <1>4, <3>1, <3>2, FileIs DEF Typed
  <2>2. Flat!Span(a, n) \subseteq Span(File(j))
    BY <1>3 DEF Flat!Span
  <2> QED
    BY <1>3, <1>9, <2>1, <2>2 DEF Flat!Within
<1> QED
  BY <1>1, <1>2, <1>9, <1>10 DEF Flat!Store, Flat!Result, Result, Mem, ReadOnly

LEMMA StoreHostIsStore ==
    ASSUME Inv, NEW a \in Addresses, NEW n \in Widths, NEW v \in Values, StoreHost(a, n, v)
    PROVE  Flat!Store(a, n, v) /\ UNCHANGED <<Objects, ReadOnly>> /\ last.kind \notin Undefined
<1>1. /\ last.kind \notin Undefined
      /\ a..(a + n - 1) \subseteq DOMAIN host
      /\ host' = [b \in DOMAIN host |-> IF b \in a..(a + n - 1) THEN v ELSE host[b]]
      /\ UNCHANGED <<image, phase, seen, sections, gvals, declared, secs, table, data>>
      /\ last' = Result("store", a, [i \in 1..n |-> v])
  BY DEF StoreHost, Running, InHost, Stored
<1>2. Findable' = Findable /\ Objects' = Objects /\ ReadOnly' = ReadOnly /\ DOMAIN host' = DOMAIN host
  BY <1>1, Fixed
<1>3. Typed /\ DOMAIN host = DOMAIN image.host /\ DOMAIN host \in Objects
  BY DEF Inv, Typed, Objects
<1>4. \A b : try_get_real_addr(b)' = try_get_real_addr(b)
  BY <1>1 DEF try_get_real_addr, Hits, In
<1>5. \A b \in DOMAIN host : CellOf(b)' = IF b \in a..(a + n - 1) THEN v ELSE CellOf(b)
  BY <1>1, <1>2 DEF CellOf
<1>6. \A b : b \notin DOMAIN host => CellOf(b)' = CellOf(b) /\ b \notin a..(a + n - 1)
  BY <1>1, <1>2, <1>4 DEF CellOf
<1>7. /\ DOMAIN Mem = UNION Objects
      /\ Mem' = [b \in DOMAIN Mem |-> IF b \in Flat!Span(a, n) THEN v ELSE Mem[b]]
  BY <1>2, <1>5, <1>6 DEF Mem, Flat!Span
<1>8. Flat!Within(a, n, DOMAIN Mem \ ReadOnly)
  <2>1. ASSUME NEW b \in DOMAIN host, b \in ReadOnly
        PROVE  FALSE
    <3>1. PICK i \in DOMAIN image.sections : b \in Span(File(i)) /\ File(i).alloc
      BY <1>3, <2>1, FileIs DEF ReadOnly, Range, File, Typed
    <3> QED
      BY <1>3, <3>1, FileIs DEF Typed
  <2> QED
    BY <1>1, <1>3, <1>7, <2>1 DEF Flat!Within, Flat!Span
<1> QED
  BY <1>1, <1>2, <1>7, <1>8 DEF Flat!Store, Flat!Result, Result, Mem, ReadOnly

LEMMA StepRefines ==
    ASSUME Inv, Inv', [Next]_vars
    PROVE  \/ Flat!Next
           \/ UNCHANGED <<Mem, Objects, ReadOnly, last>>
<1>1. CASE ReadSection \/ FinishReading \/ create_section_globals \/ create_sections_array_global
  BY <1>1, PhasesStutter
<1>2. ASSUME NEW a \in Addresses, NEW n \in Widths,
             \/ LoadSection(a, n) \/ LoadHost(a, n) \/ LoadNothing(a, n)
             \/ UndefinedLoad(a, n) \/ UndefinedStore(a, n)
             \/ \E v \in Values : StoreSection(a, n, v) \/ StoreHost(a, n, v)
      PROVE  Flat!Next
  <2>1. /\ \/ Flat!Load(a, n) \/ Flat!UnspecifiedLoad(a, n) \/ Flat!UndefinedStore(a, n)
           \/ \E v \in Values : Flat!Store(a, n, v)
        /\ UNCHANGED <<Objects, ReadOnly>> /\ last.kind \notin Undefined
    BY <1>2, LoadSectionIsLoad, LoadHostIsLoad, NothingIsUnspecified, UndefinedLoadIsUnspecified,
       UndefinedStoreIsUndefined, StoreSectionIsStore, StoreHostIsStore
  <2> QED
    BY <2>1 DEF Flat!Next, ReadOnly, Undefined, Flat!Undefined
<1>3. CASE UNCHANGED vars
  <2>1. UNCHANGED <<image, phase, table, data, host, last>>
    BY <1>3 DEF vars
  <2> QED
    BY <2>1, LoadsKeepMem
<1> QED
  BY <1>1, <1>2, <1>3 DEF Next

\* Lifted code sees one flat memory: what a load gives is what the last store
\* to its addresses, or the file, has put there, in constant sections too, whatever
\* sections the file has and in whatever order.  Nothing is promised of an access
\* that leaves its object and of a store to a constant section (Refines;
\* lifter.cpp:380, 431, 463).
THEOREM OneFlatMemory == Spec => Refines
<1>1. Init => Flat!Init
  BY DEF Init, Flat!Init, Result, Flat!Result
<1>2. Inv /\ Inv' /\ [Next]_vars =>
        [Flat!Next]_<<[a \in UNION Objects |-> CellOf(a)], Objects,
                      UNION {Span(s) : s \in {t \in Range(image.sections) : t.alloc /\ ~t.write}}, last>>
  BY StepRefines DEF Mem, ReadOnly
<1> QED
  BY <1>1, <1>2, SpecInv, PTL DEF Spec, Refines, Flat!Spec
===============================================================================
