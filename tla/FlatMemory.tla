----------------------------- MODULE FlatMemory -----------------------------
(***************************************************************************)
(* What lifted code is promised of its data: one memory of cells, as the   *)
(* machine has it after the program was loaded.  An access stays within    *)
(* one object, and a load within one always gives what is there, also      *)
(* where nothing may be stored.  Nothing is promised of other accesses: a  *)
(* load gives anything, and after undefined behaviour nothing happens any  *)
(* more.                                                                   *)
(***************************************************************************)
EXTENDS Naturals

CONSTANTS
    Addresses,
    Widths,     \* how many cells an access may have
    Values

VARIABLES
    mem,        \* the cells, by address
    objects,    \* sets of addresses
    readonly,   \* addresses that must not be stored to
    last        \* the last access: its kind, address and cells

Span(a, n) == a..(a + n - 1)

Within(a, n, cells) == \E o \in objects : Span(a, n) \subseteq o \cap cells

Result(kind, a, cells) == [kind |-> kind, at |-> a, cells |-> cells]

Undefined == {"undefined load", "undefined store"}

Init == last = Result("none", 0, << >>)

Load(a, n) ==
    /\ Within(a, n, DOMAIN mem)
    /\ last' = Result("load", a, [i \in 1..n |-> mem[a + i - 1]])
    /\ UNCHANGED mem

Store(a, n, v) ==
    /\ Within(a, n, DOMAIN mem \ readonly)
    /\ mem' = [b \in DOMAIN mem |-> IF b \in Span(a, n) THEN v ELSE mem[b]]
    /\ last' = Result("store", a, [i \in 1..n |-> v])

UnspecifiedLoad(a, n) ==
    /\ ~Within(a, n, DOMAIN mem)
    /\ \/ \E cells \in [1..n -> Values] : last' = Result("load", a, cells)
       \/ last' = Result("undefined load", a, << >>)
    /\ UNCHANGED mem

UndefinedStore(a, n) ==
    /\ ~Within(a, n, DOMAIN mem \ readonly)
    /\ last' = Result("undefined store", a, << >>)
    /\ UNCHANGED mem

Next ==
    /\ last.kind \notin Undefined
    /\ \E a \in Addresses, n \in Widths :
        \/ Load(a, n) \/ UnspecifiedLoad(a, n) \/ UndefinedStore(a, n)
        \/ \E v \in Values : Store(a, n, v)
    /\ UNCHANGED <<objects, readonly>>

Spec == Init /\ [][Next]_<<mem, objects, readonly, last>>
=============================================================================
