---------------------------- MODULE MC_Sections ----------------------------
(***************************************************************************)
(* Images of up to three sections over eight addresses: every layout of    *)
(* two sections with bytes, next to each other, up to the last address or  *)
(* empty, and a third one without bytes or not loaded.                     *)
(***************************************************************************)
EXTENDS Sections

Section(name, start, size, write) ==
    [name |-> name, start |-> start, size |-> size, alloc |-> TRUE, write |-> write,
     bits |-> TRUE, bytes |-> [i \in 1..size |-> i % 2]]
Bss(start, size) ==
    [Section("bss", start, size, TRUE) EXCEPT !.bits = FALSE, !.bytes = << >>]
Comment ==
    [Section("comment", 0, 2, FALSE) EXCEPT !.alloc = FALSE]

\* .data and data are two sections whose globals have the same names.
Pairs == {<<Section("rodata", s, n, FALSE), Section("data", t, m, TRUE)>> :
            s \in {0, 3}, t \in {2, 4, 6}, n \in 1..2, m \in {0, 2}}
Sequences ==
    {p \in Pairs : p[1].start + p[1].size <= p[2].start}
    \cup {<<Comment, Section("data", 4, 2, TRUE), Bss(6, 1), Section("data", 1, 2, FALSE)>>}

HostAddresses == {{}, {0, 1}, {7}}
MC_Images ==
    {x \in {[sections |-> s, declared |-> d, host |-> [a \in h |-> 0]] :
                s \in Sequences, h \in HostAddresses,
                d \in {{}, {<<"data", "start">>, <<"data", "size">>, <<"sbss", "start">>}}} :
        \A k \in DOMAIN x.sections :
            x.sections[k].alloc => Span(x.sections[k]) \cap DOMAIN x.host = {}}

=============================================================================
