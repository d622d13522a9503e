---------------------------- MODULE MCImageLayout ----------------------------
(***************************************************************************)
(* Section lists for TLC, with pages of eight bytes: every list of up to   *)
(* MaxFree shapes, and longer lists of writable sections behind a text     *)
(* section, where memory-only space crosses pages before more file data.   *)
(***************************************************************************)
EXTENDS ImageLayout

CONSTANTS MaxFree,     \* the longest unconstrained list
          MaxWritable  \* the longest list of writable sections

S(p, n, t, z, a) == [perm |-> p, nobits |-> n, tls |-> t, size |-> z, align |-> a]

Text   == {S("RX", FALSE, FALSE, 3, 2), S("RX", FALSE, FALSE, 0, 1)}
Rodata == {S("R", FALSE, FALSE, 5, 0)}
Data   == {S("RW", FALSE, FALSE, 3, 1), S("RW", FALSE, FALSE, 9, 4)}
Bss    == {S("RW", TRUE, FALSE, 2, 2), S("RW", TRUE, FALSE, 11, 1)}
Tdata  == {S("RW", FALSE, TRUE, 2, 2)}
Tbss   == {S("RW", TRUE, TRUE, 3, 1), S("RW", TRUE, TRUE, 9, 16)}
Odd    == {S("RWX", FALSE, FALSE, 1, 1), S("R", FALSE, FALSE, 1, 3),
           S("RW", TRUE, FALSE, 80, 1), S("RW", TRUE, TRUE, 0, 1)}

Lists(T, lo, hi) == UNION {[1 .. n -> T] : n \in lo .. hi}
MCSectionLists ==
    Lists(Text \cup Rodata \cup Data \cup Bss \cup Tdata \cup Tbss \cup Odd, 1, MaxFree)
      \cup {<<t>> \o w : t \in Text \ {S("RX", FALSE, FALSE, 0, 1)},
                        w \in Lists(Data \cup Bss \cup Tdata \cup Tbss, 3, MaxWritable)}
MCBases == {16, 19}
=============================================================================
