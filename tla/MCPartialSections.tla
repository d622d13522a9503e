--------------------------- MODULE MCPartialSections --------------------------
(***************************************************************************)
(* Objects for TLC's check of the sections of a partial link: text of      *)
(* several sizes and alignments with a relocation, COMDAT groups of one    *)
(* and two signatures, memory-only, merge-string and link-order sections,  *)
(* and an object for every ground of refusal.  Every pair of them, and     *)
(* every triple of the sound ones, is linked.                              *)
(***************************************************************************)
EXTENDS PartialSections

MCNames == {"a", "b", "l", "x"}
MCSectionNames == {".text", ".bss", ".rela", "str", "meta", "note", "group", "own"}
MCCanonical == {".text", ".bss"}

S(name, kind, size, align) ==
    [name |-> name, kind |-> kind, alloc |-> kind \in {"progbits", "nobits"},
     flagged |-> FALSE, order |-> FALSE, strings |-> FALSE, flags |-> "r", size |-> size,
     align |-> align, link |-> 0, info |-> 0, relocs |-> <<>>, members |-> <<>>,
     signature |-> 0, comdat |-> FALSE]
Text(z, a) == S(".text", "progbits", z, a)
Rela(target, rs) == [S(".rela", "rela", 0, 8) EXCEPT !.info = target, !.relocs = rs]
R(o, n) == [offset |-> o, symbol |-> n]
In1(s) == [s EXCEPT !.flagged = TRUE]
Group(sig, ms) == [S("group", "group", 0, 4) EXCEPT !.signature = sig, !.members = ms,
                                                    !.comdat = TRUE]
Note(z) == [S("note", "progbits", z, 1) EXCEPT !.alloc = FALSE]
Meta(target) == [S("meta", "progbits", 1, 1) EXCEPT !.order = TRUE, !.link = target]

Y(n, b, p, z, v, sec) == [symbol |-> [name |-> n, bind |-> b, place |-> p, size |-> z,
                                      value |-> v], section |-> sec]
Def(n, v, sec)  == Y(n, "global", "section", 1, v, sec)
Weak1(n, sec)   == Y(n, "weak", "section", 1, 0, sec)
Local(v, sec)   == Y("l", "local", "section", 1, v, sec)
Undef(n)        == Y(n, "global", "undef", 0, 0, 0)
O(ss, ys) == [sections |-> ss, symbols |-> ys]

Texts == {O(<<Text(z, a), Rela(1, <<R(z - 1, 2), R(0, 1)>>)>>, <<Local(z - 1, 1), Undef("a")>>) :
            z \in {1, 3}, a \in {1, 4}}
         \cup {O(<<Text(2, 2), [Text(1, 1) EXCEPT !.flags = "rw"],
                   Rela(2, <<R(0, 1), R(0, 0)>>)>>, <<Weak1("a", 1)>>)}

(* A group around a's text, and a caller outside that names a.             *)
Comdat(z) == O(<<Group(1, <<2, 3>>), In1(Text(z, 2)), In1(Rela(2, <<R(z - 1, 2)>>)),
                 Text(1, 1), Rela(4, <<R(0, 1)>>)>>, <<Weak1("a", 2), Local(0, 2)>>)
Comdats == {Comdat(1), Comdat(3),
            O(<<Group(1, <<2, 3>>), In1(Text(1, 1)), In1(Note(1)), Group(2, <<5, 6>>),
                In1(Text(2, 2)), In1(Rela(5, <<R(1, 1)>>))>>, <<Weak1("a", 2), Weak1("b", 5)>>)}

Others == {O(<<S(".bss", "nobits", z, 4)>>, <<Def("b", 1, 1)>>) : z \in {3, 20}}
          \cup {O(<<[S("str", "progbits", 2, 1) EXCEPT !.strings = TRUE],
                    S("own", "progbits", 1, 1), Rela(2, <<R(0, 1)>>)>>, <<Local(1, 1)>>),
                O(<<Meta(2), Text(1, 1), Rela(1, <<R(0, 1)>>)>>, <<Local(0, 2)>>)}

(* One fault each.                                                         *)
A1 == <<Weak1("a", 2)>>
LinkOrder(m, t) == O(<<m, t>>, <<>>)
Faults ==
    {O(<<[Group(1, <<2>>) EXCEPT !.comdat = FALSE], In1(Text(1, 1))>>, A1),
     O(<<Group(1, <<2>>), Text(1, 1)>>, A1),
     O(<<Group(1, <<2, 2>>), In1(Text(1, 1))>>, A1),
     O(<<Group(1, <<2>>), In1(S("own", "other", 1, 1))>>, A1),
     O(<<Group(1, <<2>>), In1([Note(1) EXCEPT !.order = TRUE])>>, A1),
     O(<<Group(1, <<2>>), In1([Note(1) EXCEPT !.info = 1])>>, A1),
     O(<<Group(1, <<2>>), In1(Rela(3, <<>>)), Text(1, 1)>>, A1),
     O(<<Text(1, 1), In1(Note(1))>>, <<>>),
     O(<<Group(1, <<2>>), In1(Text(1, 1))>>, <<Weak1("", 2)>>),
     O(<<In1(Text(1, 1))>>, <<>>),
     O(<<[Text(1, 1) EXCEPT !.info = 1]>>, <<>>),
     LinkOrder([Meta(2) EXCEPT !.kind = "nobits"], Text(1, 1)),
     LinkOrder([Meta(2) EXCEPT !.info = 1], Text(1, 1)),
     LinkOrder(In1(Meta(2)), Text(1, 1)),
     LinkOrder(Meta(3), Text(1, 1)), LinkOrder(Meta(2), Note(1)), LinkOrder(Meta(2), Meta(2)),
     O(<<Group(1, <<2>>), In1(Text(1, 1)), Meta(2)>>, A1),
     O(<<Text(1, 1), Note(1), Rela(2, <<R(0, 1)>>)>>, <<Local(0, 1)>>),
     O(<<Text(1, 1), Note(1)>>, <<Local(0, 2)>>),
     O(<<Group(1, <<2>>), In1(Text(1, 1)), Text(1, 1), Rela(3, <<R(0, 2)>>)>>,
       <<Weak1("a", 2), Local(0, 2)>>),
     O(<<Group(1, <<2>>), In1(Text(1, 1)), Group(2, <<4>>), In1(Text(1, 1))>>,
       <<Weak1("a", 2), Weak1("x", 2)>>)}

Sound == Texts \cup Comdats \cup Others
MCInputs == Sound \X Sound \X Sound \cup (Sound \cup Faults) \X (Sound \cup Faults)
MCStreams == {SymbolsOf(objs) : objs \in MCInputs}
=============================================================================
