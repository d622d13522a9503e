----------------------------- MODULE MCLoaderImage -----------------------------
(***************************************************************************)
(* Links of up to three sections, with every use of the synthetic tables.  *)
(***************************************************************************)
EXTENDS LoaderImage

(* .09, .0foo, .10, .1a, .9 and .late, in byte order: numbers whose bytes  *)
(* are not in the order of their values, two that are equal, and names     *)
(* before, between and after them.                                         *)
P09   == [number |-> 9, text |-> 0]
Early == [number |-> -1, text |-> 1]
P10   == [number |-> 10, text |-> 2]
Mid   == [number |-> -1, text |-> 3]
P9    == [number |-> 9, text |-> 4]
Late  == [number |-> -1, text |-> 5]

In(kind, perm, suffix, size, align) ==
    [kind |-> kind, perm |-> perm, suffix |-> suffix, size |-> size, align |-> align]
Text == In("text", "RX", Base, 8, 16)
Data == In("data", "RW", Base, 12, 4)
Bss  == In("bss", "RW", Base, 8, 8)
Tls  == In("tls", "RW", Base, 8, 8)
Array(kind, suffix) == In(kind, "RW", suffix, 8, 8)

Plain == {Text, Data, Bss, Tls}
Arrays == {Array("init", p) : p \in {Base, P09, Early, P10, Mid, P9, Late}}
            \cup {In("init", "RW", P9, 16, 16), Array("fini", Base), Array("fini", P10),
                  Array("fini", Early),
                  Array("preinit", Base)}
Faults == {In("init", "R", Base, 8, 8), In("fini", "RW", Base, 12, 8)}

Sequences(S, n) == UNION {[1 .. k -> S] : k \in 0 .. n}
NoNeed == [got |-> 0, ie |-> 0, gd |-> 0, ld |-> 0, desc |-> 0, plt |-> 0]
Of(pie, bindNow, ibt, inputs, copies, need) ==
    [pie |-> pie, bindNow |-> bindNow, ibt |-> ibt, inputs |-> inputs, common |-> 0,
     copies |-> copies, need |-> need, init |-> "none", fini |-> "none"]

(* Every order of the arrays among other sections.                         *)
LifecycleLinks ==
    {[Of(pie, FALSE, "off", inputs, <<>>, NoNeed) EXCEPT !.init = "function", !.fini = h] :
       pie \in BOOLEAN, h \in {"none", "function"},
       inputs \in Sequences(Plain \cup Arrays, 3) \cup Sequences(Faults \cup {Data}, 2)}
(* The hooks that are refused.                                             *)
HookLinks ==
    {[Of(TRUE, FALSE, "off", <<Text>>, <<>>, NoNeed) EXCEPT !.init = i, !.fini = f] :
       i \in Hooks, f \in Hooks}
(* Every policy with every use of the tables.                              *)
Needs == {n \in [got : 0 .. 1, ie : {0, 1}, gd : {0, 2}, ld : {0, 1}, desc : {0, 2},
                 plt : 0 .. 2] :
            n.gd + n.desc < 3}
TableLinks ==
    {[Of(l[1], l[2], l[3], inputs, copies, need) EXCEPT !.common = common] :
       l \in BOOLEAN \X BOOLEAN \X {"off", "plt", "property"},
       inputs \in {<<Text, Data>>, <<Data, Tls, Array("init", P9)>>},
       copies \in {<<>>, <<4, 8>>}, common \in {0, 8}, need \in Needs}
LinkSets ==
    LifecycleLinks \cup HookLinks \cup {l \in TableLinks : l.pie \/ l.copies = <<>>}
IbtLinks == {l \in TableLinks : l.ibt # "off"}
===============================================================================
