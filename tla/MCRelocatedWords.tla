---------------------------- MODULE MCRelocatedWords ----------------------------
(***************************************************************************)
(* Worlds for TLC: an object with main (a shared one that only imports may *)
(* do without), one name - an object x, a function f or a thread-local t - *)
(* in every shape it can have there, and up to three references to it from *)
(* text, data, read-only data and debugging sections; and a second object  *)
(* that defines the name, asks for it, or has a local symbol of that name. *)
(***************************************************************************)
EXTENDS RelocatedWords

CONSTANTS MaxRefs,    \* references of the first object, whatever their types
          MaxCoreRefs \* ... of the types that compete for one name

S(n, b, k, d, v, a) == [name |-> n, bind |-> b, kind |-> k, def |-> d, vis |-> v, abs |-> a]
Main == S("main", "global", "func", TRUE, "default", FALSE)
NameOf == [object |-> "x", func |-> "f", tls |-> "t"]

(* The shapes of the name in the first object.                             *)
Defined1(k) == {S(NameOf[k], b, k, TRUE, v, FALSE) : b \in {"local", "global", "weak"},
                                                     v \in {"default", "protected"}}
Asked(k) == {S(NameOf[k], b, k, FALSE, "default", FALSE) : b \in {"global", "weak"}}
Odd(k) == CASE k = "object" -> {S("x", b, "object", TRUE, "default", TRUE) : b \in {"local", "global"}}
            [] k = "func"   -> {S("f", b, "ifunc", d, "default", FALSE) : b \in {"local", "global"}, d \in BOOLEAN}
                                 \cup {S("f", "global", "ifunc", TRUE, "default", TRUE)}
                                 \cup {S("f", "global", "notype", FALSE, "default", FALSE),
                                       S("f", "global", "func", TRUE, "hidden", FALSE)}
            [] k = "tls"    -> {S("t", "global", "notype", FALSE, "default", FALSE)}
Real(s) == s.bind = "local" => s.def /\ s.vis = "default"
Shapes(k) == {s \in Defined1(k) \cup Asked(k) \cup Odd(k) : Real(s)}

(* References, with the section they are in.                               *)
At(section, types) == {section} \X types
PlacesOf(m, k) ==
    IF k = "tls" THEN At("text", IF m \in {"static", "static_pie"} THEN {"GOTTPOFF", "TPOFF32", "DTPOFF32", "TLSGD"}
                                 ELSE TlsTypes \cup {"GOTPCREL"})
    ELSE At("text", PcTypes \cup {"GOTPCREL"})
           \cup At("data", {"64"} \cup IF m = "pie" THEN {"PC32"} ELSE {}) \cup At("rodata", {"64"})
           \cup At("debug", IF m = "pie" THEN {"64", "PC32"} ELSE {"64"})
           \cup At("text", IF m = "static" THEN {"GOT64", "GOTPC32", "GOTOFF64", "SIZE32"}
                           ELSE IF m = "static_pie" THEN {"SIZE32"} ELSE {})
Core(m, k) ==
    IF k = "tls" THEN At("text", IF m \in {"static", "static_pie"} THEN {"GOTTPOFF", "TPOFF32"} ELSE TlsTypes)
    ELSE At("text", PcTypes \cup {"GOTPCREL"}) \cup At("data", {"64"})
Lists(P, lo, hi) == UNION {[1 .. n -> P] : n \in lo .. hi}
PlacedRefs(m, k) == Lists(PlacesOf(m, k), 1, MaxRefs) \cup Lists(Core(m, k), 1, MaxCoreRefs)

(* Neighbours in one section make one table.                               *)
FlagsOf == [text |-> {"alloc", "exec"}, data |-> {"alloc", "write"}, rodata |-> {"alloc"}, debug |-> {}]
TablesFor(p, s) ==
    LET starts == SelectSeq([i \in DOMAIN p |-> i], LAMBDA i : i = 1 \/ p[i][1] # p[i - 1][1])
        EndOf(k) == IF k = Len(starts) THEN Len(p) ELSE starts[k + 1] - 1
    IN [k \in DOMAIN starts |->
          [flags |-> FlagsOf[p[starts[k]][1]],
           refs  |-> [i \in 1 .. EndOf(k) - starts[k] + 1 |-> [type |-> p[starts[k] + i - 1][2], sym |-> s]]]]

(* The second object, if any.                                              *)
NoTables == <<>>
Text(type, s) == <<[flags |-> FlagsOf["text"], refs |-> <<[type |-> type, sym |-> s]>>]>>
Use(k) == IF k = "tls" THEN "GOTTPOFF" ELSE "GOTPCREL"
Defs2(k) ==
    {S(NameOf[k], "global", k, TRUE, v, FALSE) : v \in {"default", "protected"}}
      \cup {S(NameOf[k], "weak", k, TRUE, "default", FALSE)}
      \cup IF k = "object" THEN {S("x", "global", k, TRUE, "default", TRUE)} ELSE {}
Namesake(k) == S(NameOf[k], "local", k, TRUE, "default", FALSE)
Seconds(k, s) ==
    {<<>>}
      \cup {<<[symbols |-> {u}, tables |-> Text(Use(k), u)]>> : u \in Asked(k)}
      \cup (IF s.def THEN {} ELSE {<<[symbols |-> {d}, tables |-> NoTables]>> : d \in Defs2(k)})
      \cup (IF k = "func" THEN {<<[symbols |-> {Namesake(k)}, tables |-> Text("PLT32", Namesake(k))]>>} ELSE {})

(* Names a version script of a shared object keeps local: none, or the     *)
(* name, or every one.                                                     *)
Localized(m, s, second) ==
    IF m = "shared" /\ (s.def \/ \E i \in DOMAIN second : \E d \in second[i].symbols : d.def)
    THEN {{}, {s.name}, {s.name, "main"}} ELSE {{}}

(* What compilers add: the call that follows a general- or local-dynamic   *)
(* sequence, and the symbol of the GOT.                                    *)
Call == S(TlsGetAddr, "global", "notype", FALSE, "default", FALSE)
Base == S(GotSymbol, "global", "notype", FALSE, "default", FALSE)
Extras(m, k) ==
    {[symbols |-> {}, tables |-> <<>>]} \cup
    IF m \in {"static", "static_pie"} THEN {}
    ELSE IF k = "tls" THEN {[symbols |-> {Call}, tables |-> Text("PLT32", Call)]}
    ELSE {[symbols |-> {Base}, tables |-> <<>>]}

MCFamilies ==
    UNION {{mk} \X {<<s, second>> : second \in Seconds(mk[2], s)} :
              <<mk, s>> \in {z \in (Modes \X DOMAIN NameOf) \X UNION {Shapes(k) : k \in DOMAIN NameOf} :
                              z[2] \in Shapes(z[1][2])}}
MCWorlds(f) ==
    LET m == f[1][1]
        s == f[2][1]
        second == f[2][2]
    IN {[mode |-> m, localized |-> l,
         objects |-> <<[symbols |-> own \cup {s} \cup e.symbols,
                        tables |-> TablesFor(p, s) \o e.tables]>> \o second] :
           p \in PlacedRefs(m, f[1][2]), e \in Extras(m, f[1][2]), l \in Localized(m, s, second),
           own \in {{Main}} \cup IF m = "shared" /\ ~s.def THEN {{}} ELSE {}}
=================================================================================
