---------------------------- MODULE MCLinkInputs ----------------------------
(***************************************************************************)
(* Argument lists and files for TLC.                                       *)
(*   - Every list of up to MaxFree arguments, and longer ones with a group *)
(*     around every short list of files and markers.  libA needs libB,     *)
(*     which needs libC; the group (libB libA main.o) takes one member in  *)
(*     each repetition and so needs as many as it has members.             *)
(*   - Up to MaxInputs files, each whole or not, after something that asks *)
(*     for a symbol.  The archives ring1 and ring2 need each other, ring1  *)
(*     twice; stale has two stale index entries; bare has no index, torn a *)
(*     bad one, and libX does not parse.  ask.o asks strongly for one name *)
(*     and weakly for another.                                             *)
(***************************************************************************)
EXTENDS CommandLine

CONSTANTS MaxFree,    \* the longest unconstrained argument list
          MaxInGroup, \* the longest list inside the group of a longer one
          MaxInputs,  \* the most files in a list without groups
          MaxSearch   \* the most arguments that are searched

Sym(n, b, u) == [name |-> n, bind |-> b, undef |-> u]
Def(n)  == Sym(n, "global", FALSE)
WDef(n) == Sym(n, "weak", FALSE)
Ask(n)  == Sym(n, "global", TRUE)
WAsk(n) == Sym(n, "weak", TRUE)

MCNames == {"_start", "main", "a", "b", "c", "d", "w"}
MCBadUnits == {"bad"}
MCSymbols ==
    [crt  |-> {Def("_start"), Ask("main")},
     main |-> {Def("main"), Ask("a")},
     a1   |-> {Def("a"), Ask("b")},
     b1   |-> {Def("b"), Ask("c"), WAsk("d")},
     c1   |-> {Def("c"), Ask("d"), Ask("a")},
     c2   |-> {Def("d")},
     ask  |-> {Def("main"), Ask("a"), WAsk("w"), Sym("a", "local", FALSE)},
     alt  |-> {WDef("b"), Ask("c")},
     r11  |-> {Def("a"), Ask("b"), Ask("main"), WAsk("w")},
     r12  |-> {Def("c"), Def("w"), Ask("a")},
     r21  |-> {WDef("main"), WDef("w"), Ask("a")},
     r22  |-> {Def("b"), Ask("c"), Ask("a")},
     gnu  |-> {Sym("w", "unique", FALSE)},
     bad  |-> {}]
MCUnits == DOMAIN MCSymbols

Entry(n, m) == [name |-> n, member |-> m]
File(k, m, i) == [kind |-> k, members |-> m, index |-> i]
Object(u) == File("object", <<u>>, <<>>)

MCContent ==
    "<crt>"  :> Object("crt")  @@ "main.o" :> Object("main") @@
    "ask.o"  :> Object("ask")  @@ "alt.o"  :> Object("alt")  @@ "gnu.o" :> Object("gnu") @@
    "libA"   :> File("archive", <<"a1">>, <<Entry("a", 1)>>) @@
    "libB"   :> File("archive", <<"b1">>, <<Entry("b", 1)>>) @@
    "libC"   :> File("archive", <<"c1", "c2">>, <<Entry("d", 2), Entry("c", 1)>>) @@
    "ring1"  :> File("archive", <<"r11", "r12">>, <<Entry("a", 1), Entry("c", 2), Entry("w", 2)>>) @@
    "ring2"  :> File("archive", <<"r21", "r22">>, <<Entry("b", 2), Entry("main", 1), Entry("w", 1)>>) @@
    "stale"  :> File("archive", <<"bad", "r12", "gnu">>,
                     <<Entry("c", 2), Entry("b", 2), Entry("a", 1), Entry("w", 3)>>) @@
    "bare"   :> File("unindexed", <<"alt", "r12">>, <<>>) @@
    "torn"   :> File("badindex", <<"r12">>, <<>>) @@
    "libX"   :> File("badarchive", <<>>, <<>>) @@
    "gone"   :> File("unreadable", <<>>, <<>>)
MCPaths == DOMAIN MCContent

(* The startup object is never named on the command line.                  *)
Tokens  == {"main.o", "libA", "libB", "libC", "libX", "gone"} \cup Markers
InGroup == {"main.o", "libA", "libB", "libC", "--start-group", "--end-group",
            "--push-state", "--pop-state", "--whole-archive"}
Lists(S, lo, hi) == UNION {[1 .. n -> S] : n \in lo .. hi}

Grouped == {pre \o <<"--start-group">> \o s \o <<"--end-group">> :
              pre \in {<<>>, <<"main.o">>, <<"--push-state", "--whole-archive">>},
              s \in Lists(InGroup, 1, MaxInGroup)}
(* A closing pair after it, and a late object after a push/pop in a group. *)
Closed  == {<<"--push-state", "--whole-archive", "--start-group">> \o s \o
            <<"--end-group", "--pop-state", "libA">> : s \in Lists(InGroup, 1, 2)}

(* Files one after the other.                                              *)
InFull(S) == {<<"--whole-archive", p, "--no-whole-archive">> : p \in S}
Archives  == {"ring1", "ring2", "stale", "bare", "torn", "libX"}
Asking1   == {<<"ask.o">>, <<"alt.o">>, <<"gnu.o">>} \cup InFull(Archives)
Mentions  == Asking1 \cup {<<p>> : p \in Archives}
Files     == Mentions \cup {FlattenSeq(<<f>> \o s) : f \in Asking1, s \in Lists(Mentions, 1, MaxInputs - 1)}

MCArgumentLists == Lists(Tokens, 0, MaxFree) \cup Grouped \cup Closed \cup Files
MCCommands == {"partial", "link"}
MCForced == {{}, {"b", "d", "w"}}
MCSequences == {<<>>}

-----------------------------------------------------------------------------
(* Command lines: one, two or three options around the inputs, or -L, -l   *)
(* and group markers in any order; and scripts in and out of the subset.   *)
MCDirectories ==
    "d1" :> (<<"A", "a">> :> "libA" @@ <<"B", "a">> :> "libB") @@
    "d2" :> (<<"A", "so">> :> "gnu.o" @@ <<"A", "a">> :> "libC" @@ <<"B", "a">> :> "libC")
MCAbsolute == {"/ld"}
MCAddresses == {"0x1", "0x2"}
MCVersionScripts == "v" :> TRUE @@ "w" :> FALSE

Simple == <<"SECTIONS", "{", ".", "=", "0x1", ";", "}">>
Text   == <<"SECTIONS", "{", ".text", "0x2", ":", "{", "*", "(", ".text", ")", "}", "}">>
Both   == <<"/*", "x", "*/", "ENTRY", "(", "main", ")", "SECTIONS", "{", ".", "=", "0x1", ";",
            ".text", ":", "{", "*", "(", ".text", ".text.*", ")", "}", "}">>
Without(s, k) == SubSeq(s, 1, k - 1) \o SubSeq(s, k + 1, Len(s))
Twice(s, k)   == SubSeq(s, 1, k) \o SubSeq(s, k, Len(s))
Damages == [k \in 1 .. 2 * Len(Both) |-> IF k <= Len(Both) THEN Without(Both, k) ELSE Twice(Both, k - Len(Both))]
           \o [k \in 1 .. 2 * Len(Text) |-> IF k <= Len(Text) THEN Without(Text, k) ELSE Twice(Text, k - Len(Text))]
Damaged == {"damaged" \o ToString(k) : k \in DOMAIN Damages}
MCScripts == "s" :> Simple @@ "t" :> Text @@ "b" :> Both @@ "c" :> (<<"/*">> \o Simple)
             @@ [n \in Damaged |-> Damages[CHOOSE k \in DOMAIN Damages : n = "damaged" \o ToString(k)]]

Option(o) == << <<o>> >>
Split(o, v) == << <<o>>, <<v>> >>
Joined(o, v) == << <<o, v>> >>
Phrases ==
    {Option(o) : o \in {"--pie", "--dynamic-pie", "--shared", "--crt-startup", "-Bsymbolic"}}
    \cup {Split("-z", k) : k \in {"ibt", "now", "pack-relative-relocs", "ibtplt"}}
    \cup {Split(o, "x") : o \in {"--soname", "--needed", "-init", "--map", "--entry", "-e"}}
    \cup {Joined(o, "x") : o \in {"--runpath", "-fini", "-Map", "--entry", "-e", "--needed-from"}}
    \cup {Split("-u", "a"), Joined("--undefined", "b"), Split("--dynamic-linker", "/ld"),
          Joined("--dynamic-linker", "x"), Joined("--soname", ""), Split("--image-base", "0x1"),
          Joined("-Ttext-segment", "0x2"), Joined("--image-base", "x"), Split("-T", "s"), Joined("-T", "t"),
          Joined("--script", "b"), Split("--version-script", "v"), Joined("--version-script", "w"),
          Joined("--shared", "x"), Option("--runpath"), Option("--entry"), Option("-z")}

Linking(tokens) == << <<"link">>, <<"-o">>, <<"out">> >> \o tokens
Main == << <<"main.o">> >>
Modes == {<<>>, Option("--pie"), Option("--dynamic-pie"), Option("--shared")}
OptionLines ==
    {Linking(m \o p \o q \o Main) : m \in {<<>>, Option("--dynamic-pie")}, p \in Phrases, q \in Phrases}
    \cup {Linking(p \o Main \o q) : p, q \in Phrases} \cup {Linking(Main \o m \o p) : m \in Modes, p \in Phrases}
    \cup {Linking(Split("-T", d) \o Main) : d \in Damaged \cup {"c", "gone"}}

Search_ == {Split("-L", "d1"), Joined("-L", "d2"), Joined("--library-path", "none"), Split("-l", "A"), Joined("-l", "B"),
            << <<"--library", ":", "A", "a">> >>, << <<"-l">>, <<":", "A", "so">> >>,
            Option("-("), Option("-)"), Option("--start-group"), Main}
Searched   == {FlattenSeq(s) : s \in Lists(Search_, 1, MaxSearch)}
Found      == {Split("-L", "d1") \o Joined("-L", "d2") \o s : s \in Searched}
SearchLines ==
    {Linking(m \o s) : m \in {<<>>, Option("--shared")}, s \in Searched \cup Found}
    \cup {<< <<"partial">>, <<"--output", "out">> >> \o s : s \in {Split("-u", "a") \o f : f \in Found}}
OtherLines == {<< <<c>> >> \o s : c \in {"link", "partial", "other"},
                                 s \in {<<>>, Option("-o"), Joined("--output", "") \o Main, Main, Joined("--output", "x") \o Main}}
MCCommandLines == OptionLines \cup SearchLines \cup OtherLines
=============================================================================
