---------------------------- MODULE MCDynamicTables ----------------------------
EXTENDS ImageInspection

(* "g" collides with "f", "z" with "f" but for the bit that ends a chain.  *)
MCHash == [f |-> 12, fa |-> 71, g |-> 12, h |-> 101, z |-> 13]
MCVersions == <<"V1", "V2", "V3">>
MCFiles == <<"liba", "libb">>
MCMatches == [All |-> {"f", "fa", "g", "h", "z"}, F |-> {"f", "fa"}, Fa |-> {"fa"}]

Definition(base, at, version) == [base |-> base, at |-> at, version |-> version]
Plain == <<Definition("f", "", ""), Definition("fa", "", ""), Definition("g", "", "")>>
Aliases == <<Definition("f", "", ""), Definition("f", "@@", "V1"), Definition("f", "@@", "V2"),
             Definition("f", "@", "V1"), Definition("f", "malformed", ""),
             Definition("fa", "@", "V3"), Definition("g", "@@", "V1")>>

Imported(base, version, copy) == [base |-> base, version |-> version, copy |-> copy]
Require(base, wanted, file, version) ==
    [linker |-> <<base, wanted>>, file |-> file, version |-> version]

(* The elements of a list that a set of positions chooses, in order.       *)
Chosen(list, positions) ==
    LET at == SortSeq(SetToSeq(positions), LAMBDA x, y : x < y)
    IN [k \in DOMAIN at |-> list[at[k]]]
Subsequences(list, most) ==
    {Chosen(list, s) : s \in {t \in SUBSET DOMAIN list : Cardinality(t) <= most}}

Link(definitions, nodes, imports, requirements, checked) ==
    [definitions |-> definitions, scripted |-> nodes # <<>>, nodes |-> nodes,
     imports |-> imports, requirements |-> requirements, checked |-> checked]

NoImports == {<<>>}
SomeImports == {<<>>, <<Imported("h", "", FALSE)>>, <<Imported("g", "", TRUE), Imported("h", "", FALSE)>>}

(* Definitions that name their versions.                                   *)
Explicit ==
    {Link(d, <<>>, i, <<>>, {}) : d \in Subsequences(Aliases, 4), i \in SomeImports}

(* Version scripts of up to three nodes.                                   *)
Node(version, globals, exact, prefixes, local, parent) ==
    [version |-> version, globals |-> globals, exact |-> exact, prefixes |-> prefixes,
     local |-> local, parent |-> parent]
First == {Node(v, TRUE, exact, prefixes, local, parent) :
            v \in {"V1", "V3"}, exact \in {<<>>, <<"f">>, <<"f", "f">>},
            prefixes \in {<<>>, <<"F">>, <<"F", "F">>}, local \in BOOLEAN, parent \in {"", "V2"}}
Second == {Node("V2", globals, exact, prefixes, FALSE, parent) :
             globals \in BOOLEAN, exact \in {<<>>, <<"f">>, <<"fa", "g">>},
             prefixes \in {<<>>, <<"Fa">>, <<"F">>}, parent \in {"", "V1", "V3"}}
Third == {Node("V1", FALSE, <<>>, <<>>, TRUE, ""), Node("V3", TRUE, <<"h">>, <<"All">>, FALSE, "V1")}
Nodes == {<<a>> : a \in First} \cup {<<a, b>> : a \in First, b \in Second}
         \cup {<<a, b, c>> : a \in {n \in First : n.exact = <<>>},
                             b \in {n \in Second : n.exact # <<"f">>}, c \in Third}
Scripted ==
    {Link(Plain, n, <<>>, <<>>, {}) :
       n \in Nodes \cup {<<Node("V1", FALSE, <<>>, <<>>, TRUE, "")>>}}
    \cup {Link(d, n, i, <<>>, {}) :
            d \in {<<>>, <<Plain[1]>>, <<Aliases[1], Aliases[6]>>}, i \in SomeImports,
            n \in {<<Node("V1", TRUE, exact, prefixes, local, "")>> :
                     exact \in {<<>>, <<"f">>}, prefixes \in {<<>>, <<"All">>}, local \in BOOLEAN}}

(* Versioned imports of two providers, and COPY relocations of theirs.     *)
Wanted == <<Imported("f", "V1", FALSE), Imported("fa", "V2", FALSE), Imported("g", "V1", FALSE),
            Imported("h", "", FALSE), Imported("z", "", TRUE)>>
Versioning ==
    {Link(d, n, i, r, checked) :
       d \in {<<Definition("h", "@@", "V2")>>, <<Definition("h", "", "")>>},
       n \in {<<>>},
       i \in Subsequences(Wanted, 5),
       r \in {<<>>} \cup {<<Require("f", "V1", a, "V1"), Require("fa", "V2", b, v)>> :
                            a, b \in {"liba", "libb"}, v \in {"V1", "V2"}}
             \cup {<<Require("f", "V1", a, "V1"), Require("fa", "V2", b, "V2"),
                     Require(g, "V1", c, "V1")>> :
                     a, b, c \in {"liba", "libb"}, g \in {"f", "g"}}
             \cup {<<Require("g", "V1", a, "V1")>> : a \in {"liba", "libb"}},
       checked \in {{"liba"}, {"liba", "libb"}}}

(* Links that are carried to the file: every kind of dynamic relocation,   *)
(* for a function f, an object fa and a thread-local g of the image, an    *)
(* imported h and an object z that may be copied.                          *)
Slots(names, at) == [k \in DOMAIN names |-> [name |-> names[k], slot |-> at + 16 * k, addend |-> k]]
Place(section, tls, value, size) ==
    [section |-> section, tls |-> tls, ifunc |-> FALSE, value |-> value, size |-> size]
Home == [f |-> Place("text", FALSE, 16, 8), fa |-> Place("data", FALSE, 260, 8),
         g |-> Place("tdata", TRUE, 8, 8), z |-> Place("copy", FALSE, 480, 8)]
Uses(got, plt, tls, sites, executable) ==
    [at |-> Home, tlsImports |-> {}, needed |-> <<1>>, strings |-> 13, executable |-> executable,
     relative |-> IF got = <<>> THEN <<>> ELSE Slots(<<"", "">>, 270), packed |-> sites # <<>>,
     sites |-> Slots(sites, 300), got |-> Slots(got, 330), plt |-> Slots(plt, 360),
     gd |-> IF "gd" \in tls THEN Slots(<<"g">>, 380) ELSE <<>>,
     ld |-> IF "ld" \in tls THEN Slots(<<"">>, 400) ELSE <<>>,
     ie |-> IF "ie" \in tls THEN Slots(<<"g">>, 420) ELSE <<>>,
     desc |-> IF "desc" \in tls THEN Slots(<<"g">>, 430) ELSE <<>>,
     given |-> IF executable THEN {"RUNPATH", "FLAGS", "PREINIT_ARRAY", "FINI"}
               ELSE {"SONAME", "SYMBOLIC", "FLAGS", "INIT", "INIT_ARRAY", "FINI_ARRAY"}]
Members == <<Definition("f", "", ""), Definition("fa", "", ""), Definition("g", "", "")>>
CarriedLinks ==
    {Link(Members, IF copy THEN <<>> ELSE <<Node("V2", TRUE, <<"f">>, <<>>, FALSE, "")>>,
          <<Imported("h", "V1", FALSE), Imported("z", "", copy)>>, <<Require("h", "V1", "liba", "V1")>>, {"liba"})
       @@ [uses |-> Uses(got, plt, tls, sites, copy)] :
       copy \in BOOLEAN,
       got \in {<<>>, <<"f">>, <<"f", "h">>}, plt \in {<<>>, <<"f", "h">>},
       tls \in {{}, {"gd"}, {"gd", "ld"}, {"ie", "desc"}},
       sites \in {<<>>, <<"fa", "f">>}}
MCOwnOptions == {[bias |-> 64, module |-> 3, block |-> -64]}

MCLinks == Explicit \cup Scripted \cup Versioning \cup CarriedLinks

-----------------------------------------------------------------------------
(* Images from elsewhere.  Symbol 7 has no readable name, 8 no memory.     *)
Symbol(name, section, tls, ifunc, value, size) ==
    [name |-> name, section |-> section, tls |-> tls, ifunc |-> ifunc, value |-> value, size |-> size]
Dynsym == <<Symbol("f", "text", FALSE, FALSE, 16, 8), Symbol("fa", "data", FALSE, FALSE, 300, 8),
            Symbol("g", "undef", FALSE, FALSE, 0, 0), Symbol("h", "abs", FALSE, FALSE, 60, 0),
            Symbol("z", "tdata", TRUE, FALSE, 8, 8), Symbol("k", "text", FALSE, TRUE, 40, 8),
            Symbol("unreadable", "text", FALSE, FALSE, 16, 8),
            Symbol("v", "text", FALSE, FALSE, 3000, 8)>>
Tag(tag, value) == [tag |-> tag, value |-> value]
Chains(count, lasts) == [k \in 1 .. count |-> [last |-> k \in lasts]]
GnuArea(offset, buckets, blooms, count, lasts) ==
    [offset |-> offset, buckets |-> buckets, blooms |-> blooms, chains |-> Chains(count, lasts)]
Foreign(rela, plt, rel) ==
    [kind |-> "dyn", dynamics |-> 1,
     loads |-> <<[start |-> 0, file |-> 128, memory |-> 128, flags |-> {"x"}],
                 [start |-> 256, file |-> 100, memory |-> 200, flags |-> {"w"}],
                 [start |-> 512, file |-> 1400, memory |-> 1400, flags |-> {}]>>,
     tags |-> <<Tag("HASH", 512), Tag("GNU_HASH", 600), Tag("SYMTAB", 680), Tag("SYMENT", 24),
                Tag("STRTAB", 900), Tag("STRSZ", 20), Tag("RELA", 1000), Tag("RELASZ", 24 * Len(rela)),
                Tag("RELAENT", 24), Tag("JMPREL", 1700), Tag("PLTRELSZ", 24 * Len(plt)),
                Tag("PLTREL", 7), Tag("REL", 1800), Tag("RELSZ", 16 * Len(rel)),
                Tag("RELENT", 16), Tag("NULL", 0), Tag("NULL", 0)>>,
     holds |-> (512 :> [count |-> 9]) @@ (600 :> GnuArea(1, (0 :> 1), 1, 8, {8}))
               @@ (680 :> Dynsym) @@ (1000 :> rela) @@ (1700 :> plt) @@ (1800 :> rel)
               @@ (16 :> 7) @@ (256 :> 7) @@ (300 :> 9)]
WithoutJmprel(i) == [i EXCEPT !.tags = SelectSeq(@, LAMBDA t : t.tag \notin PltTags)]

(* One entry of a tool's own type, in the table the tool looks into.       *)
OneEntry(tool, e) ==
    LET entry == [offset |-> e.offset, symbol |-> e.symbol, addend |-> e.addend,
                  type |-> IF tool \in Listings THEN "8" ELSE RelocationType[tool]]
    IN IF tool \in PltTools THEN Foreign(<<>>, <<entry>>, <<>>)
       ELSE IF tool \in RelTools
       THEN Foreign(<<>>, <<>>, <<[offset |-> e.offset, symbol |-> e.symbol, type |-> entry.type]>>)
       ELSE WithoutJmprel(Foreign(<<entry>>, <<>>, <<>>))
Session(tool, o, images) == [tool |-> tool, own |-> FALSE, options |-> o, images |-> images]
Options(bias, block) == [bias |-> bias, module |-> 1, block |-> block]

(* Values at and beside every limit, for an address, an object of the TLS  *)
(* block and a size; and at the end of the address space.                  *)
Edges == {47, 48, 239, 240, 495, 496, 1007, 1008, 207, 208, 271, 272, 111, 112, 367, 368, -272, -273,
          751, 752, -1808, -1809, 2287, 2288, 503, 504, -520, -521, 567, 568, 1015, 1016, -8, -9,
          -16, -17, 4079, 4080, 4087, 4088, 2103, 2104}
EdgeSessions ==
    {Session(tool, o, <<OneEntry(tool, [offset |-> 256, symbol |-> s, addend |-> a])>>) :
       tool \in Tools \ PltTools, s \in {1, 5}, a \in Edges, o \in {Options(0, -64), Options(100, 0)}}

(* Every symbol, and places in, beside and across the writable segment.    *)
PlaceSessions ==
    {Session(tool, o, <<OneEntry(tool, [offset |-> p, symbol |-> s, addend |-> a])>>) :
       tool \in Tools, s \in 0 .. 9, p \in {16, 256, 300, 450, 455}, a \in {0, 20},
       o \in {Options(0, 0), Options(3800, 0)}}

(* A table with an entry of every kind; its image with one or two things   *)
(* wrong, or unusual, about the tables.                                    *)
Typed(type, symbol, offset, addend) ==
    [type |-> type, symbol |-> symbol, offset |-> offset, addend |-> addend]
AllTypes ==
    Foreign(<<Typed("8", 1, 256, 0), Typed("16", 1, 256, 0), Typed("32", 2, 260, 4),
              Typed("32S", 1, 256, 0), Typed("64", 2, 256, -3), Typed("GLOB_DAT", 6, 256, 0),
              Typed("COPY", 2, 300, 0), Typed("DTPMOD64", 5, 264, 0), Typed("DTPOFF32", 5, 264, 2),
              Typed("DTPOFF64", 5, 272, 0), Typed("TPOFF32", 5, 280, 0), Typed("TPOFF64", 5, 280, 1),
              Typed("PC8", 2, 300, 9), Typed("PC16", 3, 300, 0), Typed("PC32", 2, 256, 0),
              Typed("PC64", 1, 256, 0), Typed("SIZE32", 1, 256, 0), Typed("SIZE64", 2, 256, 0),
              Typed("RELATIVE", 0, 256, 40), Typed("RELATIVE64", 0, 256, 44),
              Typed("IRELATIVE", 0, 256, 40), Typed("TLSDESC", 5, 256, 0)>>,
            <<Typed("JUMP_SLOT", 3, 256, 0), Typed("JUMP_SLOT", 1, 264, 0)>>,
            <<[type |-> "RELATIVE", symbol |-> 0, offset |-> 256],
              [type |-> "8", symbol |-> 1, offset |-> 256]>>)

Drop(i, tag)   == [i EXCEPT !.tags = SelectSeq(@, LAMBDA t : t.tag # tag)]
Double(i, tag) == [i EXCEPT !.tags = <<Tag(tag, Value(i, tag))>> \o @]
Put(i, tag, value) == [i EXCEPT !.tags = [k \in DOMAIN @ |-> IF @[k].tag = tag THEN Tag(tag, value)
                                                            ELSE @[k]]]
AllTags == {t.tag : t \in Range(AllTypes.tags)} \ {"NULL"}
Gnu(i, area) == [i EXCEPT !.holds[600] = area]
Wrong ==
    {<<"drop", t, 0>> : t \in AllTags \cup {"NULL"}} \cup {<<"double", t, 0>> : t \in AllTags}
    \cup {<<"put", t[1], t[2]>> : t \in {<<"HASH", 2000>>, <<"HASH", 1908>>, <<"GNU_HASH", 1900>>,
            <<"GNU_HASH", 2000>>, <<"SYMTAB", 1900>>, <<"SYMENT", 16>>, <<"STRSZ", 2000>>,
            <<"RELASZ", 25>>, <<"RELASZ", 3600>>, <<"RELAENT", 16>>, <<"PLTREL", 17>>,
            <<"PLTRELSZ", 0>>, <<"RELSZ", 8>>}}
    \cup {<<w, "", 0>> : w \in {"kind", "none", "two", "behind", "empty", "unended", "early"}}
    \cup {<<"gnu", "", k>> : k \in 1 .. 4}
Areas == <<GnuArea(1, (0 :> 0) @@ (1 :> 4), 2, 8, {3, 8}), GnuArea(3, (0 :> 2), 1, 8, {8}),
           GnuArea(1, (0 :> 1), 3, 8, {8}), GnuArea(9, (0 :> 0), 4, 8, {})>>
Spoil(i, w) ==
    CASE w[1] = "drop" -> Drop(i, w[2])
      [] w[1] = "double" -> IF Places(i, w[2]) = {} THEN i ELSE Double(i, w[2])
      [] w[1] = "put" -> Put(i, w[2], w[3])
      [] w[1] = "kind" -> [i EXCEPT !.kind = "exec"]
      [] w[1] = "none" -> [i EXCEPT !.dynamics = 0]
      [] w[1] = "two" -> [i EXCEPT !.dynamics = 2]
      [] w[1] = "behind" -> [i EXCEPT !.tags = Append(@, Tag("RELASZ", 24))]
      [] w[1] = "empty" -> [i EXCEPT !.holds[512] = [count |-> 0]]
      [] w[1] = "unended" -> Gnu(Drop(i, "HASH"), GnuArea(1, (0 :> 1), 1, 8, {}))
      [] w[1] = "early" -> [i EXCEPT !.holds[512] = [count |-> 3]]
      [] w[1] = "gnu" -> Gnu(Drop(i, "HASH"), Areas[w[3]])
TableSessions ==
    {Session(tool, Options(0, -64), <<Spoil(AllTypes, w)>>) : tool \in Tools, w \in Wrong}
    \cup {Session("u8", Options(0, 0), <<Spoil(Spoil(AllTypes, w), x)>>) :
            w \in Wrong, x \in {y \in Wrong : y[1] \in {"put", "gnu", "early", "behind"}}}

(* Two images, either of which may be refused or have nothing to show.     *)
Second2 == {AllTypes, Drop(AllTypes, "HASH"), Spoil(AllTypes, <<"kind", "", 0>>), Foreign(<<>>, <<>>, <<>>)}
PairSessions ==
    {Session(tool, Options(0, 0), <<x, y>>) : tool \in Tools, x, y \in Second2}

MCSessions == EdgeSessions \cup PlaceSessions \cup TableSessions \cup PairSessions
=============================================================================
