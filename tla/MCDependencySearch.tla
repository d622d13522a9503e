--------------------------- MODULE MCDependencySearch ---------------------------
EXTENDS DependencySearch

App == <<"app">>
Lib == <<"app", "lib">>
Usr == <<"usr">>

(* "d" is one file next to the program and another in /usr; "c" of /usr is *)
(* the file of /app under a second path.                                   *)
MCTree == App :> [a |-> "A", b |-> "B", c |-> "C"]
       @@ Lib :> [d |-> "D"]
       @@ Usr :> [d |-> "E", c |-> "C"]

Symbol(name, type, index, size) ==
    [name |-> name, type |-> type, binding |-> "global", visibility |-> "default",
     defined |-> TRUE, index |-> index, hidden |-> FALSE, size |-> size]
F == Symbol("f", "func", 2, 0)
G == Symbol("g", "ifunc", 3, 0)
X(size) == Symbol("x", "object", 1, size)

File(soname, needed, runpath, symbols) ==
    [soname |-> soname, needed |-> needed, runpath |-> runpath, symbols |-> symbols,
     versym |-> TRUE, verdef |-> <<"base", "V1", "V2">>]

Import(name, type, version, copy) ==
    [linker |-> <<name, version>>, name |-> name, type |-> type, version |-> version,
     copy |-> copy]
Versions == <<Import("f", "func", "V1", FALSE), Import("g", "func", "V2", FALSE)>>

Provider(directory, name) == [kind |-> "provider", directory |-> directory, name |-> name]
Named(name) == [kind |-> "name", name |-> name]

Own == <<[kind |-> "origin", path |-> <<"lib">>]>>
Absolute == <<[kind |-> "absolute", path |-> Usr], [kind |-> "origin", path |-> <<>>]>>
Wrong == <<[kind |-> "bad"]>>

(* Graphs of up to five files, with cycles, diamonds and missing files.    *)
Graphs ==
    {[specs |-> specs, imports |-> Versions, paths |-> paths,
      files |-> [A |-> File("a", na, <<>>, sa), B |-> File("b", nb, rb, sb),
                 C |-> File("c", nc, Own, sc), D |-> File("d", nd, <<>>, {F, G}),
                 E |-> File("e", <<>>, <<>>, {G})]] :
     specs \in {<<Provider(App, "a")>>, <<Provider(App, "a"), Named("n"), Provider(Usr, "c")>>},
     paths \in {<<>>, <<Usr>>},
     na \in {<<"b", "c">>, <<"c", "b">>, <<"b">>}, sa \in {{}, {F}},
     nb \in {<<>>, <<"d">>, <<"c", "a">>}, rb \in {<<>>, Own, Absolute, Wrong}, sb \in {{}, {G}},
     nc \in {<<"d">>, <<"b", "d">>}, sc \in {{}, {F}, {G}},
     nd \in {<<>>, <<"b">>}}

(* COPY relocations of one object or two from two providers.               *)
Copies ==
    {[specs |-> <<Provider(App, "a"), Provider(App, "b"), Named("b")>>, paths |-> <<>>,
      imports |-> imports,
      files |-> [A |-> File("a", <<"b">>, <<>>, sa), B |-> File(soname, <<>>, <<>>, sb),
                 C |-> File("c", <<>>, <<>>, {}), D |-> File("d", <<>>, <<>>, {}),
                 E |-> File("e", <<>>, <<>>, {})]] :
     imports \in {<<Import("x", "object", "", TRUE)>>,
                  <<Import("f", "func", "", FALSE), Import("x", "object", "", TRUE)>>,
                  <<Import("x", "object", "V1", TRUE)>>},
     sa \in {{}, {F}, {X(0)}, {X(4)}, {X(4), Symbol("x", "object", 2, 8)}},
     sb \in {{}, {X(4)}, {X(8)}}, soname \in {"a", "b", ""}}

(* One symbol of a provider, in every shape, and two references to it.     *)
Symbols ==
    {[specs |-> <<Provider(App, "a")>>, paths |-> <<>>, imports |-> <<i>>,
      files |-> [A |-> [File("a", <<>>, <<>>, {s}) EXCEPT !.versym = v,
                                                           !.verdef = IF v THEN @ ELSE <<>>],
                 B |-> File("b", <<>>, <<>>, {}), C |-> File("c", <<>>, <<>>, {}),
                 D |-> File("d", <<>>, <<>>, {}), E |-> File("e", <<>>, <<>>, {})]] :
     i \in {Import("f", "func", version, FALSE) : version \in {"", "V1", "V2"}},
     v \in BOOLEAN,
     s \in [name : {"f"}, type : {"func", "ifunc", "object"}, binding : {"global", "weak", "local"},
            visibility : {"default", "protected", "hidden"}, defined : BOOLEAN,
            index : {0, 1, 2, 4}, hidden : BOOLEAN, size : {0}]}

MCLinks == Graphs \cup Copies \cup Symbols

-----------------------------------------------------------------------------
(* The disk of the lookups: a program's directory, the current one, a      *)
(* third, and the fallback.  "a" and "b" lie in several, one file has two  *)
(* names, one image is malformed, one name is a directory.                 *)
Work == <<"work">>
MCCwd == Work
Dirs == {App, <<"app", "lib64">>, Work, <<"work", "sub">>, Usr, <<"usr", "e">>}
Libraries == (<<"app", "lib64", "a">> :> "A") @@ (<<"work", "sub", "a">> :> "AliasOfB")
          @@ (<<"usr", "a">> :> "AA") @@ (<<"app", "b">> :> "B") @@ (<<"usr", "b">> :> "BB")
          @@ (<<"work", "b">> :> "Hidden") @@ (<<"usr", "c">> :> "C") @@ (<<"work", "c">> :> "C")
          @@ (<<"usr", "d">> :> "Malformed") @@ (<<"usr", "g">> :> "Bare")

Origin == <<"$ORIGIN">>
Lib64  == <<"$ORIGIN", "$LIB">>
Empty  == <<>>
Missing == <<"/", "opt">>

(* What the programs need, and where they look.                            *)
Needing == [ab |-> << <<"a">>, <<"b">> >>, bca |-> << <<"b">>, <<"c">>, <<"a">> >>,
            cc |-> << <<"/", "usr", "c">>, <<"c">> >>, oaa |-> << <<"$ORIGIN", "b">>, <<"a">>, <<"a">> >>,
            sb |-> << <<"sub", "a">>, <<"b">> >>, e |-> << <<"e">> >>, d |-> << <<"d">> >>, n |-> <<>>]
Looking == [n |-> [runpath |-> <<>>, rpath |-> <<>>],
            rpath |-> [runpath |-> <<>>, rpath |-> <<Lib64, Origin>>],
            both |-> [runpath |-> <<Lib64>>, rpath |-> <<Origin>>],
            absolute |-> [runpath |-> <<Lib64, <<"/", "usr", ".", "e">> >>, rpath |-> <<>>],
            relative |-> [runpath |-> <<>>, rpath |-> << <<"sub">>, Empty>>],
            wrong |-> [runpath |-> << <<"/", "usr", "$LIB">> >>, rpath |-> <<>>]]
Programs == [need : DOMAIN Needing, look : DOMAIN Looking, nodeflib : BOOLEAN]
NameOf(p) == p.need \o "-" \o p.look \o (IF p.nodeflib THEN "-" ELSE "")

SymbolNamed(bind, defined, visibility) ==
    [name |-> "f", bind |-> bind, defined |-> defined, visibility |-> visibility]
Good == SymbolNamed("global", TRUE, "default")
Image(needed, soname, runpath, rpath, tables) ==
    [needed |-> needed, soname |-> soname, runpath |-> runpath, rpath |-> rpath, flags |-> {},
     tables |-> tables]
ImageOf(p) ==
    [Image(Needing[p.need], <<"p">>, Looking[p.look].runpath, Looking[p.look].rpath,
           IF p.need = "n" THEN "sysv" :> <<Good>> ELSE ("gnu" :> <<>>) @@ ("sysv" :> <<Good>>))
     EXCEPT !.flags = IF p.nodeflib THEN {"NODEFLIB"} ELSE {}]

AllImages ==
    [i \in {NameOf(p) : p \in Programs} |-> ImageOf(CHOOSE p \in Programs : NameOf(p) = i)]
    @@ [A |-> Image(<< <<"b">>, <<"c">> >>, <<"a">>, <<>>, <<Origin>>,
                    "gnu" :> <<SymbolNamed("local", TRUE, "default"), Good>>),
        AliasOfB |-> Image(<< <<"b">> >>, <<"b">>, <<>>, <<>>, "sysv" :> <<Good>>),
        AA |-> Image(<< <<"b">> >>, NoText, <<Origin>>, <<>>, "gnu" :> <<SymbolNamed("weak", TRUE, "protected")>>),
        B |-> Image(<< <<"c">>, <<"a">> >>, <<"b">>, <<>>, <<>>, "sysv" :> <<SymbolNamed("global", FALSE, "default")>>),
        BB |-> Image(<<>>, NoText, <<>>, <<>>, "gnu" :> <<Good>>),
        C |-> Image(<< <<"b">> >>, <<"c">>, <<>>, <<>>, "gnu" :> <<Good>>),
        Hidden |-> Image(<<>>, <<"b">>, <<>>, <<>>, "gnu" :> <<SymbolNamed("global", TRUE, "hidden")>>),
        Bare |-> Image(<<>>, NoText, <<>>, <<>>, [t \in {} |-> <<>>])]

AllFiles == Libraries @@ [d \in Dirs |-> "directory"]
       @@ [f \in {Append(App, NameOf(p)) : p \in Programs} |-> f[2]]

MCImages == AllImages
MCDisk == AllFiles

RequestOf(tool, p) ==
    [tool |-> tool, root |-> Append(App, NameOf(p)), option |-> <<>>, environment |-> Nothing,
     secure |-> FALSE, file |-> <<>>, symbol |-> "f", fallback |-> Usr]
LoaderPathLists == {<<Lib64, Empty>>, << <<"sub">>, <<"/", "work">>, <<"sub">> >>, <<Missing>>,
          << <<"$ORIGIN", "..">> >>}
Some == {p \in Programs : p.need \in {"ab", "bca", "n"} /\ ~p.nodeflib}

SimpleLookups == {RequestOf(tool, p) : tool \in SimpleTools, p \in Programs}
LiteralLookups ==
    {[RequestOf(tool, p) EXCEPT !.option = o] : tool \in LiteralTools, p \in Programs, o \in LoaderPathLists}
    \cup {RequestOf(tool, p) : tool \in {"runpath", "nodefaultlib"}, p \in Programs}
LibraryPath(list) == "LD_LIBRARY_PATH" :> list
EnvLookups ==
    {[RequestOf("env", p) EXCEPT !.environment = e, !.secure = s] :
        p \in Programs, s \in BOOLEAN, e \in {LibraryPath(o) : o \in LoaderPathLists} \cup {Nothing}}
Preloads == {<<>>, << <<"a">>, <<"b">> >>, << <<"c">>, <<"/", "usr", "c">>, <<"sub", "a">> >>,
             << <<"$ORIGIN", "b">> >>, << <<"$LIB">> >>, << <<"g">> >>, << <<"d">> >>, << <<"/", "usr", "e">> >>}
PreloadLookups ==
    {[RequestOf(tool, p) EXCEPT !.environment = ("LD_PRELOAD" :> list) @@ e, !.secure = s] :
        tool \in EnvTools \ {"env", "system-preload"}, p \in Some, list \in Preloads, s \in BOOLEAN,
        e \in {Nothing, LibraryPath(<<Lib64, Empty>>)}}
    \cup {[RequestOf("preload", p) EXCEPT !.environment = ("LD_PRELOAD" :> << <<"a">> >>) @@ LibraryPath(<<Missing>>)] :
            p \in Some}
SystemLookups ==
    {[RequestOf("system-preload", p) EXCEPT !.environment = e, !.secure = s, !.file = f] :
        p \in Some, s \in BOOLEAN,
        e \in {Nothing, LibraryPath(<<Lib64>>) @@ ("LD_PRELOAD" :> << <<"c">> >>)},
        f \in {<<>>, << <<"a">>, <<"/", "work", "c">> >>, << <<"$ORIGIN", "b">> >>, NotAList}}
OddLookups ==
    {[RequestOf(tool, [need |-> "bca", look |-> "rpath", nodeflib |-> FALSE])
      EXCEPT !.symbol = s, !.fallback = f, !.option = IF tool \in LiteralTools THEN << <<"sub">> >> ELSE <<>>] :
        tool \in SimpleTools \cup LiteralTools \cup EnvTools, s \in {"f", "g"}, f \in {Usr, <<"usr", "c">>, <<"opt">>}}

MCLookups == SimpleLookups \cup LiteralLookups \cup EnvLookups \cup PreloadLookups \cup SystemLookups
             \cup OddLookups

-----------------------------------------------------------------------------
(* Calls of resolve by up to three threads, two of one thread.             *)
CallOf(entries, secure) == [entries |-> entries, secure |-> secure]
First  == CallOf(<< <<"a">> >>, FALSE)
Second == CallOf(<< <<"b">>, <<"c">> >>, TRUE)
NoFile == CallOf(<<>>, FALSE)
MCThreads == {"t1", "t2", "t3"}
MCSchedules ==
    [environment : {Nothing, "LD_PRELOAD" :> <<>>,
                    ("LD_PRELOAD" :> << <<"c">> >>) @@ LibraryPath(<<Lib64>>)},
     calls : {[t1 |-> <<First>>, t2 |-> <<Second, First>>, t3 |-> <<>>],
              [t1 |-> <<First>>, t2 |-> <<Second>>, t3 |-> <<NoFile>>]}]
=============================================================================
