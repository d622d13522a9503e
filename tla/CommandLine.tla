----------------------------- MODULE CommandLine ----------------------------
(***************************************************************************)
(* The command line of `partial' and `link' (run, main.rs).  `link' takes  *)
(* its options out of the arguments in some twenty passes, one function    *)
(* for each option or family (main.rs, forced_undefined.rs, image_base.rs):*)
(* a pass keeps what it does not know for the next, and what is left at    *)
(* the end is searched for libraries and read as inputs.                   *)
(*                                                                         *)
(* Arguments are those of LibrarySearch.  An error is "usage" (exit status *)
(* 2) or "failure" (status 1).                                             *)
(***************************************************************************)
EXTENDS LinkInputs, LibrarySearch

CONSTANTS
    CommandLines,   \* the command lines, the name of the program left out
    Absolute,       \* the words that are absolute paths
    Addresses,      \* the words that are addresses of 64 bits
    Scripts,        \* linker script path -> its tokens
    VersionScripts  \* version script path -> whether it parses

ASSUME CommandLineAssumption ==
    /\ VersionScripts \in [DOMAIN VersionScripts -> BOOLEAN]
    /\ "" \notin Absolute \cup Addresses \cup DOMAIN Scripts \cup DOMAIN VersionScripts

VARIABLES line,     \* the command line, or <<>> where a link starts from its inputs
          parsed    \* what became of it

-----------------------------------------------------------------------------
(* A pass returns the values it found, the arguments it leaves, and whether *)
(* it refused the command line.                                            *)
Once(pass) == [pass EXCEPT !.bad = @ \/ Len(pass.found) > 1]
Filled(pass) == [pass EXCEPT !.bad = @ \/ \E k \in DOMAIN pass.found : pass.found[k][2] = <<"">>]
Values(pass, names) == SelectSeq(pass.found, LAMBDA f : f[1] \in names)

FlagIn(flag, list) ==
    Once([found |-> [k \in DOMAIN SelectSeq(list, LAMBDA t : t = <<flag>>) |-> <<flag, <<>>>>],
          rest  |-> SelectSeq(list, LAMBDA t : t # <<flag>>),
          bad   |-> \E k \in DOMAIN list : Len(list[k]) = 2 /\ list[k][1] = flag])

(* -z with its keyword; any other -z is left alone.                        *)
KeywordIn(keyword, list) ==
    LET Starts(k) == k < Len(list) /\ list[k] = <<"-z">> /\ list[k + 1] = <<keyword>>
        kept == SelectSeq([k \in DOMAIN list |-> k],
                          LAMBDA k : ~Starts(k) /\ ~(k > 1 /\ Starts(k - 1)))
    IN Once([found |-> [k \in 1 .. Cardinality({j \in DOMAIN list : Starts(j)}) |-> <<keyword, <<>>>>],
             rest |-> [k \in DOMAIN kept |-> list[kept[k]]], bad |-> FALSE])

(* An option takes the next argument, whatever it is, or has its value     *)
(* attached; some have one of the two forms only.                          *)
ValuedIn(split, joined, list) ==
    LET Read(p, t) ==
          IF p.awaiting # "" THEN [p EXCEPT !.found = Append(@, <<p.awaiting, t>>), !.awaiting = ""]
          ELSE IF Len(t) = 1 /\ t[1] \in split THEN [p EXCEPT !.awaiting = t[1]]
          ELSE IF Len(t) = 2 /\ t[1] \in joined THEN [p EXCEPT !.found = Append(@, <<t[1], Tail(t)>>)]
          ELSE [p EXCEPT !.rest = Append(@, t)]
        end == FoldLeft(Read, [found |-> <<>>, rest |-> <<>>, awaiting |-> ""], list)
    IN [found |-> end.found, rest |-> end.rest, bad |-> end.awaiting # ""]

PieArgument(list)        == FlagIn("--pie", list)
DynamicPieArgument(list) == FlagIn("--dynamic-pie", list)
CrtStartupArgument(list) == FlagIn("--crt-startup", list)
SharedArgument(list)     == FlagIn("--shared", list)
SymbolicArgument(list)   == FlagIn("-Bsymbolic", list)
IbtPltArgument(list)     == KeywordIn("ibtplt", list)
IbtArgument(list)        == KeywordIn("ibt", list)
BindNowArgument(list)    == KeywordIn("now", list)
PackRelativeRelocsArgument(list) == KeywordIn("pack-relative-relocs", list)

DynamicLinkerArgument(list) ==
    LET p == Once(Filled(ValuedIn({"--dynamic-linker"}, {"--dynamic-linker"}, list)))
    IN [p EXCEPT !.bad = @ \/ \E k \in DOMAIN p.found : p.found[k][2] \notin {<<a>> : a \in Absolute}]
LifecycleHookArguments(list) ==
    LET p == Filled(ValuedIn({"-init", "-fini"}, {"-init", "-fini"}, list))
    IN [p EXCEPT !.bad = @ \/ \E hook \in {"-init", "-fini"} : Len(Values(p, {hook})) > 1]
SonameArgument(list)  == Once(Filled(ValuedIn({"--soname"}, {"--soname"}, list)))
RunpathArgument(list) == Once(Filled(ValuedIn({"--runpath"}, {"--runpath"}, list)))
NeededArguments(list) ==
    Filled(ValuedIn({"--needed", "--needed-from"}, {"--needed", "--needed-from"}, list))
VersionScriptArgument(list) ==
    Once(Filled(ValuedIn({"--version-script"}, {"--version-script"}, list)))
ForcedUndefinedArguments(list) ==
    Filled(ValuedIn({"-u", "--undefined"}, {"-u", "--undefined"}, list))
ContainsImageBase(list) == \E k \in DOMAIN list : list[k][1] = "--image-base"

-----------------------------------------------------------------------------
(* Linker scripts (image_base.rs): the rest of the tokens, or Failed.      *)
Failed == <<"failed">>
EatAll(s, words) ==
    IF IsPrefix(words, s) THEN SubSeq(s, Len(words) + 1, Len(s)) ELSE Failed
Eat(s, word) == EatAll(s, <<word>>)

StripComments(s) ==
    LET Strip(p, w) == CASE p.inside /\ w = "*/" -> [p EXCEPT !.inside = FALSE]
                         [] p.inside /\ w # "*/" -> p
                         [] ~p.inside /\ w = "/*" -> [p EXCEPT !.inside = TRUE]
                         [] OTHER -> [p EXCEPT !.out = Append(@, w)]
        end == FoldLeft(Strip, [out |-> <<>>, inside |-> FALSE], s)
    IN IF end.inside THEN Failed ELSE end.out

EntryDirective(s) ==
    LET open  == EatAll(s, <<"ENTRY", "(">>)
        close == {k \in DOMAIN open : open[k] = ")"}
    IN IF open = Failed \/ close = {} \/ Min(close) # 2 \/ open[1] \in {"(", "{", "}", ";"}
       THEN [symbol |-> "", rest |-> Failed]
       ELSE [symbol |-> open[1], rest |-> SubSeq(open, 3, Len(open))]

TextSectionBody(s) ==
    LET open == EatAll(s, <<"{", "*", "(", ".text">>)
        more == open # <<>> /\ Head(open) \in {"*", ".text.*"}
    IN EatAll(IF more THEN Tail(open) ELSE open, <<")", "}">>)
AddressToken(s) == IF s # <<>> /\ Head(s) \in Addresses THEN Tail(s) ELSE Failed
TextSection(s) == TextSectionBody(Eat(AddressToken(Eat(s, ".text")), ":"))
TextSectionAtCurrentAddress(s) == TextSectionBody(EatAll(s, <<".text", ":">>))
LocationCounterAssignment(s) == Eat(AddressToken(EatAll(s, <<".", "=">>)), ";")

ReadScript(p, part) ==
    LET Begins(word) == p.rest # <<>> /\ Head(p.rest) = word
        Word(k) == IF k \in DOMAIN p.rest THEN p.rest[k] ELSE ""
    IN CASE part = "entry" /\ Begins("ENTRY") ->
              LET entry == EntryDirective(p.rest) IN [p EXCEPT !.entry = entry.symbol, !.rest = entry.rest]
         [] part = "sections" -> [p EXCEPT !.rest = EatAll(@, <<"SECTIONS", "{">>)]
         [] part = "address" /\ Begins(".text") -> [p EXCEPT !.base = Word(2), !.rest = TextSection(@)]
         [] part = "address" /\ ~Begins(".text") ->
              [p EXCEPT !.base = Word(3), !.counted = TRUE, !.rest = LocationCounterAssignment(@)]
         [] part = "text" /\ p.counted /\ Begins(".text") ->
              [p EXCEPT !.rest = TextSectionAtCurrentAddress(@)]
         [] part = "end" -> [p EXCEPT !.rest = Eat(@, "}"), !.bad = Eat(p.rest, "}") # <<>>]
         [] OTHER -> p
ScriptStart(tokens) == [rest |-> tokens, entry |-> "", base |-> "", counted |-> FALSE, bad |-> TRUE]
LinkerScript(path) ==
    IF path \notin DOMAIN Scripts THEN ScriptStart(<<>>)
    ELSE FoldLeft(ReadScript, ScriptStart(StripComments(Scripts[path])),
                  <<"entry", "sections", "address", "text", "end">>)

-----------------------------------------------------------------------------
(* The image base, from an option or a script, and the entry options that  *)
(* become "--entry" at their place.                                        *)
BaseOptions   == {"--image-base", "-Ttext-segment"}
ScriptOptions == {"-T", "--script"}
NoScript  == [base |-> "default", entry |-> "", bad |-> FALSE]
BaseStart == [rest |-> <<>>, source |-> NoScript, seen |-> {}, bad |-> FALSE, awaiting |-> ""]

TakeBase(b, option, value) ==
    IF b.seen # {} \/ Len(value) # 1 \/ value[1] \notin Addresses THEN [b EXCEPT !.bad = TRUE]
    ELSE [b EXCEPT !.source.base = value[1], !.seen = {option}]
TakeScriptOverBase(b, option, value) ==
    IF (b.seen \cap ScriptOptions # {}) \/ Len(value) # 1 THEN [b EXCEPT !.bad = TRUE]
    ELSE [b EXCEPT !.source = LinkerScript(value[1]), !.seen = {option}]
TakeScript(b, option, value) ==
    IF b.seen # {} \/ Len(value) # 1 THEN [b EXCEPT !.bad = TRUE]
    ELSE [b EXCEPT !.source = LinkerScript(value[1]), !.seen = {option}]
TakeEntryOption(b, value) ==
    IF value = <<"">> THEN [b EXCEPT !.bad = TRUE]
    ELSE [b EXCEPT !.rest = @ \o << <<"--entry">>, value >>]

TakeValue(b, option, value) ==
    CASE option \in BaseOptions   -> TakeBase(b, option, value)
      [] option \in ScriptOptions -> TakeScript(b, option, value)
      [] OTHER                    -> TakeEntryOption(b, value)
ImageBaseArgument(list) ==
    LET Takes(b, t) == b.awaiting = "" /\ t[1] \in BaseOptions \cup ScriptOptions \cup {"--entry", "-e"}
        Read(b, t) ==
          CASE b.bad -> b
            [] ~b.bad /\ Takes(b, t) /\ Len(t) = 1 /\ t[1] \notin {"-Ttext-segment", "--entry"} ->
                 [b EXCEPT !.awaiting = t[1]]
            [] ~b.bad /\ (b.awaiting # "" \/ (Takes(b, t) /\ Len(t) = 2)) ->
                 TakeValue([b EXCEPT !.awaiting = ""], IF Takes(b, t) THEN t[1] ELSE b.awaiting,
                           IF Takes(b, t) THEN Tail(t) ELSE t)
            [] OTHER -> [b EXCEPT !.rest = Append(@, t)]
        end == FoldLeft(Read, BaseStart, list)
        given == <<"--entry">> \in Range(end.rest)
        entry == end.source.entry
    IN [found |-> <<>>, base |-> end.source.base, bad |-> end.bad \/ end.source.bad \/ end.awaiting # "",
        rest |-> (IF entry = "" \/ given THEN <<>> ELSE << <<"--entry">>, <<entry>> >>) \o end.rest]

(* --map and --entry are options only in front of everything else.         *)
MapAndEntry(list) ==
    LET Read(p, t) ==
          CASE p.awaiting # "" -> [p EXCEPT !.found = Append(@, <<p.awaiting, t>>), !.awaiting = ""]
            [] p.awaiting = "" /\ p.rest = <<>> /\ t \in {<<"--map">>, <<"-Map">>} -> [p EXCEPT !.awaiting = "--map"]
            [] p.awaiting = "" /\ p.rest = <<>> /\ t = <<"--entry">> -> [p EXCEPT !.awaiting = "--entry"]
            [] p.awaiting = "" /\ p.rest = <<>> /\ Len(t) = 2 /\ t[1] = "-Map" ->
                 [p EXCEPT !.found = Append(@, <<"--map", Tail(t)>>)]
            [] OTHER -> [p EXCEPT !.rest = Append(@, t)]
        end == FoldLeft(Read, [found |-> <<>>, rest |-> <<>>, awaiting |-> ""], list)
    IN Filled([found |-> end.found, rest |-> end.rest,
               bad |-> end.awaiting # "" \/ \E o \in {"--map", "--entry"} :
                         Cardinality({k \in DOMAIN end.found : end.found[k][1] = o}) > 1])

-----------------------------------------------------------------------------
Given(found, option) == \E k \in DOMAIN found : found[k][1] = option
ModesOf(found) == {o \in {"--pie", "--dynamic-pie", "--shared"} : Given(found, o)}
LoaderImage(found) == Given(found, "--shared") \/ Given(found, "--dynamic-pie")

(* Options that the chosen output has no use for.                          *)
Unsupported(found) ==
    \/ ~Given(found, "--dynamic-pie") /\ \E o \in {"--crt-startup", "--dynamic-linker"} : Given(found, o)
    \/ ~Given(found, "--shared")
       /\ \E o \in {"-Bsymbolic", "--soname", "--version-script"} : Given(found, o)
    \/ ~LoaderImage(found)
       /\ \E o \in {"-init", "-fini", "ibtplt", "ibt", "now", "--runpath", "--needed", "--needed-from"} :
            Given(found, o)
    \/ ModesOf(found) = {} /\ Given(found, "pack-relative-relocs")
UnparsedScript(found) ==
    \E k \in DOMAIN found : /\ found[k][1] = "--version-script"
                            /\ ~(found[k][2][1] \in DOMAIN VersionScripts
                                 /\ VersionScripts[found[k][2][1]])

FrontUnsupported(found) ==
    \/ LoaderImage(found) /\ Given(found, "--map")
    \/ Given(found, "--entry") /\ (Given(found, "--shared") \/ Given(found, "--crt-startup"))
Libraries(found, list) ==
    IF LoaderImage(found) THEN ResolveSharedLibraryArguments(list)
    ELSE ResolveStaticLibraryArguments(list)

RefusedLine(c, reason) ==
    [command |-> c, error |-> reason, found |-> <<>>, base |-> "default", left |-> <<>>,
     arguments |-> <<>>, providers |-> <<>>, paths |-> <<>>, forced |-> {}]
Unless(refused, reason, p) == IF refused THEN RefusedLine(p.command, reason) ELSE p
ForcedIn(found) == {k \in DOMAIN found : found[k][1] \in {"-u", "--undefined"}}
Resolved(p, search) ==
    Unless(search.error # "none", search.error,
           [p EXCEPT !.arguments = search.resolved, !.providers = search.providers,
                     !.paths = search.paths, !.forced = {p.found[k][2][1] : k \in ForcedIn(p.found)}])

(* The passes in their order, each over what the last one left, with the   *)
(* checks between them; the first error is reported.                       *)
Pass(pass, list) ==
    CASE pass = "pie"            -> PieArgument(list)
      [] pass = "dynamic-pie"    -> DynamicPieArgument(list)
      [] pass = "crt-startup"    -> CrtStartupArgument(list)
      [] pass = "shared"         -> SharedArgument(list)
      [] pass = "dynamic-linker" -> DynamicLinkerArgument(list)
      [] pass = "hooks"          -> LifecycleHookArguments(list)
      [] pass = "symbolic"       -> SymbolicArgument(list)
      [] pass = "ibtplt"         -> IbtPltArgument(list)
      [] pass = "ibt"            -> IbtArgument(list)
      [] pass = "now"            -> BindNowArgument(list)
      [] pass = "relr"           -> PackRelativeRelocsArgument(list)
      [] pass = "soname"         -> SonameArgument(list)
      [] pass = "runpath"        -> RunpathArgument(list)
      [] pass = "needed"         -> NeededArguments(list)
      [] pass = "version-script" -> VersionScriptArgument(list)
      [] pass = "undefined"      -> ForcedUndefinedArguments(list)
      [] pass = "image base"     -> ImageBaseArgument(list)
      [] pass = "map and entry"  -> MapAndEntry(list)
OptionPasses == <<"pie", "dynamic-pie", "crt-startup", "shared", "dynamic-linker", "hooks", "symbolic",
                  "ibtplt", "ibt", "now", "relr", "soname", "runpath", "needed", "version-script">>
LinkSteps == OptionPasses \o <<"outputs", "undefined", "image base", "map and entry", "libraries">>

Taken(p, r) ==
    Unless(r.bad, "usage", [p EXCEPT !.found = @ \o r.found, !.left = r.rest])
Take(p, pass) ==
    CASE p.error # "none" -> p
      [] p.error = "none" /\ pass = "outputs" ->
           Unless(Unsupported(p.found), "usage",
           Unless(UnparsedScript(p.found), "failure",
           Unless(Cardinality(ModesOf(p.found)) > 1, "usage",
           Unless(ModesOf(p.found) # {} /\ ContainsImageBase(p.left), "usage", p))))
      [] p.error = "none" /\ pass = "libraries" ->
           Unless(LoaderImage(p.found) /\ ForcedIn(p.found) # {}, "usage",
           Unless(FrontUnsupported(p.found), "usage", Resolved(p, Libraries(p.found, p.left))))
      [] OTHER -> Taken(IF pass = "image base" THEN [p EXCEPT !.base = ImageBaseArgument(p.left).base] ELSE p,
                        Pass(pass, p.left))

LineOf(c, list) == [RefusedLine(c, "none") EXCEPT !.left = list]
NoInputs(p) == Unless(p.error = "none" /\ p.arguments = <<>>, "usage", p)
LinkArguments(list) == NoInputs(FoldLeft(Take, LineOf("link", list), LinkSteps))

PartialArguments(list) ==
    LET Step(p, step) ==
          CASE p.error # "none" -> p
            [] p.error = "none" /\ step = "undefined" ->
                 Unless(NestingRefused(MarkersOf(ForcedUndefinedArguments(list).rest)), "usage",
                        Taken(p, ForcedUndefinedArguments(list)))
            [] p.error = "none" /\ step = "libraries" ->
                 Resolved(p, ResolveStaticLibraryArguments(p.left))
            [] OTHER -> Unless(p.arguments = <<>> \/ PushOrPop(p.arguments), "usage", p)
    IN FoldLeft(Step, LineOf("partial", list), <<"undefined", "libraries", "inputs">>)

(* <command> -o <output> ..., or --output=<output> in its place.           *)
Parse(l) ==
    LET split  == Len(l) > 2 /\ l[2] = <<"-o">>
        joined == Len(l) > 1 /\ Len(l[2]) = 2 /\ l[2][1] = "--output" /\ l[2][2] # ""
        rest   == SubSeq(l, IF split THEN 4 ELSE 3, Len(l))
    IN IF l[1] \notin {<<"link">>, <<"partial">>} \/ ~(split \/ joined) THEN RefusedLine("link", "usage")
       ELSE IF l[1] = <<"link">> THEN LinkArguments(rest) ELSE PartialArguments(rest)

-----------------------------------------------------------------------------
(* A link from its command line, or from the inputs one could have named.  *)
CommandLineInit ==
    \/ line = <<>> /\ parsed = RefusedLine("none", "none") /\ LinkInputsInit
    \/ /\ line \in CommandLines /\ parsed = Parse(line)
       /\ LoadStarts(parsed.command, parsed.arguments, parsed.error)
       /\ Start(<<>>, parsed.forced)
       /\ crt = Given(parsed.found, "--crt-startup") /\ handed = FALSE

CommandLineSpec ==
    /\ CommandLineInit
    /\ [][(LinkInputsNext \/ LinkInputsStopped) /\ UNCHANGED <<line, parsed>>]_<<linkInputsVars, line, parsed>>
    /\ WF_linkInputsVars(LinkInputsNext /\ UNCHANGED <<line, parsed>>)

-----------------------------------------------------------------------------
(* One reading from left to right: an option takes the argument after it,  *)
(* or its attached value; the rest are inputs, and from the first of them  *)
(* on --map and --entry are inputs too.                                    *)
FlagOptions    == {"--pie", "--dynamic-pie", "--crt-startup", "--shared", "-Bsymbolic"}
Keywords       == {"ibtplt", "ibt", "now", "pack-relative-relocs"}
ManyOptions    == {"--needed", "--needed-from", "-u", "--undefined"}
OnceOptions    == {"--dynamic-linker", "-init", "-fini", "--soname", "--runpath", "--version-script"}
FrontOptions   == {"--map", "-Map", "--entry", "-e"}
SourceOptions  == BaseOptions \cup ScriptOptions
InputOptions   == PathOptions \cup LibraryOptions
SplitOptions   == (ManyOptions \cup OnceOptions \cup FrontOptions \cup SourceOptions) \ {"-Ttext-segment"}
JoinedOptions  == (ManyOptions \cup OnceOptions \cup FrontOptions \cup SourceOptions) \ {"--map"}
OptionWords    == FlagOptions \cup SplitOptions \cup InputOptions \cup {"-z"}
                  \cup {m[1] : m \in StartMarkers \cup EndMarkers}

Called(option) == CASE option = "-Map" -> "--map" [] option = "-e" -> "--entry" [] OTHER -> option
ReadingStart == [found |-> <<>>, inputs |-> <<>>, awaiting |-> "", clean |-> TRUE]
Late(r, option) == r.inputs # <<>> /\ option \in {"--map", "-Map", "--entry"}
FoundIn(r, option, value) ==
    IF r.inputs = <<>> \/ Called(option) # "--entry"
    THEN [r EXCEPT !.found = Append(@, <<Called(option), value>>)]
    ELSE [r EXCEPT !.inputs = @ \o << <<"--entry">>, value >>, !.clean = @ /\ value # <<"">>]
ReadOne(r, t) ==
    CASE r.awaiting = "-z" /\ t[1] \in Keywords ->
           [r EXCEPT !.awaiting = "", !.found = Append(@, <<t[1], <<>>>>)]
      [] r.awaiting = "-z" /\ t[1] \notin Keywords -> [r EXCEPT !.clean = FALSE]
      [] r.awaiting \notin {"", "-z"} ->
           [FoundIn(r, r.awaiting, t)
              EXCEPT !.awaiting = "", !.clean = @ /\ Len(t) = 1 /\ t[1] \notin OptionWords]
      [] r.awaiting = "" /\ Len(t) = 1 /\ t[1] \in FlagOptions ->
           [r EXCEPT !.found = Append(@, <<t[1], <<>>>>)]
      [] r.awaiting = "" /\ Len(t) = 1 /\ t[1] \in SplitOptions \cup {"-z"} /\ ~Late(r, t[1]) ->
           [r EXCEPT !.awaiting = t[1]]
      [] r.awaiting = "" /\ Len(t) = 2 /\ t[1] \in JoinedOptions /\ ~(t[1] = "-Map" /\ Late(r, "-Map")) ->
           FoundIn(r, t[1], Tail(t))
      [] OTHER -> [r EXCEPT !.inputs = Append(@, t)]
InOneReading(list) == FoldLeft(ReadOne, ReadingStart, list)

(* Nothing stands where a value is wanted that spells an option: the passes *)
(* before would take it away, and this is all that tells them apart.       *)
CleanInputs(list) == \A i \in DOMAIN list : Operand(list, i) => list[i][1] \notin OptionWords
CleanLine(r) == r.clean /\ r.awaiting # "-z" /\ CleanInputs(r.inputs)

(* What each option is for.  An image base given by a script or by         *)
(* -Ttext-segment is accepted everywhere, and only a static executable     *)
(* has it.                                                                 *)
Outputs == {"static", "--pie", "--dynamic-pie", "--shared"}
Suits(option) ==
    CASE option \in {"--crt-startup", "--dynamic-linker"} -> {"--dynamic-pie"}
      [] option \in {"-Bsymbolic", "--soname", "--version-script"} -> {"--shared"}
      [] option \in {"-init", "-fini", "ibtplt", "ibt", "now", "--runpath", "--needed", "--needed-from"} ->
           {"--dynamic-pie", "--shared"}
      [] option = "pack-relative-relocs" -> Outputs \ {"static"}
      [] option = "--image-base" -> {"static"}
      [] option \in {"-u", "--undefined", "--map"} -> {"static", "--pie"}
      [] option = "--entry" -> Outputs \ {"--shared"}
      [] OTHER -> Outputs

(* The scripts the documentation allows, between comments.                 *)
Selectors == {<<"{", "*", "(", ".text", ")", "}">>, <<"{", "*", "(", ".text", "*", ")", "}">>,
              <<"{", "*", "(", ".text", ".text.*", ")", "}">>}
Bodies(a) == {<<".", "=", a, ";">>} \cup {<<".", "=", a, ";", ".text", ":">> \o s : s \in Selectors}
             \cup {<<".text", a, ":">> \o s : s \in Selectors}
AllowedScripts(symbols) ==
    {e \o <<"SECTIONS", "{">> \o b \o <<"}">> :
        e \in {<<>>} \cup {<<"ENTRY", "(", n, ")">> : n \in symbols}, b \in UNION {Bodies(a) : a \in Addresses}}
ScriptSymbols(path) == Range(Scripts[path]) \ {"(", ")", "{", "}", ";", "/*", "*/"}
AllowedScript(path) ==
    path \in DOMAIN Scripts /\ StripComments(Scripts[path]) \in AllowedScripts(ScriptSymbols(path))

Sources(r) == SelectSeq(r.found, LAMBDA f : f[1] \in SourceOptions)
ScriptEntry(r) ==
    LET s == Sources(r)
    IN IF s = <<>> \/ s[1][1] \notin ScriptOptions \/ Given(r.found, "--entry")
          \/ <<"--entry">> \in Range(r.inputs) \/ LinkerScript(s[1][2][1]).entry = "" THEN {}
       ELSE {<<"--entry", <<LinkerScript(s[1][2][1]).entry>>>>}
AllFound(r) == Range(SelectSeq(r.found, LAMBDA f : f[1] \notin SourceOptions)) \cup ScriptEntry(r)
Allowed(option, value) ==
    CASE option \in FlagOptions \cup Keywords -> TRUE
      [] option \in BaseOptions -> value[1] \in Addresses
      [] option \in ScriptOptions -> AllowedScript(value[1])
      [] option = "--dynamic-linker" -> value[1] \in Absolute
      [] option = "--version-script" -> value[1] \in DOMAIN VersionScripts /\ VersionScripts[value[1]]
      [] OTHER -> value # <<"">>
Lawful(r) ==
    LET mode == ModesOf(r.found)
        output == IF mode = {} THEN "static" ELSE CHOOSE o \in mode : TRUE
        loader == LoaderImage(r.found)
    IN /\ r.awaiting = "" /\ Cardinality(mode) <= 1 /\ Len(Sources(r)) <= 1
       /\ \A k \in DOMAIN r.found : Allowed(r.found[k][1], r.found[k][2])
       /\ \A j, k \in DOMAIN r.found : r.found[j][1] = r.found[k][1] /\ j # k => r.found[j][1] \in ManyOptions
       /\ \A f \in AllFound(r) \cup Range(Sources(r)) : output \in Suits(f[1])
       /\ ~(Given(r.found, "--crt-startup") /\ \E f \in AllFound(r) : f[1] = "--entry")
       /\ \A k \in DOMAIN r.inputs : ~(Len(r.inputs[k]) = 2 /\ r.inputs[k][1] \in FlagOptions)
       /\ Searchable(r.inputs, loader)
       /\ \E k \in DOMAIN r.inputs : Standing(r.inputs, k, loader) # <<>>

(* A command line is accepted exactly if, read once from left to right, it *)
(* gives no option twice and none that its output has no use for, and names*)
(* only what is there; the passes then find what that one reading finds.   *)
AtStart == line # <<>> /\ argPos = 1 /\ files = <<>>
AcceptedLinesMeanWhatTheySay ==
    (AtStart /\ line[1] = <<"link">> /\ Len(line) > 2 /\ line[2] = <<"-o">>) =>
        LET many(list) == SelectSeq(list, LAMBDA f : f[1] \in ManyOptions)
        IN \A r \in {InOneReading(SubSeq(line, 4, Len(line)))} : CleanLine(r) =>
             /\ parsed.error = "none" <=> Lawful(r)
             /\ parsed.error = "none" =>
                  /\ Range(parsed.found) = AllFound(r) /\ many(parsed.found) = many(r.found)
                  /\ parsed.left = r.inputs
                  /\ parsed.base = IF Sources(r) = <<>> THEN "default"
                                   ELSE IF Sources(r)[1][1] \in BaseOptions THEN Sources(r)[1][2][1]
                                   ELSE LinkerScript(Sources(r)[1][2][1]).base

(* A library is the file of the first directory that has one, among those  *)
(* named before it; the inputs keep their order and groups around what is  *)
(* taken out; and where a shared library is found beside or before the     *)
(* archive, it is a provider of the output and no input.                   *)
LibrariesAreFoundInOrder ==
    (AtStart /\ parsed.error = "none" /\ CleanInputs(parsed.left)) =>
        LET list == parsed.left
            shared == LoaderImage(parsed.found)
        IN /\ parsed.arguments = Flatten(FlattenSeq([i \in DOMAIN list |-> Standing(list, i, shared)]))
           /\ parsed.providers = FlattenSeq([i \in DOMAIN list |->
                  IF Provides(list, i, shared) THEN <<FoundAt(list, i, TRUE)>> ELSE <<>>])
=============================================================================
