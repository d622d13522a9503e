---------------------------- MODULE LibrarySearch ---------------------------
(***************************************************************************)
(* -L and -l on a command line (library_search.rs): in one pass over the   *)
(* arguments the directories are collected, each library is looked up in   *)
(* those named before it, and the group markers are flattened.  A static   *)
(* link takes archives; a shared object or dynamic PIE prefers a shared    *)
(* library of the same directory, which becomes a dependency provider.     *)
(*                                                                         *)
(* An argument is a sequence: <<word>>, or <<option, value>> for an option *)
(* with its value attached ("-Ldir", "--library=name").  The name of a     *)
(* library is <<name>>, or <<":", name, extension>> for an exact file.     *)
(***************************************************************************)
EXTENDS InputSequence

CONSTANTS Directories, \* directory -> what it holds: <<name, extension>> -> path
          Missing      \* the path standing for every file that is not there

ASSUME SearchAssumption ==
    /\ Missing \in Paths /\ Content[Missing].kind = "unreadable"
    /\ \A d \in DOMAIN Directories : \A f \in DOMAIN Directories[d] : Directories[d][f] \in Paths

StartMarkers == {<<"--start-group">>, <<"-(">>}
EndMarkers   == {<<"--end-group">>, <<"-)">>}
PathOptions    == {"-L", "--library-path"}
LibraryOptions == {"-l", "--library"}

(* What an argument that is left over names: a file, if there is one.      *)
PathOf(t) == IF Len(t) = 1 /\ t[1] \in Paths \cup Markers THEN t[1] ELSE Missing

(* The markers alone, and whether they balance: operands count as well.    *)
MarkersOf(list) == [k \in DOMAIN list |-> IF list[k] \in StartMarkers THEN "--start-group"
                                          ELSE IF list[k] \in EndMarkers THEN "--end-group" ELSE "other"]

-----------------------------------------------------------------------------
(* The state of the loop; awaiting is the option that wants its operand.   *)
SearchStart == [depth |-> 0, paths |-> <<>>, resolved |-> <<>>, providers |-> <<>>,
                awaiting |-> "", error |-> "none"]

OpenGroup(s, flat) ==
    [s EXCEPT !.depth = @ + 1,
              !.resolved = IF flat /\ s.depth > 0 THEN @ ELSE Append(@, "--start-group")]
CloseGroup(s, flat) ==
    [s EXCEPT !.depth = IF flat /\ @ > 0 THEN @ - 1 ELSE @,
              !.resolved = IF flat /\ s.depth > 1 THEN @ ELSE Append(@, "--end-group")]

AddSearchPath(s, path) ==
    IF path = <<"">> THEN [s EXCEPT !.error = "usage"]
    ELSE IF ~(Len(path) = 1 /\ path[1] \in DOMAIN Directories) THEN [s EXCEPT !.error = "failure"]
    ELSE [s EXCEPT !.paths = Append(@, path[1])]

(* The first of the directories that holds one of the files.               *)
Holders(paths, wanted) == {k \in DOMAIN paths : wanted \cap DOMAIN Directories[paths[k]] # {}}
Nameless(name) == name \in {<<"">>, <<":">>}
Exact(name)    == name[1] = ":"
FileOf(name, extension) == IF Exact(name) THEN Tail(name) ELSE <<name[1], extension>>

ResolveLibraryInLast(s, name) ==
    LET wanted  == FileOf(name, "a")
        holders == Holders(s.paths, {wanted})
    IN IF Nameless(name) THEN [s EXCEPT !.error = "usage"]
       ELSE IF holders = {} THEN [s EXCEPT !.error = "failure"]
       ELSE [s EXCEPT !.resolved = Append(@, Directories[s.paths[Max(holders)]][wanted])]
ResolveLibrary(s, name) ==
    LET wanted  == FileOf(name, "a")
        holders == Holders(s.paths, {wanted})
    IN IF Nameless(name) THEN [s EXCEPT !.error = "usage"]
       ELSE IF holders = {} THEN [s EXCEPT !.error = "failure"]
       ELSE [s EXCEPT !.resolved = Append(@, Directories[s.paths[Min(holders)]][wanted])]

(* An exact name is shared if it says so; others are tried as both.        *)
ResolveSharedLibrary(s, name) ==
    LET so == FileOf(name, "so")
        archive == FileOf(name, "a")
        holders == Holders(s.paths, {so, archive})
        held    == Directories[s.paths[Min(holders)]]
        shared  == so \in DOMAIN held /\ so[2] = "so"
    IN IF Nameless(name) THEN [s EXCEPT !.error = "usage"]
       ELSE IF holders = {} THEN [s EXCEPT !.error = "failure"]
       ELSE IF shared THEN [s EXCEPT !.providers = Append(@, held[so])]
       ELSE [s EXCEPT !.resolved = Append(@, held[archive])]

TakeArgument(s, t, flat, shared) ==
    LET Library(name) == IF shared THEN ResolveSharedLibrary(s, name) ELSE ResolveLibrary(s, name)
        Met(state) == [state EXCEPT !.awaiting = ""]
    IN CASE s.error # "none" -> s
         [] s.awaiting \in PathOptions -> Met(AddSearchPath(s, t))
         [] s.awaiting \in LibraryOptions -> Met(Library(t))
         [] s.awaiting = "" /\ t \in StartMarkers -> OpenGroup(s, flat)
         [] s.awaiting = "" /\ t \in EndMarkers -> CloseGroup(s, flat)
         [] s.awaiting = "" /\ t[1] \in PathOptions \cup LibraryOptions ->
              IF Len(t) = 1 THEN [s EXCEPT !.awaiting = t[1]]
              ELSE IF t[1] \in PathOptions THEN AddSearchPath(s, Tail(t)) ELSE Library(Tail(t))
         [] OTHER -> [s EXCEPT !.resolved = Append(@, PathOf(t))]

Search(list, shared) ==
    LET flat == Balanced(MarkersOf(list))
        last == FoldLeft(LAMBDA s, t : TakeArgument(s, t, flat, shared), SearchStart, list)
    IN IF last.error = "none" /\ last.awaiting # "" THEN [last EXCEPT !.error = "usage"] ELSE last
ResolveStaticLibraryArguments(list) == Search(list, FALSE)
ResolveSharedLibraryArguments(list) == Search(list, TRUE)

-----------------------------------------------------------------------------
(* What each argument stands for by itself, given those before it: the     *)
(* operands of -L and -l belong to the option in front.                    *)
Operand(list, i) == i > 1 /\ Len(list[i - 1]) = 1 /\ list[i - 1][1] \in PathOptions \cup LibraryOptions
ValueAt(list, i) == IF Len(list[i]) = 1 THEN list[i + 1] ELSE Tail(list[i])
NamesPath(list, i)    == ~Operand(list, i) /\ list[i][1] \in PathOptions
NamesLibrary(list, i) == ~Operand(list, i) /\ list[i][1] \in LibraryOptions

(* A directory counts for the libraries after it, the earlier one first.   *)
Places(list, i, wanted) ==
    {j \in 1 .. i - 1 : NamesPath(list, j) /\ wanted \in DOMAIN Directories[ValueAt(list, j)[1]]}
Nearest(list, i, wanted) ==
    LET first == Min(UNION {Places(list, i, f) : f \in wanted})
        held  == Directories[ValueAt(list, first)[1]]
        here  == wanted \cap DOMAIN held
    IN [file |-> CHOOSE f \in here : f[2] = "so" \/ \A g \in here : g[2] # "so", held |-> held]
Wanted(list, i, shared) ==
    LET name == ValueAt(list, i)
    IN {FileOf(name, "a")} \cup (IF shared THEN {FileOf(name, "so")} ELSE {})

Provides(list, i, shared) ==
    shared /\ NamesLibrary(list, i) /\ Nearest(list, i, Wanted(list, i, shared)).file[2] = "so"
FoundAt(list, i, shared) ==
    LET near == Nearest(list, i, Wanted(list, i, shared)) IN near.held[near.file]
Standing(list, i, shared) ==
    IF Operand(list, i) \/ NamesPath(list, i) \/ Provides(list, i, shared) THEN <<>>
    ELSE IF NamesLibrary(list, i) THEN <<FoundAt(list, i, shared)>>
    ELSE IF MarkersOf(list)[i] # "other" THEN <<MarkersOf(list)[i]>>
    ELSE <<PathOf(list[i])>>

Searchable(list, shared) ==
    /\ Len(list) > 0 => ~(Len(Last(list)) = 1 /\ Last(list)[1] \in PathOptions \cup LibraryOptions)
    /\ \A i \in DOMAIN list :
         /\ NamesPath(list, i) => Len(ValueAt(list, i)) = 1 /\ ValueAt(list, i)[1] \in DOMAIN Directories
         /\ NamesLibrary(list, i) =>
              /\ ~Nameless(ValueAt(list, i))
              /\ \E f \in Wanted(list, i, shared) : Places(list, i, f) # {}
=============================================================================
