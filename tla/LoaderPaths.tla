------------------------------- MODULE LoaderPaths -------------------------------
(***************************************************************************)
(* How the tools that follow DT_NEEDED read paths and lists of directories *)
(* (mini-elf-needed-*-resolve, preload.rs).  A directory or file is the    *)
(* sequence of names from the root.  A text is the sequence of what stands *)
(* between its slashes, "/" first when it begins with one; a list is the   *)
(* sequence of the texts between its colons.                               *)
(***************************************************************************)
EXTENDS Naturals, Sequences, FiniteSets, Functions, SequencesExt

CONSTANTS
    Disk, \* path -> the identity of its file, or "directory"
    Cwd   \* the current directory

ASSUME DiskAssumption ==
    /\ Cwd = <<>> \/ Disk[Cwd] = "directory"
    /\ \A p \in DOMAIN Disk : Len(p) > 1 => /\ Front(p) \in DOMAIN Disk
                                            /\ Disk[Front(p)] = "directory"

Refused == <<"?">>  \* no path: what was to be read is refused
Tokens  == {"$ORIGIN", "$LIB", "$PLATFORM", "$OTHER"}

HasToken(t) == Range(t) \cap Tokens # {}
IsPath(t)   == Len(t) > 1
Rooted(t)   == t # <<>> /\ t[1] = "/"
Safe(t)     == t # <<>> /\ Range(t) \cap {"", ".", ".."} = {}
Kept(t)     == SelectSeq(t, LAMBDA c : c \notin {"", "."})
Plain(name) == name \notin {"", ".", ".."}
PathAt(t)   == IF Rooted(t) THEN Kept(Tail(t)) ELSE Cwd \o Kept(t)

(* A file where a directory is wanted is a fault, and not a missing file.  *)
Look(p) ==
    IF \E k \in 1 .. Len(p) - 1 : SubSeq(p, 1, k) \in DOMAIN Disk /\ Disk[SubSeq(p, 1, k)] # "directory"
    THEN "fault"
    ELSE IF p # <<>> /\ p \notin DOMAIN Disk THEN "missing"
    ELSE IF p = <<>> \/ Disk[p] = "directory" THEN "directory" ELSE "file"
RegularAt(p) == IF p # Refused /\ Look(p) = "file" THEN p ELSE Refused

-----------------------------------------------------------------------------
(* $ORIGIN, or $ORIGIN/...: the tokens are whole names.                    *)
Literal(c) == CASE c = "$LIB" -> "lib64" [] c = "$PLATFORM" -> "x86_64" [] OTHER -> c
ExpandDynamicPathEntry(t, origin) ==
    IF t = <<>> \/ t[1] # "$ORIGIN" \/ (Len(t) > 1 /\ ~Safe(t))
       \/ Range(Tail(t)) \cap {"$ORIGIN", "$OTHER"} # {} THEN Refused
    ELSE origin \o [k \in DOMAIN Tail(t) |-> Literal(Tail(t)[k])]
ExpandTokenEntry(t, origin) == ExpandDynamicPathEntry(t, origin)

DynamicPathDirectories(list, origin) ==
    [k \in DOMAIN list |-> ExpandDynamicPathEntry(list[k], origin)]

AbsoluteDynamicPathDirectories(list, origin) ==
    LET Directory(t) ==
          IF t = <<>> THEN Cwd
          ELSE IF Rooted(t)
          THEN IF HasToken(t) \/ ".." \in Range(t) \/ Kept(Tail(t)) = <<>> THEN Refused ELSE PathAt(t)
          ELSE IF HasToken(t) THEN ExpandDynamicPathEntry(t, origin)
          ELSE IF Safe(t) THEN PathAt(t) ELSE Refused
    IN [k \in DOMAIN list |-> Directory(list[k])]
PreloadDynamicPathDirectories(list, origin) == AbsoluteDynamicPathDirectories(list, origin)

(* The explicit loader path: its empty entries are the current directory   *)
(* and its tokens are expanded, as the tool does, before it is checked.    *)
NormalizeLoaderPath(list) == [k \in DOMAIN list |-> IF list[k] = <<>> THEN <<"/">> \o Cwd ELSE list[k]]
ExpandLoaderPath(list, origin) ==
    LET Expanded(t) ==
          IF ~HasToken(t) THEN t
          ELSE LET d == ExpandTokenEntry(t, origin) IN IF d = Refused THEN <<>> ELSE <<"/">> \o d
    IN [k \in DOMAIN list |-> Expanded(list[k])]
LoaderPathDirectories(list) ==
    LET Directory(t) == IF t # <<>> /\ ~HasToken(t) /\ Look(PathAt(t)) = "directory"
                        THEN PathAt(t) ELSE Refused
    IN [k \in DOMAIN list |-> Directory(list[k])]
Normalize(list, origin) == ExpandLoaderPath(NormalizeLoaderPath(list), origin)

-----------------------------------------------------------------------------
(* The first directory that has anything of the name decides; a directory  *)
(* named twice is looked in once, which changes nothing.                   *)
Occupied(directory, name) == \E p \in {Append(directory, name)} : Look(p) # "missing"
FirstOccupied(order, name) ==
    CHOOSE k \in DOMAIN order : Occupied(order[k], name) /\ \A j \in 1 .. k - 1 : ~Occupied(order[j], name)
ResolveDependency(name, before, loader, after, fallback) ==
    LET order == before \o loader \o after \o fallback
    IN IF ~Plain(name) \/ \A k \in DOMAIN order : ~Occupied(order[k], name) THEN Refused
       ELSE RegularAt(Append(order[FirstOccupied(order, name)], name))

(* A name with a slash is no search: it names the file.                    *)
AbsoluteDirect(t) ==
    IF HasToken(t) \/ ".." \in Range(t) \/ Kept(Tail(t)) = <<>> THEN Refused ELSE PathAt(t)
ResolveNeededDependency(t, origin, before, loader, after, fallback) ==
    IF ~IsPath(t) THEN ResolveDependency(t[1], before, loader, after, fallback)
    ELSE RegularAt(IF Rooted(t) THEN AbsoluteDirect(t) ELSE ExpandDynamicPathEntry(t, origin))

CwdRelativeDirect(t) == IF HasToken(t) \/ ~Safe(t) THEN Refused ELSE PathAt(t)
ResolveNeededDependencyWithCwdRelative(t, origin, before, loader, after, fallback) ==
    IF ~IsPath(t) THEN ResolveDependency(t[1], before, loader, after, fallback)
    ELSE RegularAt(IF Rooted(t) THEN AbsoluteDirect(t)
                ELSE IF t[1] = "$ORIGIN" THEN ExpandDynamicPathEntry(t, origin)
                ELSE CwdRelativeDirect(t))

(* mini-elf-needed-resolve and -closure-resolve: a name in one directory.  *)
DependencyPath(t, directory) ==
    IF IsPath(t) \/ ~Plain(t[1]) THEN Refused ELSE RegularAt(Append(directory, t[1]))

-----------------------------------------------------------------------------
(* LD_PRELOAD (preload.rs): paths are taken as they are, of two names of   *)
(* one file the first.                                                     *)
NormalizePreloadPath(t) ==
    IF HasToken(t) \/ ".." \in Range(t) \/ t[1] = "." \/ Kept(t) \in {<<>>, <<"/">>} THEN Refused
    ELSE RegularAt(PathAt(t))
NormalizePreloadBasename(t) == IF HasToken(t) \/ ~Plain(t[1]) THEN Refused ELSE t
DeduplicatePreloadPaths(kept, path) ==
    IF \E p \in Range(kept) : Disk[p] = Disk[path] THEN kept ELSE Append(kept, path)

(* The preload file (system_preload.rs) and what a call makes of the       *)
(* environment: in secure mode only the file counts.                       *)
Preload == {"LD_PRELOAD"}
Library == {"LD_LIBRARY_PATH"}
IsEnvironment(e) == e = [v \in DOMAIN e |-> e[v]] /\ DOMAIN e \subseteq Preload \cup Library

NotAList == << <<":">> >>  \* a file that cannot be read, or has a ":"
Ambient(variables, name) == IF name \in DOMAIN variables THEN variables[name] ELSE <<>>
Assigned(variables, name, list) ==
    [v \in DOMAIN variables \cup {name} |-> IF v = name THEN list ELSE variables[v]]
Removed(variables, name) == Restrict(variables, DOMAIN variables \ {name})
Combined(variables, entries, secure) ==
    (IF secure THEN <<>> ELSE Ambient(variables, "LD_PRELOAD")) \o entries
WithPreload(variables, list) ==
    IF list = <<>> THEN Removed(variables, "LD_PRELOAD") ELSE Assigned(variables, "LD_PRELOAD", list)
WithLibraryPath(variables, secure) ==
    IF secure THEN Removed(variables, "LD_LIBRARY_PATH") ELSE variables
Restored(variables, names, before) ==
    [v \in (DOMAIN variables \ names) \cup (names \cap DOMAIN before) |->
        IF v \in names THEN before[v] ELSE variables[v]]
=============================================================================
