------------------------------- MODULE LoaderScope -------------------------------
(***************************************************************************)
(* The mini-elf-needed-*-resolve tools: which image a loader would take a  *)
(* symbol from.  needed and closure look in one directory; runpath, absolute*)
(* and nodefaultlib follow DT_RPATH and DT_RUNPATH; loader-token and       *)
(* loader-cwd rewrite the loader path in front; env takes it from          *)
(* LD_LIBRARY_PATH, and the preload tools look in the root and in the      *)
(* images of LD_PRELOAD first.  preload-token, preload-deps and system-    *)
(* preload change the environment of the process around the tool below.    *)
(***************************************************************************)
EXTENDS LoaderPaths

CONSTANTS
    Images,  \* identity of a file -> what a well-formed image says
    Lookups  \* the command lines, each with its environment

NoText == <<>>
Tables == {"gnu", "sysv"}

(* A text and a list of texts are as in LoaderPaths.                       *)
Text == Seq(STRING)
ASSUME LookupAssumption ==
    /\ \A i \in DOMAIN Images :
         /\ DOMAIN Images[i].tables \subseteq Tables
         /\ Images[i].needed \in Seq(Text) /\ Images[i].rpath \in Seq(Text) /\ Images[i].runpath \in Seq(Text)
    /\ \A l \in Lookups :
         /\ l.option \in Seq(Text)
         /\ IsEnvironment(l.environment) /\ \A v \in DOMAIN l.environment : l.environment[v] \in Seq(Text)

VARIABLES
    request,     \* the command line
    environment, \* LD_PRELOAD and LD_LIBRARY_PATH, each set or not
    saved,       \* values to put back: the names, and the environment before
    stage,       \* what comes next
    agenda,      \* names of LD_PRELOAD, then the files and scopes, still to be looked at
    trail,       \* for each one looked at: its files, and what was found
    walk,        \* the scope being collected
    output       \* what the tool reports

scopeVars == <<request, environment, saved, stage, agenda, trail, walk, output>>

SimpleTools  == {"needed", "closure"}
LiteralTools == {"runpath", "loader-token", "loader-cwd", "nodefaultlib"}
TokenTools   == {"preload-token", "preload-deps", "system-preload"}
EnvTools     == {"env", "preload"} \cup TokenTools

NoWalk == [root |-> Refused, loader |-> <<>>, scope |-> <<>>, at |-> 1,
           parent |-> [needed |-> <<>>], seen |-> {}, sonames |-> {}]
NotFound == <<>>
Refusal  == <<"refused">>

LookupInit ==
    /\ request \in Lookups /\ environment = request.environment
    /\ saved = <<>> /\ stage = "called" /\ agenda = <<>> /\ trail = <<>>
    /\ walk = NoWalk /\ output = NotFound

Fail ==
    /\ stage' = "returning" /\ output' = Refusal
    /\ UNCHANGED <<request, environment, saved, agenda, trail, walk>>
Task(what, path) == [what |-> what, path |-> path]
OnlyRoot == <<Task("scope", request.root)>>
Readable(path) == RegularAt(path) # Refused /\ Disk[path] \in DOMAIN Images
ImageAt(path)  == Images[Disk[path]]
Scoped(names)  == Append(saved, [names |-> names, before |-> environment])

-----------------------------------------------------------------------------
(* The tool starts, sets the environment if it has to, and chooses what to *)
(* look at.  With --secure the environment is not read, but system-preload *)
(* goes on without it, in an environment of its own.                       *)
Call ==
    /\ stage = "called" /\ request.tool # "system-preload"
    /\ LET expands == request.tool \in TokenTools /\ ~request.secure
           reads   == request.tool = "preload" /\ ~request.secure
       IN /\ stage' = IF expands THEN "expanding" ELSE IF reads THEN "preparing" ELSE "next"
          /\ agenda' = IF expands \/ reads THEN agenda ELSE OnlyRoot
    /\ UNCHANGED <<request, environment, saved, trail, walk, output>>

CallSystemPreload ==
    /\ stage = "called" /\ request.tool = "system-preload"
    /\ IF request.file = NotAList THEN Fail
       ELSE /\ LET list == Combined(environment, request.file, request.secure)
               IN environment' = WithLibraryPath(WithPreload(environment, list), request.secure)
            /\ saved' = Scoped(IF request.secure THEN {"LD_PRELOAD", "LD_LIBRARY_PATH"} ELSE {"LD_PRELOAD"})
            /\ stage' = "expanding"
            /\ UNCHANGED <<request, agenda, trail, walk, output>>

(* Tokens are expanded for the root, in the environment itself.            *)
ExpandPreload(t) == IF HasToken(t) /\ ~IsPath(t) THEN Refused
                    ELSE IF HasToken(t) THEN ExpandTokenEntry(t, Front(request.root)) ELSE Tail(t)
ExpandPreloads ==
    /\ stage = "expanding"
    /\ LET list == Ambient(environment, "LD_PRELOAD")
           expanded == [k \in DOMAIN list |-> IF HasToken(list[k]) THEN <<"/">> \o ExpandPreload(list[k])
                                              ELSE list[k]]
       IN IF \E k \in DOMAIN list : HasToken(list[k]) /\ ExpandPreload(list[k]) = Refused THEN Fail
          ELSE /\ stage' = "preparing"
               /\ IF "LD_PRELOAD" \notin DOMAIN environment THEN UNCHANGED <<environment, saved>>
                  ELSE /\ environment' = Assigned(environment, "LD_PRELOAD", expanded)
                       /\ saved' = Scoped({"LD_PRELOAD"})
               /\ UNCHANGED <<request, agenda, trail, walk, output>>

-----------------------------------------------------------------------------
(* The directories searched before RUNPATH: from the option, or from the   *)
(* environment, whose tokens stand for the root of this scope.             *)
EnvDirectories(root) ==
    IF "LD_LIBRARY_PATH" \notin DOMAIN environment \/ (request.secure /\ request.tool # "system-preload")
    THEN <<>>
    ELSE LoaderPathDirectories(Normalize(environment["LD_LIBRARY_PATH"], Front(root)))
LoaderDirectories(root) ==
         CASE request.tool \in SimpleTools -> <<>>
         [] request.tool \in EnvTools -> EnvDirectories(root)
         [] request.tool = "loader-token" -> LoaderPathDirectories(ExpandLoaderPath(request.option, Front(root)))
         [] request.tool = "loader-cwd" ->
              LoaderPathDirectories(ExpandLoaderPath(NormalizeLoaderPath(request.option), Front(root)))
         [] OTHER -> LoaderPathDirectories(request.option)

(* What DT_RPATH and DT_RUNPATH of one image say: the directories before   *)
(* the loader path, which its dependencies inherit, and those after it.    *)
(* DT_RPATH is nothing beside a DT_RUNPATH.                                *)
Directories(list, path) ==
    IF request.tool \in LiteralTools THEN DynamicPathDirectories(list, Front(path))
    ELSE AbsoluteDynamicPathDirectories(list, Front(path))
InheritedDespiteRunpath(path, inherited) == Directories(ImageAt(path).rpath, path) \o inherited
Inherited(path, inherited) ==
    (IF ImageAt(path).runpath # <<>> THEN <<>> ELSE Directories(ImageAt(path).rpath, path)) \o inherited
SearchPaths(path, inherited) ==
    IF request.tool \in SimpleTools THEN [before |-> <<>>, after |-> <<>>]
    ELSE [before |-> Inherited(path, inherited), after |-> Directories(ImageAt(path).runpath, path)]

(* A name in LD_PRELOAD is looked up as the root would.                    *)
ResolveBare(t, loader) ==
    LET origin == Front(request.root)
        image  == ImageAt(request.root)
        before == IF image.runpath # <<>> THEN <<>> ELSE PreloadDynamicPathDirectories(image.rpath, origin)
        after  == PreloadDynamicPathDirectories(image.runpath, origin)
    IN IF Look(request.fallback) # "directory" \/ ~Readable(request.root)
          \/ NormalizePreloadBasename(t) = Refused \/ Refused \in Range(before \o after)
       THEN Refused
       ELSE ResolveDependency(t[1], before, loader, after, <<request.fallback>>)
ResolvePreload(t, loader) == IF IsPath(t) THEN NormalizePreloadPath(t) ELSE ResolveBare(t, loader)

ParsePreloads ==
    /\ stage = "preparing"
    /\ LET list   == Ambient(environment, "LD_PRELOAD")
           loader == EnvDirectories(request.root)
       IN IF list = <<>>
          THEN /\ stage' = "next" /\ agenda' = OnlyRoot
               /\ UNCHANGED <<request, environment, saved, trail, walk, output>>
          ELSE IF Refused \in Range(loader) THEN Fail
          ELSE /\ stage' = "resolving" /\ agenda' = list
               /\ walk' = [NoWalk EXCEPT !.loader = loader]
               /\ UNCHANGED <<request, environment, saved, trail, output>>

ResolveNextPreload ==
    /\ stage = "resolving" /\ agenda # <<>>
    /\ LET path == ResolvePreload(Head(agenda), walk.loader)
       IN IF path = Refused THEN Fail
          ELSE /\ walk' = [walk EXCEPT !.scope = DeduplicatePreloadPaths(@, path)]
               /\ agenda' = Tail(agenda)
               /\ UNCHANGED <<request, environment, saved, stage, trail, output>>

Tasks(what, paths) == [k \in DOMAIN paths |-> Task(what, paths[k])]
PreloadsResolved ==
    /\ stage = "resolving" /\ agenda = <<>>
    /\ agenda' = Tasks("file", <<request.root>> \o walk.scope)
                 \o (IF request.tool \in {"preload-deps", "system-preload"}
                     THEN Tasks("scope", walk.scope) ELSE <<>>)
                 \o <<Task("resort", request.root)>>
    /\ stage' = "next"
    /\ UNCHANGED <<request, environment, saved, trail, walk, output>>

-----------------------------------------------------------------------------
(* One image: its GNU hash table if it has one, its SysV table otherwise.  *)
(* The first symbol of the name decides.                                   *)
Eligible(s) == s.bind # "local" /\ s.defined /\ s.visibility \notin {"internal", "hidden"}
Style(path) == IF "gnu" \in DOMAIN ImageAt(path).tables THEN "gnu" ELSE "sysv"
Searchable(path) == Readable(path) /\ DOMAIN ImageAt(path).tables # {}
Lookup(path) ==
    LET table == ImageAt(path).tables[Style(path)]
    IN IF \E k \in DOMAIN table : /\ table[k].name = request.symbol /\ Eligible(table[k])
                                  /\ \A j \in 1 .. k - 1 : table[j].name # request.symbol
       THEN <<path, Style(path)>> ELSE NotFound

Looked(paths, found) ==
    /\ trail' = Append(trail, [what |-> Head(agenda).what, paths |-> paths, found |-> found])
    /\ agenda' = Tail(agenda) /\ stage' = "next"
    /\ UNCHANGED <<request, environment, saved, walk, output>>
Answers == {k \in DOMAIN trail : trail[k].found # NotFound}

LookInFile ==
    /\ stage = "next" /\ agenda # <<>> /\ Head(agenda).what = "file"
    /\ LET path == Head(agenda).path
       IN IF Searchable(path) THEN Looked(<<path>>, Lookup(path)) ELSE Fail

(* Breadth first from the root of the scope.                               *)
BeginScope ==
    /\ stage = "next" /\ agenda # <<>> /\ Head(agenda).what # "file"
    /\ Head(agenda).what = "resort" => Answers = {}
    /\ LET root   == Head(agenda).path
           loader == LoaderDirectories(root)
       IN IF Look(request.fallback) # "directory" \/ Refused \in Range(loader) THEN Fail
          ELSE /\ walk' = [NoWalk EXCEPT !.root = root, !.loader = loader,
                                         !.scope = <<[path |-> root, inherited |-> <<>>]>>]
               /\ stage' = "opening"
               /\ UNCHANGED <<request, environment, saved, agenda, trail, output>>

Report ==
    /\ stage = "next"
    /\ agenda # <<>> => (Head(agenda).what = "resort" /\ Answers # {})
    /\ stage' = "returning"
    /\ output' = IF Answers = {} THEN NotFound ELSE trail[Min(Answers)].found
    /\ UNCHANGED <<request, environment, saved, agenda, trail, walk>>

-----------------------------------------------------------------------------
(* An image of the scope: what it needs, and where that is looked for.     *)
Entry == walk.scope[walk.at]
Opened == walk.at > Len(walk.scope) \/ (request.tool = "needed" /\ walk.at > 1)
NoFallback(path) == request.tool = "nodefaultlib" /\ "NODEFLIB" \in ImageAt(path).flags
OpenImage ==
    /\ stage = "opening" /\ ~Opened
    /\ LET image == ImageAt(Entry.path)
           paths == SearchPaths(Entry.path, Entry.inherited)
       IN IF ~Readable(Entry.path) \/ Refused \in Range(paths.before \o paths.after) THEN Fail
          ELSE /\ walk' = [walk EXCEPT
                     !.sonames = @ \cup ({image.soname} \ {NoText}),
                     !.parent = [before |-> paths.before, after |-> paths.after, needed |-> image.needed,
                                 fallback |-> IF NoFallback(Entry.path) THEN <<>> ELSE <<request.fallback>>]]
               /\ stage' = "needing"
               /\ UNCHANGED <<request, environment, saved, agenda, trail, output>>

Resolve(t) ==
    LET p == walk.parent
        origin == Front(Entry.path)
    IN CASE request.tool \in SimpleTools -> DependencyPath(t, request.fallback)
         [] request.tool \in LiteralTools ->
              ResolveNeededDependency(t, origin, p.before, walk.loader, p.after, p.fallback)
         [] OTHER -> ResolveNeededDependencyWithCwdRelative(t, origin, p.before, walk.loader, p.after, p.fallback)

Loaded(t) == t \in walk.seen \/ (request.tool \notin SimpleTools /\ t \in walk.sonames)
TakeDependency ==
    /\ stage = "needing" /\ walk.parent.needed # <<>>
    /\ LET t    == Head(walk.parent.needed)
           path == Resolve(t)
           rest == [walk EXCEPT !.parent.needed = Tail(@), !.seen = @ \cup {t}]
           child == [path |-> path, inherited |-> walk.parent.before]
           soname == IF request.tool \in SimpleTools THEN NoText ELSE ImageAt(path).soname
       IN IF Loaded(t)
          THEN /\ walk' = [walk EXCEPT !.parent.needed = Tail(@)]
               /\ UNCHANGED <<request, environment, saved, stage, agenda, trail, output>>
          ELSE IF path = Refused \/ (request.tool \notin SimpleTools /\ ~Readable(path)) THEN Fail
          ELSE /\ walk' = IF soname # NoText /\ soname \in walk.sonames THEN rest
                          ELSE [rest EXCEPT !.scope = Append(@, child), !.sonames = @ \cup ({soname} \ {NoText})]
               /\ UNCHANGED <<request, environment, saved, stage, agenda, trail, output>>

CloseImage ==
    /\ stage = "needing" /\ walk.parent.needed = <<>>
    /\ walk' = [walk EXCEPT !.at = @ + 1] /\ stage' = "opening"
    /\ UNCHANGED <<request, environment, saved, agenda, trail, output>>

(* The first image of the scope that has the symbol; those behind it are   *)
(* not looked at.                                                          *)
LookInScope ==
    /\ stage = "opening" /\ Opened
    /\ LET paths == [k \in DOMAIN walk.scope |-> walk.scope[k].path]
           stops == {k \in DOMAIN paths : ~Searchable(paths[k]) \/ Lookup(paths[k]) # NotFound}
       IN IF stops = {} THEN Looked(paths, NotFound)
          ELSE IF ~Searchable(paths[Min(stops)]) THEN Fail
          ELSE Looked(SubSeq(paths, 1, Min(stops)), Lookup(paths[Min(stops)]))

(* Every caller puts back what it changed, whatever became of the call.    *)
Return ==
    /\ stage = "returning"
    /\ IF saved = <<>> THEN stage' = "exited" /\ UNCHANGED <<environment, saved>>
       ELSE /\ environment' = Restored(environment, Last(saved).names, Last(saved).before)
            /\ saved' = Front(saved) /\ stage' = stage
    /\ UNCHANGED <<request, agenda, trail, walk, output>>

LookupNext ==
    \/ Call \/ CallSystemPreload \/ ExpandPreloads
    \/ ParsePreloads \/ ResolveNextPreload \/ PreloadsResolved
    \/ LookInFile \/ BeginScope \/ Report
    \/ OpenImage \/ TakeDependency \/ CloseImage \/ LookInScope \/ Return
LookupEnded == stage = "exited"
LookupStopped == LookupEnded /\ UNCHANGED scopeVars
LookupSpec ==
    LookupInit /\ [][LookupNext \/ LookupStopped]_scopeVars /\ WF_scopeVars(LookupNext)

-----------------------------------------------------------------------------
(* The directories an image of a scope is searched with, from the chain of *)
(* images that needed one another down to it: RPATHs of those without a    *)
(* RUNPATH, nearest first, and the RUNPATH of the last alone.              *)
Rpath(path) == IF ImageAt(path).runpath # <<>> \/ request.tool \in SimpleTools THEN <<>>
               ELSE Directories(ImageAt(path).rpath, path)
Runpath(path) == IF request.tool \in SimpleTools THEN <<>> ELSE Directories(ImageAt(path).runpath, path)
Inheritance(scope, owner) ==
    LET inherits[k \in DOMAIN scope] ==
          IF k = 1 THEN <<>> ELSE Rpath(scope[owner[k]].path) \o inherits[owner[k]]
    IN inherits
OrderOf(path, inherited, loader) ==
    Rpath(path) \o inherited \o loader \o Runpath(path)
       \o (IF NoFallback(path) THEN <<>> ELSE <<request.fallback>>)
Having(directories, name) ==
    {k \in DOMAIN directories : Append(directories[k], name) \in DOMAIN Disk}
FoundFrom(path, inherited, loader, t) ==
    LET order == OrderOf(path, inherited, loader)
        held  == Having(order, t[1])
    IN IF IsPath(t)
       THEN IF t[1] = "$ORIGIN" THEN ExpandDynamicPathEntry(t, Front(path)) ELSE PathAt(t)
       ELSE IF held = {} THEN Refused ELSE Append(order[Min(held)], t[1])

(* The images of a scope were needed by earlier ones, in the order of      *)
(* those, and each lies where the loader would find it for the one that    *)
(* needed it; what any of them needs is there, by name, by SONAME or as    *)
(* what the name finds; and no two have the same SONAME.                   *)
OpenedImages(scope) == IF request.tool = "needed" THEN {1} ELSE DOMAIN scope
Owners(scope) ==
    {o \in [2 .. Len(scope) -> OpenedImages(scope)] :
       /\ \A k \in DOMAIN o : o[k] < k
       /\ \A j, k \in DOMAIN o : j < k => o[j] <= o[k]}
NeedsOf(scope, j) == Range(ImageAt(scope[j].path).needed)
SonameOf(scope, k) == ImageAt(scope[k].path).soname
Finds(scope, inherits, loader, j, t) == FoundFrom(scope[j].path, inherits[j], loader, t)
Supplies(scope, inherits, loader, k, i, t) ==
    LET file == Finds(scope, inherits, loader, i, t)
    IN /\ t \in NeedsOf(scope, i)
       /\ \/ file = scope[k].path
          \/ /\ request.tool \notin SimpleTools /\ SonameOf(scope, k) # NoText
             /\ file # Refused /\ Readable(file) /\ ImageAt(file).soname = SonameOf(scope, k)
Supplied(scope, inherits, loader, j, t) ==
    \E k \in DOMAIN scope :
       \/ request.tool \notin SimpleTools /\ SonameOf(scope, k) # NoText /\ SonameOf(scope, k) = t
       \/ \E i \in OpenedImages(scope) : i <= j /\ Supplies(scope, inherits, loader, k, i, t)
LoadedFor(scope, owner, inherits, loader) ==
    /\ \A k \in DOMAIN owner :
         \E t \in NeedsOf(scope, owner[k]) : Finds(scope, inherits, loader, owner[k], t) = scope[k].path
    /\ \A j \in OpenedImages(scope) : \A t \in NeedsOf(scope, j) : Supplied(scope, inherits, loader, j, t)
ScopeIsLoaders(scope, loader) ==
    \E owner \in Owners(scope) : LoadedFor(scope, owner, Inheritance(scope, owner), loader)
SonamesDiffer(scope) ==
    request.tool \in SimpleTools \/
    \A j, k \in DOMAIN scope : j # k =>
        ImageAt(scope[j].path).soname = NoText \/ ImageAt(scope[j].path).soname # ImageAt(scope[k].path).soname

(* The scope a tool collects is the one the documented rules of a loader   *)
(* give; the symbol reported is that of the first image looked at that     *)
(* has one, of two names of one file in LD_PRELOAD the first; and the       *)
(* environment is left as it was.                                          *)
Examined == UNION {{k} \X DOMAIN trail[k].paths : k \in DOMAIN trail}
Answer(p) == Lookup(trail[p[1]].paths[p[2]])
Ahead(p, q) == p[1] < q[1] \/ (p[1] = q[1] /\ p[2] < q[2])
FirstAnswer ==
    \/ output = NotFound /\ \A p \in Examined : Answer(p) = NotFound
    \/ \E p \in Examined : /\ output = Answer(p) /\ output # NotFound
                            /\ \A q \in Examined : Ahead(q, p) => Answer(q) = NotFound
PreloadsDiffer ==
    \A j, k \in 2 .. Len(trail) :
        trail[j].what = "file" /\ trail[k].what = "file" /\ j # k =>
            Disk[trail[j].paths[1]] # Disk[trail[k].paths[1]]
LookupsFollowTheLoader ==
    /\ (stage = "opening" /\ Opened) =>
           ScopeIsLoaders(walk.scope, walk.loader) /\ SonamesDiffer(walk.scope)
    /\ stage = "exited" => environment = request.environment
    /\ (stage = "exited" /\ output # Refusal) => FirstAnswer /\ PreloadsDiffer
=============================================================================
