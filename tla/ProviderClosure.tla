----------------------------- MODULE ProviderClosure -----------------------------
(***************************************************************************)
(* resolve_needed_dependencies (main.rs): the --needed and --needed-from   *)
(* arguments in order.  A provider must satisfy an import of the link,     *)
(* itself or through its dependencies, which are searched breadth first    *)
(* from the directories their RUNPATHs and the command line name           *)
(* (provider_closure.rs).  What is kept: DT_NEEDED, the file and version   *)
(* each versioned import requires, and the size of each COPY relocation.   *)
(*                                                                         *)
(* A directory is the sequence of its names; Tree gives its files.  The    *)
(* same file can be reached at several paths.                              *)
(***************************************************************************)
EXTENDS DynamicProvider, Integers, FiniteSets, FiniteSetsExt, SequencesExt

CONSTANTS
    Tree,     \* directory -> name -> file
    Links     \* the calls: specs, imports, search paths and file contents

Imports(l) == Range(l.imports)

ASSUME ClosureAssumption ==
    \A l \in Links :
      /\ \A i \in Imports(l) : i.copy \in BOOLEAN /\ i.version \in STRING
      /\ \A d \in DOMAIN Tree : Range(Tree[d]) \subseteq DOMAIN l.files

VARIABLES
    link,         \* the call
    phase,        \* "specs", "search", or how the call ended
    next,         \* the spec being taken
    names,        \* DT_NEEDED so far; seen is its range
    requirements, \* linker name -> SONAME of the file its version is required of
    copies,       \* linker name -> size of the COPY relocation
    direct,       \* the provider matches an import itself
    required,     \* versioned imports the closure has yet to satisfy
    queue,        \* dependencies to visit: name, and where it was needed
    visited,      \* files visited
    matched,      \* some visited dependency matched
    found,        \* requirements the closure satisfied
    checked,      \* checked_version_providers
    error         \* the error the call returned

closureVars == <<link, phase, next, names, requirements, copies, direct, required, queue,
                 visited, matched, found, checked, error>>
search == <<direct, required, queue, visited, matched, found>>

NoKeys == [x \in {} |-> x]

ClosureInit ==
    /\ link \in Links
    /\ phase = "specs" /\ next = 1
    /\ names = <<>> /\ requirements = NoKeys /\ copies = NoKeys
    /\ direct = FALSE /\ required = {} /\ queue = <<>> /\ visited = {}
    /\ matched = FALSE /\ found = NoKeys
    /\ checked = <<>> /\ error = "none"

Spec == link.specs[next]
FileAt(directory, name) == link.files[Tree[directory][name]]
Root == FileAt(Spec.directory, Spec.name)

Refuse(reason) ==
    /\ phase' = "failed" /\ error' = reason
    /\ UNCHANGED <<link, next, names, requirements, copies, search, checked>>

AddName(name) == names' = IF name \in Range(names) THEN names ELSE Append(names, name)

(* entry().or_insert: the first wins.                                      *)
Requires(old, file, wanted) == old @@ [i \in wanted \ DOMAIN old |-> file.soname]

-----------------------------------------------------------------------------
(* --needed=NAME                                                           *)
TakeName ==
    /\ phase = "specs" /\ next <= Len(link.specs) /\ Spec.kind = "name"
    /\ AddName(Spec.name) /\ next' = next + 1
    /\ UNCHANGED <<link, phase, requirements, copies, search, checked, error>>

Matching(file) == {i \in Imports(link) : MatchesImport(file, i)}
Linkers(set)   == {i.linker : i \in set}
Versioned      == {i \in Imports(link) : i.version # ""}

(* The COPY relocations this provider is the first to size.                *)
ToCopy(file) == {i \in Matching(file) : i.copy /\ i.linker \notin DOMAIN copies}
CopyError(file, i) ==
    IF i.version # "" THEN "VersionedCopy"
    ELSE IF Cardinality(ExportSizes(file, i)) # 1 THEN "AmbiguousSize"
    ELSE IF 0 \in ExportSizes(file, i) THEN "ZeroSize" ELSE "none"
FirstCopyError(file) ==
    LET faulty == SelectSeq(link.imports,
                            LAMBDA i : i \in ToCopy(file) /\ CopyError(file, i) # "none")
    IN IF faulty = <<>> THEN "none" ELSE CopyError(file, faulty[1])

(* The dependencies are searched when the file matches nothing itself, or  *)
(* while a version is still without a file.                                *)
MustSearch(matches, missing) == ~matches \/ missing # {}

Needs(file, directory) ==
    [k \in DOMAIN file.needed |->
       [name |-> file.needed[k], directory |-> directory, runpath |-> file.runpath]]

(* --needed-from=FILE, up to the search of its dependencies.               *)
InspectProvider ==
    /\ phase = "specs" /\ next <= Len(link.specs) /\ Spec.kind = "provider"
    /\ \/ Malformed(Root) /\ Refuse("MalformedProvider")
       \/ ~Malformed(Root) /\ FirstCopyError(Root) # "none" /\ Refuse(FirstCopyError(Root))
       \/ /\ ~Malformed(Root) /\ FirstCopyError(Root) = "none"
          /\ copies' = copies @@ [n \in Linkers(ToCopy(Root)) |->
                          LET i == CHOOSE i \in ToCopy(Root) : i.linker = n
                          IN CHOOSE size \in ExportSizes(Root, i) : TRUE]
          /\ requirements' = Requires(requirements, Root, Linkers(Matching(Root) \cap Versioned))
          /\ direct' = (Matching(Root) # {})
          /\ required' = Linkers(Versioned) \ DOMAIN requirements'
          /\ matched' = FALSE /\ found' = NoKeys
          /\ IF MustSearch(direct', required')
             THEN /\ phase' = "search"
                  /\ visited' = {Tree[Spec.directory][Spec.name]}
                  /\ queue' = Needs(Root, Spec.directory)
             ELSE phase' = "merge" /\ UNCHANGED <<visited, queue>>
          /\ UNCHANGED <<link, next, names, checked, error>>

-----------------------------------------------------------------------------
(* resolve_provider_path: the directory of the file that needs it, its     *)
(* RUNPATH, then the search paths of the command line.                     *)
BadRunpath(runpath) == \E k \in DOMAIN runpath : runpath[k].kind = "bad"
Expanded(runpath, directory) ==
    [k \in DOMAIN runpath |-> IF runpath[k].kind = "origin" THEN directory \o runpath[k].path
                                                            ELSE runpath[k].path]
SearchOrder(need) ==
    <<need.directory>> \o Expanded(need.runpath, need.directory) \o link.paths

Holding(need) ==
    SelectSeq(SearchOrder(need),
              LAMBDA d : d \in DOMAIN Tree /\ need.name \in DOMAIN Tree[d])
FoundIn(need) == Head(Holding(need))
Resolved(need) == Tree[FoundIn(need)][need.name]

Searching == phase = "search" /\ queue # <<>>
Located   == Searching /\ ~BadRunpath(Head(queue).runpath) /\ Holding(Head(queue)) # <<>>

DependencyNotFound ==
    \/ Searching /\ BadRunpath(Head(queue).runpath) /\ Refuse("BadRunpath")
    \/ /\ Searching /\ ~BadRunpath(Head(queue).runpath) /\ Holding(Head(queue)) = <<>>
       /\ Refuse("DependencyNotFound")

SkipVisitedUnpopped ==
    /\ Located /\ Resolved(Head(queue)) \in visited
    /\ UNCHANGED queue
    /\ UNCHANGED <<link, phase, next, names, requirements, copies, direct, required, visited,
                   matched, found, checked, error>>
SkipVisited ==
    /\ Located /\ Resolved(Head(queue)) \in visited
    /\ queue' = Tail(queue)
    /\ UNCHANGED <<link, phase, next, names, requirements, copies, direct, required, visited,
                   matched, found, checked, error>>

QueuedInFront(file, directory) == Needs(file, directory) \o Tail(queue)
Queued(file, directory) == Tail(queue) \o Needs(file, directory)

(* A dependency is read once; the search ends as soon as something matched *)
(* and every required version is found.                                    *)
VisitDependency ==
    /\ Located /\ Resolved(Head(queue)) \notin visited
    /\ LET file == link.files[Resolved(Head(queue))] IN
       \/ Malformed(file) /\ Refuse("MalformedDependency")
       \/ /\ ~Malformed(file)
          /\ visited' = visited \cup {Resolved(Head(queue))}
          /\ matched' = (matched \/ Matching(file) # {})
          /\ found' = Requires(found, file, Linkers(Matching(file)) \cap required)
          /\ IF matched' /\ required \subseteq DOMAIN found'
             THEN phase' = "merge" /\ queue' = Tail(queue)
             ELSE queue' = Queued(file, FoundIn(Head(queue))) /\ UNCHANGED phase
          /\ UNCHANGED <<link, next, names, requirements, copies, direct, required, checked,
                         error>>

SearchExhausted ==
    /\ phase = "search" /\ queue = <<>> /\ phase' = "merge"
    /\ UNCHANGED <<link, next, names, requirements, copies, search, checked, error>>

(* The rest of the loop body.                                              *)
FinishProvider ==
    /\ phase = "merge"
    /\ \/ ~direct /\ ~matched /\ Refuse("NothingMatched")
       \/ /\ direct \/ matched
          /\ requirements' = requirements @@ found
          /\ AddName(Root.soname)
          /\ next' = next + 1 /\ phase' = "specs"
          /\ UNCHANGED <<link, copies, search, checked, error>>

-----------------------------------------------------------------------------
(* checked_version_providers: DT_NEEDED, and behind it the files a version *)
(* is required of, in the byte order of the imports' names, which is left  *)
(* open here.                                                              *)
Checked ==
    LET required_of == {requirements[n] : n \in DOMAIN requirements}
    IN {names \o behind : behind \in SetToSeqs(required_of \ Range(names))}

(* The first import left without what it needs decides the error.          *)
Unsatisfied(i) == \/ i.copy /\ i.linker \notin DOMAIN copies
                  \/ i.version # "" /\ i.linker \notin DOMAIN requirements
Finish ==
    /\ phase = "specs" /\ next > Len(link.specs)
    /\ LET left == SelectSeq(link.imports, Unsatisfied) IN
       \/ /\ left # <<>>
          /\ Refuse(IF left[1].copy /\ left[1].linker \notin DOMAIN copies
                    THEN "MissingCopy" ELSE "MissingVersion")
       \/ /\ left = <<>>
          /\ phase' = "done" /\ checked' \in Checked
          /\ UNCHANGED <<link, next, names, requirements, copies, search, error>>

ClosureNext ==
    \/ TakeName \/ InspectProvider
    \/ DependencyNotFound \/ SkipVisited \/ VisitDependency \/ SearchExhausted
    \/ FinishProvider \/ Finish

ClosureEnded == phase \in {"done", "failed"}
ClosureStopped == ClosureEnded /\ UNCHANGED closureVars

(* The call runs to its end: it is one thread, and reading a file returns. *)
ClosureSpec ==
    ClosureInit /\ [][ClosureNext \/ ClosureStopped]_closureVars /\ WF_closureVars(ClosureNext)

-----------------------------------------------------------------------------
(* The loader's scope of a provider: the file, the files it needs, those   *)
(* they need, each at its first place, level after level.                  *)
Reachable(at) ==
    LET needs == SelectSeq(Needs(link.files[at.file], at.directory),
                           LAMBDA n : ~BadRunpath(n.runpath) /\ Holding(n) # <<>>)
    IN [k \in DOMAIN needs |-> [file |-> Resolved(needs[k]), directory |-> FoundIn(needs[k])]]
AddOnce(list, at) == IF \E x \in Range(list) : x.file = at.file THEN list ELSE Append(list, at)
Scope(spec) ==
    LET within[n \in 0 .. Cardinality(DOMAIN link.files)] ==
          IF n = 0 THEN <<[file |-> Tree[spec.directory][spec.name], directory |-> spec.directory]>>
          ELSE LET nearer == within[n - 1]
               IN FoldLeft(AddOnce, nearer,
                           FoldLeft(LAMBDA list, at : list \o Reachable(at), <<>>, nearer))
    IN within[Cardinality(DOMAIN link.files)]

Serving(spec, i) ==
    SelectSeq(Scope(spec), LAMBDA at : /\ ~Malformed(link.files[at.file])
                                       /\ MatchesImport(link.files[at.file], i))
Providers == {k \in DOMAIN link.specs : link.specs[k].kind = "provider"}
ServedBy(i) == {k \in Providers : Serving(link.specs[k], i) # <<>>}

(* DT_VERNEED names, for each versioned import, the first file in the      *)
(* loader's scope that defines the version, of the first provider argument *)
(* that has one: whatever the graph, cycles and files at two paths too.    *)
(* The call fails for want of a symbol only when nothing it may search has *)
(* it: a provider is refused when no file of its scope matches, a version  *)
(* when no scope defines it, a COPY when no provider itself exports it.    *)
RequirementsFollowScope ==
    /\ phase = "done" =>
         \A i \in Versioned :
           /\ ServedBy(i) # {}
           /\ requirements[i.linker] =
                link.files[Serving(link.specs[Min(ServedBy(i))], i)[1].file].soname
    /\ error = "NothingMatched" => \A i \in Imports(link) : Serving(Spec, i) = <<>>
    /\ error = "MissingVersion" => \E i \in Versioned : ServedBy(i) = {}
    /\ error = "MissingCopy" =>
         \E i \in Imports(link) : /\ i.copy
                                  /\ \A k \in Providers :
                                       LET s == link.specs[k]
                                       IN ~MatchesImport(FileAt(s.directory, s.name), i)
=============================================================================
