------------------------------ MODULE DynamicTables ------------------------------
(***************************************************************************)
(* The dynamic symbols of a shared object or dynamic PIE and the tables    *)
(* that name them (shared_object.rs, version_script.rs): which definitions *)
(* are exported and under which version, the symbols that COPY relocations *)
(* define, the imports, DT_HASH and DT_GNU_HASH, DT_VERSYM, DT_VERDEF and  *)
(* DT_VERNEED.  What a consumer reads in them is checked with the readers. *)
(*                                                                         *)
(* A definition is base@version, base@@version or base.  Names, versions   *)
(* and files come in the byte order of the maps that hold them.            *)
(***************************************************************************)
EXTENDS TableReaders, DynamicProvider

CONSTANTS
    Versions,   \* the versions, in byte order
    Files,      \* the SONAMEs of the providers, in byte order
    Matches,    \* prefix pattern -> the names it matches
    Links       \* the links: definitions, imports, requirements, version script

ASSUME TablesAssumption ==
    /\ BloomBits \in Nat \ {0} /\ BloomShift \in Nat
    /\ \A l \in Links :
         /\ l.scripted \in BOOLEAN /\ (~l.scripted => l.nodes = <<>>)
         /\ \A i \in Range(l.imports) : i.version \in Range(Versions) \cup {""}
         /\ \A r \in Range(l.requirements) : r.file \in Range(Files)

VARIABLES
    link,     \* the input
    phase,    \* the stage of link_loader_image
    next,     \* the version node or definition being taken
    script,   \* the parsed version script
    exports,  \* ExportSymbol list
    matched,  \* exact names of the script that were found
    tables,   \* what is written
    error     \* the error the link ended with

tableVars == <<link, phase, next, script, exports, matched, tables, error>>

NoKeys == [x \in {} |-> x]
EmptyScript == [exact |-> NoKeys, prefixes |-> NoKeys, versions |-> {}, parents |-> NoKeys,
                local |-> FALSE]

TablesInit ==
    /\ link \in Links
    /\ phase = "script" /\ next = 1
    /\ script = EmptyScript
    /\ exports = <<>> /\ matched = {} /\ tables = NoKeys /\ error = "none"

Refuse(reason) ==
    /\ phase' = "failed" /\ error' = reason
    /\ UNCHANGED <<link, next, script, exports, matched, tables>>

-----------------------------------------------------------------------------
(* VersionScript::parse, node after node.                                  *)
Repeats(list, old) == \E k \in DOMAIN list : \/ list[k] \in DOMAIN old
                                             \/ \E j \in 1 .. k - 1 : list[j] = list[k]
NodeError(n) ==
    IF n.version \in script.versions THEN "DuplicateVersion"
    ELSE IF n.globals /\ n.exact = <<>> /\ n.prefixes = <<>> THEN "EmptyGlobalClause"
    ELSE IF Repeats(n.exact, script.exact) THEN "DuplicateSymbol"
    ELSE IF Repeats(n.prefixes, script.prefixes) THEN "DuplicatePattern" ELSE "none"

ParseNode ==
    /\ phase = "script" /\ next <= Len(link.nodes)
    /\ LET n == link.nodes[next] IN
       \/ NodeError(n) # "none" /\ Refuse(NodeError(n))
       \/ /\ NodeError(n) = "none"
          /\ script' = [exact    |-> script.exact @@ [s \in Range(n.exact) |-> n.version],
                        prefixes |-> script.prefixes @@ [p \in Range(n.prefixes) |-> n.version],
                        versions |-> script.versions \cup {n.version},
                        parents  |-> IF n.parent = "" THEN script.parents
                                     ELSE script.parents @@ (n.version :> n.parent),
                        local    |-> script.local \/ n.local]
          /\ next' = next + 1
          /\ UNCHANGED <<link, phase, exports, matched, tables, error>>

(* From a version, parents are followed until there is none.               *)
Cyclic(version) ==
    LET last == Cardinality(script.versions)
        at[k \in 0 .. last] ==
          IF k = 0 THEN version
          ELSE IF at[k - 1] \in DOMAIN script.parents THEN script.parents[at[k - 1]] ELSE ""
    IN at[last] # ""

FinishScript ==
    /\ phase = "script" /\ next > Len(link.nodes)
    /\ \/ /\ link.scripted /\ DOMAIN script.exact = {} /\ DOMAIN script.prefixes = {}
          /\ Refuse("NoGlobalSymbols")
       \/ /\ DOMAIN script.exact \cup DOMAIN script.prefixes # {}
          /\ ~(Range(script.parents) \subseteq script.versions) /\ Refuse("UnknownParent")
       \/ /\ DOMAIN script.exact \cup DOMAIN script.prefixes # {}
          /\ Range(script.parents) \subseteq script.versions
          /\ \E v \in script.versions : Cyclic(v)
          /\ Refuse("InheritanceCycle")
       \/ /\ link.scripted => /\ DOMAIN script.exact \cup DOMAIN script.prefixes # {}
                              /\ Range(script.parents) \subseteq script.versions
                              /\ \A v \in script.versions : ~Cyclic(v)
          /\ phase' = "requirements" /\ next' = 1
          /\ UNCHANGED <<link, script, exports, matched, tables, error>>

(* validate_version_requirements.                                          *)
ImportOf(linker) == {i \in Range(link.imports) : <<i.base, i.version>> = linker}
Invalid(k) == LET r == link.requirements[k]
              IN \/ ImportOf(r.linker) = {} \/ \E i \in ImportOf(r.linker) : i.version # r.version
                 \/ \E j \in 1 .. k - 1 : link.requirements[j].linker = r.linker
Unrequired == {i \in Range(link.imports) :
                 /\ i.version # ""
                 /\ \A r \in Range(link.requirements) : r.linker # <<i.base, i.version>>}
FaultyRequirement ==
    {k \in DOMAIN link.requirements : link.requirements[k].file \notin link.checked \/ Invalid(k)}

CheckRequirements ==
    /\ phase = "requirements"
    /\ \/ /\ FaultyRequirement # {}
          /\ Refuse(IF link.requirements[Min(FaultyRequirement)].file \notin link.checked
                    THEN "VersionRequirementProviderMissing" ELSE "InvalidVersionRequirement")
       \/ FaultyRequirement = {} /\ Unrequired # {} /\ Refuse("InvalidVersionRequirement")
       \/ /\ FaultyRequirement = {} /\ Unrequired = {}
          /\ phase' = "exports"
          /\ UNCHANGED <<link, next, script, exports, matched, tables, error>>

-----------------------------------------------------------------------------
(* resolve_version: an exact name before any pattern; two patterns may     *)
(* only agree.                                                             *)
ScriptVersions(name) ==
    IF name \in DOMAIN script.exact THEN {script.exact[name]}
    ELSE {script.prefixes[p] : p \in {q \in DOMAIN script.prefixes : name \in Matches[q]}}

Exporting(name, version, default) ==
    /\ exports' = Append(exports, [name |-> name, version |-> version, default |-> default])
    /\ next' = next + 1
    /\ UNCHANGED <<link, phase, script, tables, error>>

(* parse_export_identity: base@version is not the default version.         *)
ExportPlain(d) == Exporting(d.base, d.version, d.at # "@") /\ UNCHANGED matched

ExportDefinition ==
    /\ phase = "exports" /\ next <= Len(link.definitions)
    /\ LET d == link.definitions[next]
           versions == ScriptVersions(d.base)
       IN
       \/ link.scripted /\ d.at # "" /\ Refuse("VersionScriptExplicitAlias")
       \/ link.scripted /\ d.at = "" /\ Cardinality(versions) > 1 /\ Refuse("PatternConflict")
       \/ /\ link.scripted /\ d.at = "" /\ Cardinality(versions) = 1
          /\ Exporting(d.base, CHOOSE v \in versions : TRUE, TRUE)
          /\ matched' = matched \cup ({d.base} \cap DOMAIN script.exact)
       \/ /\ link.scripted /\ d.at = "" /\ versions = {} /\ script.local
          /\ next' = next + 1
          /\ UNCHANGED <<link, phase, script, exports, matched, tables, error>>
       \/ link.scripted /\ d.at = "" /\ versions = {} /\ ~script.local /\ ExportPlain(d)
       \/ ~link.scripted /\ d.at = "malformed" /\ Refuse("MalformedVersionedExportName")
       \/ ~link.scripted /\ d.at # "malformed" /\ ExportPlain(d)

Copied(i) == i.copy
ExportCopies ==
    /\ phase = "exports" /\ next > Len(link.definitions)
    /\ LET copies == SelectSeq(link.imports, Copied)
       IN exports' = exports \o [k \in DOMAIN copies |->
                        [name |-> copies[k].base, version |-> "", default |-> TRUE]]
    /\ phase' = "check"
    /\ UNCHANGED <<link, next, script, matched, tables, error>>

(* The exports in order: each may clash with one before it.                *)
SameVersion(x, y) == x.name = y.name /\ x.version = y.version
BothDefault(x, y) == x.name = y.name /\ x.default /\ y.default
ClashesAt(k, clash(_, _)) == \E j \in 1 .. k - 1 : clash(exports[j], exports[k])
Clashes == {k \in DOMAIN exports : ClashesAt(k, SameVersion) \/ ClashesAt(k, BothDefault)}

CheckExports ==
    /\ phase = "check"
    /\ \/ ~(DOMAIN script.exact \subseteq matched) /\ Refuse("VersionScriptUnknownSymbol")
       \/ DOMAIN script.exact \subseteq matched /\ exports = <<>> /\ Refuse("NoExports")
       \/ /\ DOMAIN script.exact \subseteq matched /\ Clashes # {}
          /\ Refuse(IF ClashesAt(Min(Clashes), SameVersion)
                    THEN "ConflictingDynamicExportName" ELSE "MultipleDefaultVersionAliases")
       \/ /\ DOMAIN script.exact \subseteq matched /\ exports # <<>> /\ Clashes = {}
          /\ phase' = "write"
          /\ UNCHANGED <<link, next, script, exports, matched, tables, error>>

-----------------------------------------------------------------------------
(* build_version_metadata: definitions are numbered from 2, and the pairs  *)
(* of file and version after them.                                         *)
LocalVersions == SelectSeq(Versions, LAMBDA v : \/ v \in script.versions
                                                \/ \E e \in Range(exports) : e.version = v)
Groups ==
    FoldLeft(LAMBDA list, f : list \o
               [k \in DOMAIN SelectSeq(Versions, LAMBDA v : \E r \in Range(link.requirements) :
                                                     r.file = f /\ r.version = v) |->
                  [file |-> f,
                   version |-> SelectSeq(Versions, LAMBDA v : \E r \in Range(link.requirements) :
                                                     r.file = f /\ r.version = v)[k]]],
             <<>>, Files)

PositionIn(list, x) == CHOOSE k \in DOMAIN list : list[k] = x
LocalIndex(version) == 1 + PositionIn(LocalVersions, version)
GroupIndexFromTwo(group) == 1 + PositionIn(Groups, group)
GroupIndex(group) == 1 + Len(LocalVersions) + PositionIn(Groups, group)

(* Exports first, then the imports no COPY relocation defines.             *)
DynamicImports == SelectSeq(link.imports, LAMBDA i : ~Copied(i))
DynamicSymbols ==
    [k \in 1 .. Len(exports) |-> [name |-> exports[k].name, defined |-> TRUE]]
    \o [k \in DOMAIN DynamicImports |-> [name |-> DynamicImports[k].base, defined |-> FALSE]]

RequiredBy(i) == CHOOSE r \in Range(link.requirements) : r.linker = <<i.base, i.version>>
Global == [index |-> 1, hidden |-> FALSE]
ExportVersymShown(e) ==
    IF e.version = "" THEN Global ELSE [index |-> LocalIndex(e.version), hidden |-> FALSE]
ExportVersym(e) ==
    IF e.version = "" THEN Global ELSE [index |-> LocalIndex(e.version), hidden |-> ~e.default]
ImportVersym(i) ==
    IF i.version = "" THEN Global
    ELSE [index |-> GroupIndex([file |-> RequiredBy(i).file, version |-> i.version]),
          hidden |-> FALSE]
Versym == [k \in DOMAIN exports |-> ExportVersym(exports[k])]
          \o [k \in DOMAIN DynamicImports |-> ImportVersym(DynamicImports[k])]

(* A definition record with its name and its parent's, one after another.  *)
HasParent(v) == v \in DOMAIN script.parents
DefinitionSize(v) == IF HasParent(v) THEN 36 ELSE 28
StartOf(list, size(_), k) == FoldLeft(LAMBDA sum, x : sum + size(x), 0, SubSeq(list, 1, k - 1))

DefinitionRecord(k) ==
    LET v == LocalVersions[k]  at == StartOf(LocalVersions, DefinitionSize, k)
    IN (at :> [index |-> LocalIndex(v), count |-> IF HasParent(v) THEN 2 ELSE 1, aux |-> 20,
               next |-> IF k = Len(LocalVersions) THEN 0 ELSE DefinitionSize(v)])
       @@ (at + 20 :> [name |-> v, next |-> IF HasParent(v) THEN 8 ELSE 0])
       @@ (IF HasParent(v) THEN at + 28 :> [name |-> script.parents[v], next |-> 0] ELSE NoKeys)
Verdef == FoldLeft(LAMBDA area, k : area @@ DefinitionRecord(k), NoKeys,
                   [k \in DOMAIN LocalVersions |-> k])

NeededFiles == SelectSeq(Files, LAMBDA f : \E g \in Range(Groups) : g.file = f)
VersionsOf(f) == SelectSeq(Groups, LAMBDA g : g.file = f)
RequirementSize(f) == 16 + 16 * Len(VersionsOf(f))
RequirementRecord(k) ==
    LET f == NeededFiles[k]  at == StartOf(NeededFiles, RequirementSize, k)
        groups == VersionsOf(f)
    IN (at :> [file |-> f, count |-> Len(groups), aux |-> 16,
               next |-> IF k = Len(NeededFiles) THEN 0 ELSE RequirementSize(f)])
       @@ [x \in {at + 16 * j : j \in DOMAIN groups} |->
             LET g == groups[(x - at) \div 16]
             IN [index |-> GroupIndex(g), name |-> g.version,
                 next |-> IF (x - at) \div 16 = Len(groups) THEN 0 ELSE 16]]
Verneed == FoldLeft(LAMBDA area, k : area @@ RequirementRecord(k), NoKeys,
                    [k \in DOMAIN NeededFiles |-> k])

(* One bucket each; every symbol is hashed, imports too.                   *)
SysvTable ==
    LET count == Len(DynamicSymbols) + 1
    IN [count |-> count, buckets |-> (0 :> 1),
        chains |-> [k \in 0 .. count - 1 |-> IF k = 0 \/ k + 1 = count THEN 0 ELSE k + 1]]
BloomOfExports(names) ==
    UNION {{Hash[names[k].name] % BloomBits} : k \in DOMAIN names}
Bloom(names) ==
    UNION {{Hash[names[k].name] % BloomBits,
            (Hash[names[k].name] \div 2 ^ BloomShift) % BloomBits} : k \in DOMAIN names}
GnuTable ==
    [offset |-> 1, buckets |-> (0 :> IF DynamicSymbols = <<>> THEN 0 ELSE 1),
     bloom |-> Bloom(DynamicSymbols),
     chains |-> [k \in DOMAIN DynamicSymbols |->
                   [hash |-> Hash[DynamicSymbols[k].name] \div 2,
                    last |-> k = Len(DynamicSymbols)]]]

(* build_dynamic_metadata.                                                 *)
WriteTables ==
    /\ phase = "write"
    /\ tables' = [symbols |-> DynamicSymbols, sysv |-> SysvTable, gnu |-> GnuTable,
                  versym |-> IF LocalVersions = <<>> /\ Groups = <<>> THEN <<>> ELSE Versym,
                  verdef |-> Verdef, verdefnum |-> Len(LocalVersions),
                  verneed |-> Verneed, verneednum |-> Len(NeededFiles)]
    /\ phase' = "written"
    /\ UNCHANGED <<link, next, script, exports, matched, error>>

TablesNext ==
    \/ ParseNode \/ FinishScript \/ CheckRequirements
    \/ ExportDefinition \/ ExportCopies \/ CheckExports \/ WriteTables

Ended == phase \in {"written", "failed"} /\ UNCHANGED tableVars

TablesSpec == TablesInit /\ [][TablesNext \/ Ended]_tableVars

-----------------------------------------------------------------------------
Written == phase = "written"

(* Every name of the table is found by both hash tables, at its first      *)
(* symbol, and no other name is; the readers count the symbols the same,   *)
(* and walk the table without leaving it.                                  *)
BothHashesFindEverySymbol ==
    Written =>
      /\ SysvValid(tables) /\ tables.sysv.count = GnuCount(tables)
      /\ \A name \in DOMAIN Hash :
           LET places == {k \in DOMAIN tables.symbols : tables.symbols[k].name = name}
               first == IF places = {} THEN 0 ELSE Min(places)
           IN SysvLookup(tables, name) = first /\ GnuLookup(tables, name) = first

(* Definitions and requirements share one space of indices: each one that  *)
(* DT_VERSYM uses means exactly one thing, which is the version the        *)
(* definition was given, or the version and file the import requires.      *)
VersionIndicesAgree ==
    (Written /\ tables.versym # <<>>) =>
      /\ ChainsOk(tables.verdef, tables.verdefnum) /\ ChainsOk(tables.verneed, tables.verneednum)
      /\ LET sources == DefinitionSources(tables.verdef, tables.verdefnum)
                        \cup RequirementSources(tables.verneed, tables.verneednum)
         IN /\ \A x, y \in sources : x.index = y.index => x = y
            /\ \A k \in DOMAIN exports : exports[k].version # "" =>
                 [index |-> tables.versym[k].index, file |-> "", version |-> exports[k].version]
                   \in sources
            /\ \A k \in DOMAIN DynamicImports : DynamicImports[k].version # "" =>
                 [index |-> tables.versym[Len(exports) + k].index,
                  file |-> RequiredBy(DynamicImports[k]).file,
                  version |-> DynamicImports[k].version] \in sources

(* The object as the next link's --needed-from inspects it.                *)
AsProvider ==
    [soname |-> "self", needed |-> <<>>, versym |-> tables.versym # <<>>,
     verdef |-> DefinitionsRead(tables.verdef, tables.verdefnum),
     symbols |-> {[name |-> tables.symbols[k].name, type |-> "func", binding |-> "global",
                   visibility |-> "default", defined |-> tables.symbols[k].defined,
                   index |-> IF tables.versym = <<>> THEN 1 ELSE tables.versym[k].index,
                   hidden |-> tables.versym # <<>> /\ tables.versym[k].hidden,
                   size |-> 0] : k \in DOMAIN tables.symbols}]

(* The version under which the inputs say a definition is to be seen.      *)
Listed(d) == {n.version : n \in {m \in Range(link.nodes) : d.base \in Range(m.exact)}}
Patterned(d) == {n.version : n \in {m \in Range(link.nodes) :
                                      \E p \in Range(m.prefixes) : d.base \in Matches[p]}}
Intended(d) ==
    IF ~link.scripted THEN {[version |-> d.version, default |-> d.at # "@"]}
    ELSE IF Listed(d) \cup Patterned(d) = {}
    THEN IF \E n \in Range(link.nodes) : n.local THEN {} ELSE {[version |-> "", default |-> TRUE]}
    ELSE {[version |-> v, default |-> TRUE] :
            v \in IF Listed(d) # {} THEN Listed(d) ELSE Patterned(d)}

Import(name, version) == [name |-> name, type |-> "func", version |-> version]

(* Another link that reads this object may import exactly what the inputs  *)
(* and the version script export: base@version for each version, the bare  *)
(* name for a default or unversioned definition or a COPY, nothing that    *)
(* local: hides, and no import of this object.                             *)
ConsumersSeeTheExports ==
    Written =>
      /\ ~Malformed(AsProvider)
      /\ \A name \in DOMAIN Hash :
           LET seen == UNION {Intended(d) : d \in {x \in Range(link.definitions) : x.base = name}}
               copy == \E i \in Range(link.imports) : i.copy /\ i.base = name
           IN /\ MatchesImport(AsProvider, Import(name, "")) <=>
                   copy \/ \E s \in seen : s.default
              /\ \A v \in Range(Versions) :
                   MatchesImport(AsProvider, Import(name, v)) <=> \E s \in seen : s.version = v
=============================================================================
