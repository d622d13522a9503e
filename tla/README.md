# A verification project for the mini-elf-toolchain linker

The program is an ELF64 x86-64 linker written in Rust (`src/*.rs` of the
repository; file names below are relative to that directory). It is one process
with one thread: what is hard in it is not interleaving but *order* and
*numeric edges*. The same archives, symbols and sections arrive in every order
the user can type; the same decision is taken twice by different code; and one
address is computed in several places that must agree. The models therefore
let the inputs range over every order and shape within small bounds, follow the
code step by step, and state what must hold of the outcome - where there is
one, of what the loader, the start-up code or a reader makes of the output.

## 1. Inventory

State and operations of each component, how it meets its neighbours, and what
makes it correct. The last column says how much of it section 3 models.

| component (files) | state | operations | correct when | here |
|---|---|---|---|---|
| command line (`main.rs`, `image_base.rs`, `forced_undefined.rs`) | option flags, list of input arguments | extract options, refuse conflicting modes, write output, map | only the options documented together are accepted; what an accepted line says is what is linked | `partial`, `link`; not the writing |
| library search (`library_search.rs`) | search paths read so far | `-L`, `-l`, `-l:` in order, flattening of groups | a library is found as the options before it say | all |
| input sequence (`main.rs`, `load_link_input_sequence`) | `whole_archive`, its stack, the group being read | read a file, open/close a group, push/pop, repeat the lazy archives of a group | each file carries the `--whole-archive` state of its place; the repetitions reach a fixed point; nothing else is repeated | all |
| ordered link inputs (`ordered_inputs.rs`, `archive_lazy.rs`, `archive_extract.rs`) | linked objects, defined and unresolved names, the copies a scan works on | link an object, link a whole archive, scan an index, update the sets | members come in only on demand, all needed ones do, both sets are exact | all, proved |
| archives (`archive.rs`, `archive_index.rs`, `archive_writer.rs`) | none (bytes) | parse members and index, write an archive | byte formats | the scan's view |
| ELF parsing (`elf64.rs`, `input_object.rs`, ...) | none | decode with checked bounds | total on bytes | no |
| symbol resolution (`resolve.rs`, `link_symbols.rs`, `object_symbols.rs`) | map name -> definition, the common section | add a symbol, merge, replace, refuse, lay out commons | names are bound by rank in every order; commons have disjoint aligned storage | all, binding proved |
| partial linking (`partial_link.rs`) | pending and canonical symbols; contributions, COMDAT choices, RELA tables, output groups | collect, force, merge; select groups, place, rebase, rewrite, emit | a later link of the output binds as a link of the originals; bytes, relocations and groups keep their meaning | all |
| image layout (`permission_layout.rs`, `load_segments.rs`, `executable_writer.rs`, `program_headers.rs`, ...) | addresses, segments, the file | place, group, write, inject `PT_TLS`, append the header table | every byte is found at its address with its section's permissions | most |
| static TLS (`tls.rs`) | the block | measure, write the image, offsets | the file range is the initial image; a reference reaches its symbol's offset | all |
| relocations and synthetic sections (`relocated_sections.rs`, `link_relocations.rs`, ...) | GOT/PLT/TLS entries, patched words | collect entries, lay out, apply | the pass that allocates and the pass that uses agree; a word reaches its symbol | most |
| static PIE runtime (`pie_runtime.rs`, `static_link.rs`) | RELR/RELATIVE/IRELATIVE tables, trampoline | encode, emit start-up code, seal | every word is relocated once, before any resolver runs | all |
| shared objects, dynamic PIE (`shared_object.rs`, `crt_startup.rs`) | import plan, dynamic symbols, versions, PLT, lifecycle arrays, RELRO | plan, lay out, order, number, write | what the loader does with the output is what the inputs mean | most |
| dependency providers (`dynamic_provider.rs`, `provider_closure.rs`, `main.rs`) | visited providers, imports still unmatched | search, visit, match | the first provider in order wins; every search ends | all |
| version scripts (`version_script.rs`) | nodes | parse, match | exact names beat patterns | matching |
| link map (`link_map.rs`) | none | report | formatting only | no |
| inspectors (`bin/`, `preload.rs`, `system_preload.rs`) | entries taken so far; the scope that follows `DT_NEEDED`; the environment, shared by threads | read, evaluate, follow, set and restore, print | a tool reads what a writer meant and reports what the loader would do; a call leaves the environment it found | readers of relocations, of the dynamic section, hash, version and RELR tables; the tools that follow DT_NEEDED and LD_PRELOAD, and calls by threads, proved |

A command runs through these parts in one direction:

    arguments -> library search -> [providers] -> input sequence
        -> ordered link inputs -> symbol resolution
        -> [import plan] -> relocation and layout -> segments -> file
        -> [TLS header] -> [runtime headers, dynamic tables]
        -> kernel, [loader] -> [start-up code] -> program

`partial` leaves after the ordered link inputs and writes an object that comes
back as the input of another link. There are no callbacks and no shared memory
between the parts; each hands a finished value to the next. What couples them
is agreement: the scan and its caller both maintain the symbol sets;
`resolve.rs` and `partial_link.rs` both decide between definitions; the pass
that plans GOT and PLT entries and the pass that fills them select the same
relocations; layout, writer and TLS injection all compute file offsets; the
encoder of a table and its readers agree on its form.

The linker has no concurrency, no timeout and no message; nothing is persisted
but the output file. The one place where threads meet is the environment of the
process, which `system_preload.rs` changes under a lock around a resolver that
may panic. The behaviours that are hard are loops to a fixed point
(scan, group, provider closure), order dependence (symbols, archives, planning
of COPY relocations, lifecycle arrays), agreement of duplicated code,
boundaries (pages, alignments, u64 overflow, bitmaps of 63 slots), and the
order of what happens at start-up in the image it wrote. `PROJECT.json` lists
them as hazards, each at its line, with the properties that cover it.

## 2. Plan

In order of importance; all but the last item is done.

1. **OrderedInputs** (with `InputFiles`, abstract `LinkClosure`): what is
   linked. Composed with **InputSequence** in **LinkInputs**.
2. **SymbolResolution** (with `SymbolCandidates`): what names mean.
3. **PartialSymbols** and **PartialSections**: partial linking. The former
   composed with two resolutions in **PartialThenLink**.
4. **ImageLayout**: where bytes end up, down to what the kernel maps.
5. **PieRuntime**: tables and start-up code of a static PIE as one behaviour.
6. **ImportPlan**, **RelocatedWords**: which references are accepted, what
   they cause, what they reach when the image runs.
7. **LoaderImage**: layout policies, order of constructors,
   sealing.
8. **DynamicTables** with **TableReaders**: symbols, versions and hash tables.
9. **DynamicProvider**, **ProviderClosure**: the search for providers.
10. **LibrarySearch**, **CommandLine**: which inputs and options a line gives,
    in front of LinkInputs.
11. **ImageTables**, **RelocationReaders**, **DynamicMetadata**,
    **ImageInspection**: the inspectors of relocations, over images from
    elsewhere and the linker's own.
12. **LoaderPaths**, **LoaderScope**: the tools that foretell which image a
    loader takes a symbol from. **SystemPreload**: the environment they share
    between threads. Composed with ProviderClosure in **DependencySearch**; the
    tools and the threads are proved in **DependencySearch_proofs**.
13. Theorems not yet stated: that the sections of a partial link keep their
    bytes, that constructors run by priority, that an accepted command line means
    what it says, and that providers follow their scope.
## 3. The modules and the code

### InputFiles, OrderedInputs, LinkClosure

`InputFiles` is the file system as the loader finds it: objects with sets of
symbols (name, binding, defined or not) and archives with members and an index;
kinds of file stand for the parse errors. `OrderedInputs` is
`prepare_ordered_link_inputs_with_forced_undefined`:

| module | code |
|---|---|
| `objects`, `defined`, `unresolved` | the three locals of the loop over the inputs |
| `scanDefined`, `scanUnresolved`, `picked` | the copies and the `extracted` list of `extract_indexed_archive_members` |
| `pending`, `lazy` | the members of the archive arm still to be linked |
| `LinkObject`, `BeginWhole`, `BeginScan` | the three arms of `OrderedLinkInput` |
| `ScanMember`, `EndScan` | one turn, and the end, of the scan's loop |
| `LinkMember`, `EndArchive` | the loop over the members, `update_symbol_state` |
| `Fail` | every `return Err` of the three functions |

`update_symbol_state` is a loop over one object's symbols. The model folds it
into one step because its result does not depend on their order; names in
`defined` are never in `unresolved`.

`LinkClosure` says what is promised without the bookkeeping: besides the roots
(objects and whole archives) only units that define a name the linked set asks
for and lacks, and at the end all the roots. `Closure!ClosureSpec` is a
property of OrderedInputs (`ImplementsClosure`).

### InputSequence, LinkInputs

`InputSequence` is `load_link_input_sequence` with the flattening of nested
groups and the early checks of `partial`: `whole` and `stateStack` are the
locals of the same purpose, `inGroup` is the inner loop, `memberCount` the
bound on the repetitions. `LinkInputs` hands the result to OrderedInputs as
`link_files` does, with the synthetic CRT object in front when asked for.
It starts from a list of arguments (any within the bounds) or from a command
line, as CommandLine reads it.

### LibrarySearch, CommandLine

`LibrarySearch` is `library_search.rs`: `ResolveStaticLibraryArguments` and
`ResolveSharedLibraryArguments` with their two resolvers, `-L`, `-l` and `-l:`
with the value attached or in the next argument, and the group markers in their
four spellings. `Directories` is the file system as the search sees it.

`CommandLine` is `run` of `main.rs` for `partial` and `link`: one operator per
extraction pass, in the order of the code (`Passes`), each with the arguments
it finds, those it leaves and whether it refuses; the refusals between them
(`Unsupported`, `UnparsedScript`); `--map` and `--entry` before the inputs; the
search; and `link_files` through LinkInputs. `LinkerScript` is the script
language of `image_base.rs` by tokens. An argument is one word, or an option with
its value attached (`<<"--entry", "x">>` for `--entry=x`); an error is "usage"
or "failure", the exit statuses 2 and 1, without its text.

`AcceptedLinesMeanWhatTheySay` compares the passes with one reading of the line
from left to right. They can differ: a word that spells an option and stands
as the value of another is taken away by a pass before. Such lines are outside the
property (`CleanLine`). So that the property is true of the code it also says:
an image base from a script or `-Ttext-segment` is accepted with `--pie`,
`--dynamic-pie` and `--shared`, where it has no effect (only `--image-base` is
refused), and `--map` and `--entry` behind the first input are inputs, so that
`-e` there becomes a file named `--entry`.

### SymbolCandidates, SymbolResolution

The non-local symbols of all objects form a stream; `definitions` is the
`BTreeMap` of `resolve_symbols_with_common`. `DefineName`, `MergeCommons`,
`OverrideName`, `KeepName`, `ConflictOnName` are the arms of the match on the
map entry; `AllocateCommon` is one turn of the loop that lays out the commons
in name order (`NameOrder` is the map's order), with both overflow checks.
`SizeLimit` stands for 2^64.

### PartialSymbols, PartialThenLink

`PartialSymbols` is the part of `link_relocatable_objects_with_forced_undefined`
that builds the symbol table: `CollectSymbol`/`RefuseSymbol` (the loop over the
inputs, COMDAT-discarded definitions included), `ForceName`, then
`canonicalize_nonlocal_symbols` (`EnterSymbol`, `MergeName`, `MergeConflict`,
`RefuseCommon`). `marks` says of each symbol what the section side has decided:
whether its section lost its COMDAT group, whether a surviving relocation
needs it, and the grounds for refusal; PartialSections computes them.

`PartialThenLink` runs the resolver on all symbols, then the partial link on a
prefix and the resolver on its output and the rest, and compares the two.

### PartialSections

The section side of the same function, around PartialSymbols: `objects` are
the parsed inputs, `outputs` the output sections with their bytes (byte k of a
contribution), `placed` the section map, `discarded` and `selected` the COMDAT
choice. One action per turn of a loop: `ParseGroups`, `SelectGroup`,
`PlaceOrdinary`, `PlaceOrdered` (SHF_LINK_ORDER), `PlaceCompanion` (the
companions of a group), `LookUpSymbols`, `BuildSymbols` (PartialSymbols),
`RewriteTable`/`JoinTables`, `EmitTables`, `EmitGroup`. `Limit` stands for
2^64. Which of several faults of one group is reported is left open; format
checks of group headers, the file layout of the written object, overflow of
symbol values and relocation offsets, empty RELA names and two RELA tables of
one section in one group are left out. `MissingLinkOrderTargetOutput` cannot
be reached.

### ImageLayout

The pipeline of a static link, one action per stage (`PlaceSection`,
`MeasureTls`, `BuildSegments`, `WriteSegments`, `InjectTls`, `AttachHeaders`).
Bytes are symbolic: byte k of section i, a zero, or a byte of a header.
`MappedByte(a)` is the kernel's rule for `PT_LOAD` (external): whole pages,
in table order, zero beyond the file part. `ThreadOffset` is `tls.rs`'s offset
of a TLS symbol from the thread pointer; a thread's block is a copy of the
PT_TLS image below it. Relocations do not move bytes and are left out; so are
layout tails, RELRO and `PT_NOTE`.

### ImportPlan, RelocatedWords

A reference is a relocation (type, place, symbol) of an object. `ImportPlan` is `validate_inputs` of `shared_object.rs`, where each relocation
of a shared object or dynamic PIE is refused or given a plane: `PlanTls`,
`CheckTypes`, `PlanImport`, `NextTable`, `AdmitSymbols`, `FinishPlan`; and
`CheckPie` is `validate_position_independent_inputs`. The plan's sets grow while
they are read, as in the code, so the order of the input counts.
`RelocatedWords` goes on with what the plan caused: `Collect` (which GOT and PLT
entries exist), `ApplyTable` (one RELA table: the value of each word),
`FillSlots`, `StaticTls`, `Patch` (the deferred thread-local and copied words)
and `WriteLoaderRelocations`. Then the image is loaded: `Applied`, `Found` and
`Preempted` are the loader's rules (external): the executable first in scope,
protected symbols bind locally, copies are shared.

A value is a place (a definition, a GOT entry, what the loader finds for a
name), never a number; the arithmetic of slots and images is in ImageLayout,
LoaderImage and PieRuntime. `GOTPCREL` stands for its four forms. Left out:
NOBITS targets, offsets and overflow, commons, versioned names,
`IfuncResolverNotExecutable`, -Bsymbolic. Which of several refusals is reported
is left open in `AdmitSymbols`, `CheckPie` and `LoaderRefusal`. `NotHonoured`
lists four kinds of reference the code accepts and then does not honour; they are a
hazard of `PROJECT.json`. A relocation table has an entry at least: no pass does
anything with an empty one.

### PieRuntime

Link time and start-up of a static PIE are one behaviour. `CollectDirect`,
`StartGot`, `CollectGot` gather the words to relocate, `BuildTables` and the
`Encode...` actions write the RELA entries or the packed RELR words,
`LayOutRuntime` places tables and trampoline. Then the trampoline runs:
`RelrDirect`, `RelrBitmap`, `StoreRelative`, `CallResolver`/`ResolverReturns`,
`SealSegment`/`SealFails` (mprotect may fail: exit 127), `EnterUser`. Machine
code is known by what it does. `link.got` are the keys of `got_entries` in order, `ByTarget` is the sort of
the RELATIVE entries by target. Addends are part of the value; a word takes
`Word` addresses and a bitmap covers `BitmapSlots` words, so that a full bitmap
and a gap over one fit in ten words. The trampoline is taken to be shorter than
a page, and errors the relocation pass has already excluded
(`MissingGlobalDefinition` and the like) do not occur.

### LoaderImage

`LoaderImage` is `link_loader_image` without its symbols: `OrderTail` (the
lifecycle arrays sorted: a suffix is the number it spells and its place in byte
order, `Before` the comparison, `SortOutcomes` what a stable sort may make of
it), `PlaceSections` by one of the layout
policies (plain, page-isolated GOT, bind-now; then GOT, GOTPLT and PLT), `AllocateCopies`, `CollectLifecycle`, `PlaceMetadata` (the
RELRO interval), `WriteImage`. Then `Load` (relocate, seal), `RunConstructors`,
`Call` through the PLT and `RunDestructors` are the loader and the program
(external, after ld.so: preinit array, DT_INIT, init array; at exit the fini
array backwards and DT_FINI; the start and the end of RELRO are floored to
pages). The overlap check and the header's other ranges are those of
ImageLayout. `DebugAssertions` says how the linker was built (section 6).

### TableReaders, DynamicTables

`DynamicTables` is the symbol side of `link_loader_image`: `ParseNode`,
`FinishScript` (version script), `CheckRequirements`, `ExportDefinition`,
`ExportCopies`, `CheckExports`, `WriteTables` (dynamic symbols, DT_HASH,
DT_GNU_HASH, DT_VERSYM, DT_VERDEF, DT_VERNEED). `TableReaders` holds what the
repository's own tools make of such tables: the two hash look-ups, symbol
counts, the walks along version records. Hash values are given by a function,
two of the five names collide. Not modelled: the tokenizer of version scripts
and wildcard errors, definitions that are not of default visibility, counts
above 0x7fff.

### ImageTables, RelocationReaders, DynamicMetadata, ImageInspection

The 28 inspectors of dynamic relocations (`mini-elf-dynrel*`, `mini-elf-dynplt*`).
`ImageTables` is an image as they read it: the entries of its dynamic section,
tables at addresses, segments; and the checks most of them share.
`RelocationReaders` (words, distances, sizes, thread-local, PLT and RELATIVE
entries, listings) has for each tool `...Reads`, what it
wants of the image, and `...Entry`, what it reports of an entry or `<<>>` where
it refuses. The copies of `dynamic_symbol_count` stand side by side. In
`ImageInspection` a session opens images (`OpenImage`), takes entries
(`TakeEntry`), refuses or closes (`CloseImage`), and prints at the end. The
images are made up (every tag missing or twice, counts that disagree, values at
the limits of words) or one that DynamicTables has just written:
`DynamicMetadata` is its dynamic section and symbol table.

What the loader does with an entry (`LoaderValue`, `Loaded`) is external, from
the psABI. Words have `Limit8` to `Limit64` values, small numbers in the same
proportions. Names stand for string-table offsets and program headers are well
formed. Not claimed: the value behind an IFUNC (the tools report its resolver),
PC32 against absolute and thread-local symbols (the tool does not look), TLSDESC
entries in DT_RELA of an image with DT_JMPREL (the tool reads the latter). The
listings accept an empty table, the others refuse it; images whose tables name
an import are refused by the tools that evaluate.

### DynamicProvider, ProviderClosure

`ProviderClosure` is `resolve_needed_dependencies`: `TakeName` (`--needed`),
`InspectProvider` (`--needed-from`), then a breadth-first search of its
dependencies (`VisitDependency`, `SkipVisited`, `DependencyNotFound`,
`SearchExhausted`) in the directories the RUNPATHs and the command line name,
`FinishProvider`, and `Finish` with the checks of what stays unmatched.
`DynamicProvider` is the inspection of one file and the rule for a match.
Directories are sequences of names; `Tree` is the file system.

### LoaderPaths, LoaderScope, SystemPreload, DependencySearch

`LoaderPaths` has the readers of paths and lists: DT_RPATH and DT_RUNPATH in
the literal and the absolute style, the loader path and its rewriting, direct
names, the entries of LD_PRELOAD. A path is a sequence of names, a list the
sequence of its texts; `Disk` gives the identity of the file behind each path,
so that one file can have several names. `LoaderScope` is a run of one of the
twelve `mini-elf-needed-*-resolve` tools on these: `Call` or
`CallSystemPreload`, `ExpandPreloads` (tokens, written back to the
environment), `ParsePreloads`, `ResolveNextPreload`, `PreloadsResolved`; then
for each file or scope to be examined `LookInFile`, or `BeginScope`,
`OpenImage`, `TakeDependency`, `CloseImage`, `LookInScope`; `Report` at the
first match, `Fail`, `Return` (the environment put back). `Inherited` is what
an image's dependencies inherit of its search directories.

`SystemPreload` is `SystemPreloadRequest::resolve` called by threads: each
access to a variable of the environment is an action of the thread, from
`Acquire` over `CapturePreload`, `SetPreload`, the reads of the resolver, its
return or panic, to `RestorePreload` and `Release`. `calls` holds the requests
each thread has still to make. `DependencySearch` puts the linker's search,
a tool's and the threads' calls side by side, one of them per behaviour, under
one specification with fairness.

## 4. The runs

| run | shows | bounds, and why they are enough |
|---|---|---|
| `link_inputs` | the symbol sets, demand rule, exhaustion of an archive, refinement of LinkClosure; scope of `--whole-archive`; the fixed point of a group; every command ends; a command line is accepted exactly if it is lawful and then means what it says; libraries are found in order | some 12000 command lines: every option with each mode and every pair of options (also under `--dynamic-pie`), each form of value, scripts with each fault, library options around groups; and every argument list of up to 3 tokens, every group around up to 3 (also behind prefixes), every list of up to 3 files. The archives need each other in a cycle, one needs its own other member, one has stale index entries; the group (libB libA main.o) has a chain that takes one member per repetition, the worst case the bound in the code is made for |
| `partial_then_link` | binding by rank, layout of commons, the symbol table of a partial link; linking in two stages equals linking at once | every stream of up to 4 symbols of one name, up to 5 definitions, 3 symbols of two names, cut at every place, 2 forced lists, commons up to the size limit 12. A wrong branch shows with three symbols of a name, and five put all ranks in every order. Symbols with marks of the section side are linked partially on their own |
| `partial_sections` | bytes, relocations and symbols of a partial link keep their meaning; groups stay whole | every triple of thirteen sound objects and every pair with one of each ground of refusal; `Limit` 32 for 2^64; three objects put a contribution before, in and after another's |
| `relocated_words` | references reach their symbols; the loader writes each word once; what was planned is carried out | one name in every shape with 1 to 3 references from four kinds of section, a second object, four kinds of link; two references suffice for the plan of the first to disturb the second, and the third (of a smaller core of shapes) to be disturbed by both |
| `image_layout` | permissions per page, offsets, content of memory, TLS image, header table | pages of 8 bytes, words of 2, addresses below 96, two bases (aligned, unaligned), every list of up to 3 of fourteen shapes and text plus 3 or 4 writable ones; shapes are below, at and above a page, empty, over-aligned, RWX or too large |
| `shared_page` | a violation: section 6 | the same shapes in shorter lists |
| `pie_runtime` | each word relocated once, resolvers after relocation, only the GOT sealed, the inspector lists what was packed | every set of ten words in bitmaps of 3 slots (full bitmaps, gaps of more than one bitmap), every sequence of up to 2 of 18 relocations with 7 GOTs |
| `loader_image` | order of constructors, each function once, entries and calls reach their symbols, what is sealed | up to 3 sections in every order, with suffixes 09, 0foo, 10, 1a, 9 and late (numbers whose bytes are not in the order of their values, two equal ones, names before, between and after them) and none, every layout policy with every use of GOT and PLT, pages of 64 |
| `release_build`, `ibt_landings` | violations: section 6 | the same links |
| `dynamic_tables` | both hash tables find each symbol, version indices agree, consumers see the exports; the inspectors report what the loader does, their copied symbol counts agree, and they read the linker's own images | every tool on images with each fault and values on both sides of every width, one or two images a session; five names of which two collide, scripts of up to 3 nodes, imports of two files |
| `dependency_search` | the provider found is the first in scope, failure only without one; a tool reports the first definition in the loader's scope; each call sees its own environment and restores it; every search ends | graphs of up to 5 files with cycles, diamonds, a file at two paths, missing files, 4 RUNPATHs; each tool on 96 programs (eight lists of dependencies, six pairs of RPATH and RUNPATH, with and without NODEFLIB) or the 18 of them that tell preloads apart, with every form of entry in the loader path and in LD_PRELOAD, faults included; three threads with up to three calls, secure and not, from three environments. Two threads suffice to disturb one another; the third finds the environment a disturbed call left |

Deadlock is checked in all runs: actions such as `Stopped`, `Halted` and
`Settled` let a finished command stutter, so a deadlock would be a state no
branch of the code covers.

`Comparable` (PartialThenLink) names what the two ways of linking are compared
on. It leaves out marked symbols, a forced name that is empty, and a nameless
common that is weak or whose alignment is not a power of two, which a link
ignores and a partial link refuses. Such a common has no meaning and no
compiler emits it; the two models show the difference by themselves
(`IgnoreSymbol` against `RefuseCommon`).

**Fairness.** `EveryLinkEnds` and `EverySearchEnds` are checked under weak
fairness of the next-state relation, the latter of each thread's own. The command is one thread that runs whenever it
can, each action is a bounded piece of its loops, and reading a file returns,
so no more than this is assumed. The lock of the environment is not fair, but the calls of
a thread are finitely many, so it stays free at last for one that waits. What
the properties exclude is an infinite scan, repetition or search, and a lock
that a panic leaves taken.

**Mutants.** Each property of a passing run has a mutant in `PROJECT.json`: a
definition of the model changed the way a slip in the code would change it
(one guard dropped, one repetition short, offsets not anchored); the run must
then fail. The mutated forms stand next to the originals in the modules
(`Repetitions` and `RepetitionsOneShort`, for instance) and no action uses
them.

## 5. What is proved

All proofs are checked by TLAPS (SMT, Zenon, LS4) with no omitted step. Their
only assumptions are the named ASSUMEs on the constants: the file system is
well typed, every index entry points at a member, sequences name readable
files, arguments name files, streams are sequences of candidates, a cut lies
within its stream, has marks for what it cuts and is taken alone unless it is
`Comparable`, the relocations and the GOT of a static PIE
are well typed and its sizes positive, the page size of a layout is a power of two
and a multiple of the table's alignment (4096 and 8 in the code), environments have
no names but the two, what an image or a command line lists is a sequence of texts,
and no thread is called "nobody". `DivisionFacts` holds what the proofs need of
multiples, quotients, rounding and powers of two, and of the ranks and bounds of
finite sets of numbers.

**LinkInputs_proofs.** First the loop over the inputs alone (`OrderedInputs`). For
every file system, input sequence and set of forced names: `TypeOK`, `BookkeepingIsExact`, `NeverBothDefinedAndUnresolved`,
`ScanAgreesWithCaller`, `ExtractedOnlyOnDemand`, `NeverExtractedTwice`,
`ScannedArchiveIsExhausted`. The properties are not inductive: the state in the
middle of a scan has to say what the caller's sets *will* be. The invariant is

    Inv == TypeOK /\ PlaceInv /\ SetsInv /\ ScanInv /\ DemandInv /\ PickedInv
             /\ ExtractedOnlyOnDemand

- `SetsInv`: the sets are what the linked units say.
- `ScanInv`: the scan's sets are those of the linked units together with the
  members picked and not yet linked.
- `DemandInv`: each picked member was asked for by something before it.
- `PickedInv`: what is picked is defined; after the loop no entry asks.

One lemma per action shows that it is kept; `RecordKeepsSets` and
`RecordKeepsDemand` hold what linking one unit does to the sets, which three
actions share.

`LinksTheClosure`: every behaviour is one of `LinkClosure`.
The extra invariant `RootsInv` says that the roots behind `pos`
are linked and, inside a whole archive, all but the pending ones. Every
step maps to `AddRoot`, `Extract`, `Close` or a stutter; an extraction is
allowed because `DemandInv` names the symbol that asks.

Then the same with the loader in front (`LinkInputs`), for every argument
list: the seven properties of the loop (`LoadedLinksAreSound`), the closure
(`LoadedLinksTheClosure`), and `GroupsAreExhausted`, the reason for a group's
repetitions: when the loop is past them, no truthful index entry of an archive of the
group defines what is asked for. It is a counting argument, over two machines:

- `LoadInv`: what the loader has put down for a group (`SpanIn`) is its inputs
  and then `turns` times its lazy archives, and `turns` is at least the number
  of units in them (`Counted`: `member_count` counts members, of which several
  may be the same unit).
- `HandInv`: the loop has not begun, or runs on what was loaded.
- `VisitInv`: the first member a scan picks was asked for by a truthful entry.
- `TurnsInv`: after `r` turns the archives are exhausted already, or at least
  `r` units of the group are linked; so after the last turn all of them are.

`LinkInv` is these with `Inv` and `RootsInv` of the loop.

`LoadedAsTheArgumentsSay` is about the loader itself: `LoadedAsWritten`. The
property knows no stack: an argument stands under the last setting marker that
is in no closed push/pop pair. `StackIn` ties the two together: the stack is as
deep as pushes outnumber pops, and its entry `d` is the state at the push
that took the depth from `d - 1` to `d` and has not been undone since; a pop then
leaves the setters of that place (`WholeRestored`). `OrderedTo(l, n)` says that
`l` names the files `1 .. n`, each one after all before it, and only lazy
archives twice; it survives appending the next files (`OrderedConcat`) and
repeating lazy archives (`OrderedAgain`). `WrittenInv` puts this together with
what the loader has read of an open group. The theorems are for
`LinkInputsSpec`; the run that checks `GroupIsExhausted` starts from command
lines (`CommandLineSpec`), whose reading uses a fold that the prover does not
know.

**PartialThenLink_proofs.** First the resolver alone. For every stream of symbols: `ResolveTypeOK`,
`OneStrongDefinition` and `BoundByRank`. `BoundByRank` speaks of the
symbols read and asks what a name is bound to; the inductive form goes the
other way, from the definition held to the symbols read:

    ResolveInv == ResolveTypeOK /\ BindingInv /\ ScanInv /\ OneStrongDefinition

`BindingInv` has a clause for a strong, a weak and a common definition; a
weak one, for example, says that no strong and no common definition has been
read and no weak one earlier. `ScanInv` says that nothing is allocated before
the scan is over; without it the arms of the match would meet a definition
they have no rule for. `BindStep` is the common part of the actions that bind
a name, and each action proves only what its new definition says.

`CommonsAreApart` needs `CommonInv`: every alignment read, and the section's,
is a power of two. A common is placed at a multiple of the largest alignment of
its name; that this serves the smaller ones is `SmallerPower`, proved
from the definition of `PowerOfTwo` (no odd divisor) by the least counterexample.

`OutcomeIsDetermined` says how a resolution ends without the variables of one.
`Resolves(s, D)` describes the definitions of a stream and `Rejects(s)` the
streams that are refused; no stream is both (`ResolvedOrRejected`). The offsets
of commons depend on the commons before them in name order, and the running end
of the storage would be a recursion: it is a sequence `e` with `Ends(s, e, p)`
instead, each element given by the one before. There is only one such sequence
(`EndsInOneWay`, by the least place where two differ). `OutcomeInv` says that
`definitions`, `commonSize` and `placing` are on the way there. Streams that are
`Alike` (each name has the same strong, the same largest common, the same first
weak definition) are bound alike (`AlikeBindAlike`).

Then the partial link. For every stream, cut, set of marks and list of
forced names: `OutputStandsForInputs` (`PartialLinkStandsForInputs`), the
resolver's properties in both of the links that are compared
(`BothLinksBindByRank`), and `PartialIsTransparent`
(`PartialLinkIsTransparent`). `PartInv` follows the partial link stage by stage:

- `PendingFrom(m)`: what the collection of the first `m` symbols has handed on,
  and in which order.
- `ForcedTo(m)`: which forced names have a symbol.
- `MergedTo(m)`: each merged symbol stands in one entry, an entry's name is its
  own, and the entry `Wins` among its `Kin`, the symbols of its name merged so
  far: by rank, with the first of the weak ones and the largest of the commons.
- `Refusable`: the grounds of a link that was refused.

Transparency is not a simulation: the two links read streams of different
lengths and share no intermediate state. They are compared by their outcomes:

- `EmittedCondenses`, from `MergedTo`: what the output says of a name is what
  the inputs say of it, once.
- `CutIsAlike`: so the output and the other objects are `Alike` all symbols, for
  whatever other objects; `CutTroubles`: one is rejected if the other is.
- `RefusalIsShared`: the grounds of a partial link are among those of a link.
- `WantedOfTheCut`: the strong references left are the same, and the forced.
- `WayInv` says which stream the resolver reads and how the first link ended;
  `OutcomeIsDetermined` then gives both ends.

**PieRuntime_proofs.** For every list of relocations, GOT, page size and reach
of a bitmap: `RelocatedExactlyOnce`, `ResolversRunRelocated`,
`OnlyTheGotIsSealed` and `InspectorListsTargets`. Five invariants, one on top of the other:

- `CollectInv`: the two lists hold the words the relocations and the GOT ask
  for.
- `SealInv`: segments cover whole pages, and the pages sealed so far are those
  of the GOT segments behind `next`.
- `TableInv`: the RELA table is the one of the lists; packed targets increase.
- `RelrInv`: there are bases `b` and counts `l` such that RELR word `i` stands
  for the targets `l[i - 1] + 1` to `l[i]` (`Encodes`), and the encoder or the
  decoder stands where they say (`Standing`). It is stated with two sequences
  that the module does not have, because the encoder and the decoder each know
  only the current base.
- `MemoryInv`: a word has its final value if its entry has been processed, and
  its link-time value otherwise.

`InspectorListsTargets` follows from `RelrInv`: the inspector's two loops are
recursive functions, which the prover knows as "some function that satisfies
the equation". The function `n -> the first l[n] targets, standing at b[n]`
satisfies it, so there is one, and it agrees with this one by the least place
where they differ (`WordsListed`; `BitsAre` for the bits of one word).

**ImageLayout_proofs.** For every list of allocatable sections, page size,
header size and image base: `LoadsAreWellFormed`, `MemoryIsAsLinked` and
`TlsImageIsInitial`. What they say of the kernel's view comes down to one
relation: a page boundary lies between two addresses (`Boundary(e, a)`). The
pipeline is followed stage by stage:

- `PlaceInv`: sections placed earlier end before later ones, and there is a
  boundary between any two that differ in their permissions, not only between
  neighbours.
- `Shaped(segs, grown)`: every section is in the segment its address belongs to
  (`Home`), file data within the file image, memory-only space behind it (unless
  the last segment has grown over the headers); and there is a boundary in front
  of a segment of other permissions and of one without file image. The second is
  why a segment that only maps anonymous memory never hides file data.
- `Laid(segs, low)`: file images follow one another from `low` on, congruent to
  their addresses; where no boundary lies between two segments they move by the
  same distance from memory to file. It is what makes a page shared by two
  segments show the right bytes whichever is mapped last. Both formulas for
  offsets, the plain one and the one anchored at the TLS block, solve one
  recursion (`Solves`), and `SolutionIsLaid` is about that one.
- `Filed(segs, f)`: the file holds each section's bytes where its segment moves
  them, and zeros behind a file image as far as the next one.
- `BlockIs(t)`, `Anchored(segs, shift)`: the TLS block holds the thread-locals,
  and the segments that hold some, with the one behind, all move as the block.
- `TableIs(segs, f, table)`: the program headers are at the end of the last
  segment and of the file, behind every section.

`LayInv` says which of these hold at which stage. `LastMapper` then compares the
last segment mapped over a byte with the segment the byte belongs to, and the
three theorems follow. That segments ascend with the sections needs the sort:
`ByAddress` gives each section its rank, and `RanksEnumerate` says that ranks in
a total order are the numbers up to the size of the set. `NobitsReadAsZero` is
false (section 6), and the theorem has the exception the run shows.

**RelocatedWords_proofs.** For every list of objects, each with any symbols and
any relocation tables, in all four modes: `AcceptedPlansAreCarriedOut`,
`LoaderWritesOnce`, `ReferencesReachTheirSymbols`. What the theorems take as given
is `WellFormed` (ImportPlan): symbols and references are of their types, an absolute
symbol is a definition, a relocation names a symbol of its object. Two
inductive invariants, the second on top of the first:

- `PlanInv`, for the time of planning. The plan's sets grow while relocations are
  read, and a later relocation may be accepted because of an earlier one, so
  the invariant says for each place the two passes are at which sites are
  behind the first (`TlsPast`) and which behind the second (`RestPast`), and that
  these are settled: a site behind the first pass has the thread-local entry its
  type asks for (`SettledTls`), one behind the second has a slot, a copy or a loader
  relocation (`SettledRest`). Nothing in the plan is there for no reason: each
  name and each site of it has a reference that asked and a symbol to stand for
  (`GoodPlan`). What is settled stays so, because the plan only `Grows`;
  `TlsAdds` and `RestAdds` say what one relocation adds.
- `WrittenInv`, for the passes afterwards. Each word, entry and loader relocation
  is given in closed form by its own relocation and the plan (`WordIn`,
  `SlotIn`, `LoaderIn`), so it does not matter which table stood before or
  which pass came last; `AppliedAt` and `PatchedAt` say how far the words are
  written.

Both speak of the world and the plan through bound variables
(`\A w, p : w = world /\ p = plan => ...`): the closed forms are then constant
formulas, and a step that leaves the plan alone needs no proof that they stay.
`WritesOnce` follows by comparing the sets a site can be in pairwise.
`ReferencesReach` compares the closed forms with the loader's rules type by
type: what the loader puts at a place is the one relocation `LoaderIn` has for
it, and what it finds for a name is what the reference `Meant`.

The proof corrected the model twice. `NotHonoured` did not have the absolute
IFUNC: the entries of a static PIE skip definitions in `SHN_ABS`
(`pie_runtime.rs:873`), so its resolver is taken for it, as elsewhere. And an image
that imports but defines nothing is refused with `NoExports` without any
version script, which `AcceptedPlansAreCarriedOut` now says. The run has
worlds with both since.

**LoaderImage_proofs.** For every link (`Link`: any sections, requests, policy,
COPY objects), page size and size of the metadata: `SealedIffStartupOnly`,
`EntriesReachTheirSymbols` and `EveryFunctionRunsOnce`.
The sections stay addresses and sizes; nothing is enumerated.

- `Sublist` lists a set of places in their order (`PlacesListed`, from the ranks of
  a finite set); so the order of the sections is a permutation of them
  (`Permutes`), and the order they are placed in is another one, which keeps the
  GOTPLT in front of the GOT (`Arranged`).
- `Laid`: placed sections ascend, one after the other; those aligned to a page
  start on one; bound now, the protected tables are the last (`LaidOut`).
- `Stocked(l, S, copied)` is what is left of that when the image is only a set of
  sections: it is also true with the COPY storage behind them.
- `Outcome(l, S, M, X, rel)` says what the metadata step adds: the metadata `M`
  behind `S`, the name and the note `X`, and the interval `rel` from the lowest
  protected table to the end of the metadata, or around what there is of them.
- `RelroHeld`, `RelroTorn`: the interval lies in one segment exactly if it is
  not `Parted`. A segment starts where permissions change or file data follows
  memory-only space; between the lowest protected table and the metadata only
  COPY storage can do that.
- `RelroSealed`: the pages wholly inside are then those of the protected sections
  and nothing else that is writable.

`ImageInv` says which of these hold at which stage. The invariant quantifies
over `S`, `M` and `X`, so that the steps after the metadata only have to leave the
image alone. The other two theorems add to it what the words hold and what the
arrays publish:

- `Stands` numbers the words of the GOT: each word of each use has a place of its
  own (`UseStands`, `OneWordEach`), so the loader's choice among the relocations of
  a word is none. What a lazy entry pushes is its own number
  (`PushesItsOwn`), with and without IBT. `MemInv` says for each stage what the GOT and the
  slots hold; a slot is open (`OpenSlots`, from `StartupOnlyIsSealed`'s argument)
  as long as it may still be written.
- The check of `collect_lifecycle_kind` only asks that each section but the lowest
  start where another ends. That leaves no gap (`RangesCover`, by the lowest
  section behind a gap) and keeps the words in step (`RangesInStep`), so the
  published range lists each pointer of its kind once and nothing else
  (`RangesRunThrough`, `KindListed`). `OfEach(p, F)` is such a list; it survives
  concatenation with a list of other functions, and reversal. `RunsInv` says that
  it holds of the arrays from their collection on and of `ran` from the start on.

**DependencySearch_proofs.** For every set of threads, schedule and environment:
`CallsHaveTheirEnvironment` and `OneCallAtATime`. That the resolver reads what
it should follows from nothing said at that place alone: the value set was
computed from the value captured, and what a panic leaves behind has to be
undone name by name. The invariant is

    PreloadInv == PreloadTypeOK /\ OneCall /\ (lock free => environment as found)
                    /\ \A t \in Threads : PlaceInv(t)

`OneCall` says that the holder of the lock is the only thread in a call, and so
lets each action be proved for one thread (`StepOfHolder`); `PlaceInv` says for
each place which names of the environment are changed, which captured and which
put back. `Agree(e, f, names)` compares two environments on some names; lemmas
say of each operator on environments on which names it agrees with which.

For every disk, set of images, environment and command line: `LookupsFollow`
(`LookupsFollowTheLoader`). The invariant has three parts that hardly meet:

    LookupInv == EnvInv /\ TrailInv /\ ScopeInv

- `EnvInv`: each value saved is, but for the names set at that call, the
  environment the next one was saved of, the last one the environment of now.
  Only so does putting them back one by one (`Return`) end at the first.
- `TrailInv`: each entry of the trail was looked at up to its first image that
  answers, so the first entry with an answer has the first answer of all;
  and the files of LD_PRELOAD still on the agenda are different from one another
  and from those on the trail (`Differ`), the root aside.
- `ScopeInv`: while a scope is collected, `Collected` says of the images opened so
  far (`Done`) what `ScopeIsLoaders` says of all in the end. Each image has a
  `Needer`, and no image an earlier one than the image before it (`Owned`);
  the directories that an entry carries are the RPATHs of its needer in front of
  what that one carries; of the image that is open each name it needs is still to be
  taken or is there (`Needs`); a name in `seen` is there because an image opened
  found it; `sonames` has the SONAMEs of the scope (`Sonames`) but that of a root
  not opened yet. What was supplied stays supplied to a longer scope (`HasLonger`),
  and one step adds at most the image that `Resolve` finds, which is where the
  first of the directories has the name (`ResolveFinds`, `SimpleFinds`).

In the end the directories carried along are those of the recursion over owners
(`Inheritance`): they satisfy its equation, and no other function does, or
there would be a least image at which the two differ (`InheritedFromOwners`). The
first directory of a search and the first symbol of a name are defined by what is not
before them, since of `SelectSeq` the prover knows no more than the name.

**Only model-checked.** `EveryLinkEnds` and `EverySearchEnds` (liveness);
of loader images the order of constructors; the command line, the sections of a partial
link, dynamic tables and their inspectors, and the providers of the linker,
whose modules are written with `SelectSeq`, folds and flattened sequences, of
which the prover knows no more than the name.
`TypesHold` and `ResolverIsTyped` have no run of their own: the theorems
replace it, and so do `NeverExtractedTwice` and `OneStrongDefinition`, which
follow from the runs' properties. Liveness under fairness, ENABLED, what a fold
computes, and powers of two as 2^k are out of the prover's reach. A recursive
function is known to the prover as some function that satisfies its equation, so a
proof about one has to exhibit one first; induction over a number is done by the
least element of the set of counterexamples (`LeastOfSet`). No module declares a RECURSIVE operator.

## 6. Findings

`shared_page`: the repository's `README.md` (line 49) places commons in a
`SHT_NOBITS` region that "all observe the same final allocation", and memory of
that kind is zero when the program starts. `load_segments.rs:221` opens a new
`PT_LOAD` for file data that follows memory-only space of the same permissions,
without a page boundary between them. If the space crosses a page, the page on
which it ends is also the first page of the next segment, and the kernel maps a
whole file page there: the end of the space shows bytes of the file that stand
before the segment's data instead of zeros. `NobitsReadAsZero` is violated
by the list text, `.data`, `.bss` over a page, `.data`.
The clause of `MemoryIsAsLinked` about NOBITS space states what does hold.

`release_build`: `relocated_sections.rs:627` collects the ranks of the sections
it is about to move *inside* a `debug_assert!`. A linker built without debug
assertions collects nothing and moves nothing, so `.init_array.N` sections stay
in input order, against `README.md:64`. The same assertion makes a debug build
panic on an `SHT_INIT_ARRAY` section without `SHF_ALLOC`, which other builds
refuse with a diagnostic.

`ibt_landings`: `shared_object.rs:1801` chooses the layout by hand over the
combinations of `-z now`, an isolated GOT and IBT; a dynamic PIE that has a GOT
gets the plain PLT (`relocated_sections.rs:585`), without the landing markers
`-z ibt` asks for (`README.md:7`).

Smaller observations are hazards of `PROJECT.json`: a dynamic PIE with `-z
now`, COPY storage and a GOT is refused for a range no segment holds
(`shared_object.rs:2381`); the comparison of array suffixes takes a number
against a name by bytes (`shared_object.rs:4392`), so that a name can run
before numbers (`.099foo` before `.100`, as the unit test at 5092 wants it,
while `README.md:64` puts all names after all numbers) and the comparison can
contradict itself: `.100`, `.5x`, `.99` stay in this order, each not above its
right neighbour, though 99 is less than 100. `ConstructorsRunByPriority`
follows the code and the test, and claims the order where there is one; whether
a COPY is planned or refused depends on the order of the references
(`shared_object.rs:3130`); the block of a thread is taken to begin aligned
(`tls.rs:166`); four kinds of references are accepted and not honoured
(`NotHonoured` in RelocatedWords); the documentation of the preload tools is
behind the code: `docs/mini-elf-needed-preload-resolve.md:7` removes duplicates
by path, the code (`preload.rs:20`) by file, and line 15 promises
`DF_1_NODEFLIB`, which of the tools that follow DT_NEEDED only `nodefaultlib`
looks at. LoaderScope follows the code.

## 7. Not modelled

Byte formats and their bounds checks (stateless decoding), names and string
tables (model values instead), diagnostics and the link map (formatting), the
inspectors that only print, and `validate` and `validate-rel`, which parse and
report. The writing of the output: the file,
the mode bits and the map, one after another. Each is listed as a component in
`PROJECT.json` with its status. About half of the repository's code is in the
89 inspector programs of `bin/`, of which much is repeated decoding.

In the tools that follow DT_NEEDED, all texts are taken to be UTF-8 (a
LD_PRELOAD that is not is dropped by `system-preload` without a word), and a
directory's name holds no colon and no blank: expanded entries of LD_PRELOAD
are joined with ":" again and would be split. Threads that read the environment
without the lock are outside SystemPreload: the lock is private to `resolve`.
