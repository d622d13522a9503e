----------------------------- MODULE DynamicProvider -----------------------------
(***************************************************************************)
(* What the linker reads in a shared object given with --needed-from, or   *)
(* found behind one (dynamic_provider.rs), and what it takes for a match   *)
(* (main.rs).  A provider is what its dynamic section describes: SONAME,   *)
(* DT_NEEDED, RUNPATH, dynamic symbols, and the version tables.            *)
(***************************************************************************)
EXTENDS Naturals, Sequences, Functions

(* DT_VERSYM index and hidden bit of a symbol; a file without DT_VERSYM    *)
(* has no versions at all.  verdef maps an index to the name it defines.   *)
Defines(f, s) == s.index >= 2 => s.index \in DOMAIN f.verdef

(* inspect_dynamic_provider fails.                                         *)
Malformed(f) ==
    \/ f.soname = "" \/ "" \in Range(f.needed)
    \/ ~f.versym /\ f.verdef # <<>>
    \/ f.versym /\ \E s \in f.symbols : \/ s.hidden /\ s.index < 2
                                        \/ s.defined /\ ~Defines(f, s)

Exported(s) ==
    /\ s.defined /\ s.binding \in {"global", "weak"}
    /\ s.visibility \notin {"internal", "hidden"} /\ s.name # ""

(* Symbols an unversioned reference may take: those without a version, and *)
(* the default one of those with.                                          *)
AllowsUnversioned(f, s) == f.versym => s.index = 1 \/ (s.index >= 2 /\ ~s.hidden)

Exports(f)          == {s \in f.symbols : Exported(s) /\ AllowsUnversioned(f, s)}
VersionedExports(f) == {s \in f.symbols : Exported(s) /\ f.versym /\ s.index >= 2}

(* An IFUNC of the provider serves a function import.                      *)
TypeMatches(s, import) ==
    s.type = import.type \/ (import.type = "func" /\ s.type = "ifunc")

MatchesImport(f, import) ==
    IF import.version # ""
    THEN \E s \in VersionedExports(f) :
           s.name = import.name /\ f.verdef[s.index] = import.version /\ TypeMatches(s, import)
    ELSE \E s \in Exports(f) : s.name = import.name /\ TypeMatches(s, import)

ExportSizes(f, import) ==
    {s.size : s \in {x \in Exports(f) : x.name = import.name /\ x.type = import.type}}
=============================================================================
