---------------------------- MODULE DynamicMetadata -----------------------------
(***************************************************************************)
(* The metadata of a shared object or dynamic PIE as it lies in the file   *)
(* (shared_object.rs, build_dynamic_metadata and the tables it is given):  *)
(* the dynamic relocations, where each table is placed and the entries of  *)
(* PT_DYNAMIC.  The tables themselves are those of DynamicTables.          *)
(*                                                                         *)
(* A link that is carried this far says in link.uses what its relocations  *)
(* need, each with the word reserved for it: relative words, sites of      *)
(* R_X86_64_64, GOT, TLS and PLT slots; and where each definition lies.    *)
(***************************************************************************)
EXTENDS DynamicTables, ImageTables

MetadataStart == 512    \* the scaled file: code below 256, data up to here
Carried == "uses" \in DOMAIN link
uses == link.uses

-----------------------------------------------------------------------------
(* The dynamic relocations.  Exports have the first indices, then imports. *)
ImportIndexFromZero(name) ==
    Len(exports) + PositionIn([k \in DOMAIN DynamicImports |-> DynamicImports[k].base], name) - 1
ImportIndex(name) ==
    Len(exports) + PositionIn([k \in DOMAIN DynamicImports |-> DynamicImports[k].base], name)
DynamicIndex(name) ==
    LET names == [k \in DOMAIN exports |-> exports[k].name]
    IN IF name \in Range(names) THEN PositionIn(names, name) ELSE ImportIndex(name)

Rela(offset, type, symbol, addend) ==
    [offset |-> offset, type |-> type, symbol |-> symbol, addend |-> addend]
SlotTable(slots, type) ==
    [k \in DOMAIN slots |-> Rela(slots[k].slot, type, DynamicIndex(slots[k].name), 0)]

RelativeTable == [k \in DOMAIN uses.relative |->
                    Rela(uses.relative[k].slot, "RELATIVE", 0, uses.relative[k].addend)]
CopyTable == LET copies == SelectSeq(link.imports, Copied)
             IN [k \in DOMAIN copies |-> Rela(uses.at[copies[k].base].value, "COPY",
                                              DynamicIndex(copies[k].base), 0)]
SiteTable == [k \in DOMAIN uses.sites |->
                Rela(uses.sites[k].slot, "64", DynamicIndex(uses.sites[k].name),
                     uses.sites[k].addend)]
GotTable == SlotTable(uses.got, "GLOB_DAT")
GdTable ==
    FlattenSeq([k \in DOMAIN uses.gd |->
      LET index == DynamicIndex(uses.gd[k].name)
      IN <<Rela(uses.gd[k].slot, "DTPMOD64", index, 0),
           Rela(uses.gd[k].slot + 8, "DTPOFF64", index, 0)>>])
LdTable == [k \in DOMAIN uses.ld |-> Rela(uses.ld[k].slot, "DTPMOD64", 0, 0)]
IeTable == SlotTable(uses.ie, "TPOFF64")
DescTable == SlotTable(uses.desc, "TLSDESC")
PltTable == SlotTable(uses.plt, "JUMP_SLOT")

(* Packed, the relative relocations are in DT_RELR, a word each at most.   *)
RelaTable == (IF uses.packed THEN <<>> ELSE RelativeTable)
             \o CopyTable \o SiteTable \o GotTable \o GdTable \o LdTable \o IeTable \o DescTable
RelrWords == IF uses.packed THEN Len(uses.relative) ELSE 0

-----------------------------------------------------------------------------
(* Where each table starts, one after another.                             *)
AlignUp(x, to) == ((x + to - 1) \div to) * to
SymbolCount == 1 + Len(exports) + Len(DynamicImports)
Total(list, size(_)) == StartOf(list, size, Len(list) + 1)

HashAt    == MetadataStart
GnuHashAt == AlignUp(HashAt + 4 * (3 + SymbolCount), 8)
DynsymAt  == AlignUp(GnuHashAt + 28 + 4 * (SymbolCount - 1), 8)
DynstrAt  == DynsymAt + SymbolSize * SymbolCount
VersymAt  == AlignUp(DynstrAt + uses.strings, 2)
VersymSize == IF tables.versym = <<>> THEN 0 ELSE 2 * SymbolCount
VerdefAt  == AlignUp(VersymAt + VersymSize, 8)
VerneedAt == AlignUp(VerdefAt + Total(LocalVersions, DefinitionSize), 8)
RelrAt    == AlignUp(VerneedAt + Total(NeededFiles, RequirementSize), 8)
RelaAt    == AlignUp(RelrAt + 8 * RelrWords, 8)
JmprelAt  == AlignUp(RelaAt + RelaSize * Len(RelaTable), 8)
DynamicAt == AlignUp(JmprelAt + RelaSize * Len(PltTable), 8)

(* The entries of PT_DYNAMIC, and how many the size of it was made for.    *)
Entry(tag, value) == <<[tag |-> tag, value |-> value]>>
EntriesWhen(present, entries) == IF present THEN entries ELSE <<>>
Flag(tag) == EntriesWhen(tag \in uses.given, Entry(tag, 0))
ArrayOf(tag, size) == EntriesWhen(tag \in uses.given, Entry(tag, 0) \o Entry(size, 8))
Versioned == tables.verdefnum # 0 \/ tables.verneednum # 0

DynamicEntries ==
    FlattenSeq([k \in DOMAIN uses.needed |-> Entry("NEEDED", uses.needed[k])])
    \o Flag("SONAME") \o Flag("RUNPATH")
    \o Entry("HASH", HashAt) \o Entry("GNU_HASH", GnuHashAt) \o Entry("STRTAB", DynstrAt)
    \o Entry("SYMTAB", DynsymAt) \o Entry("STRSZ", uses.strings) \o Entry("SYMENT", SymbolSize)
    \o EntriesWhen(Versioned, Entry("VERSYM", VersymAt))
    \o EntriesWhen(tables.verdefnum # 0,
                   Entry("VERDEF", VerdefAt) \o Entry("VERDEFNUM", tables.verdefnum))
    \o EntriesWhen(tables.verneednum # 0,
                   Entry("VERNEED", VerneedAt) \o Entry("VERNEEDNUM", tables.verneednum))
    \o EntriesWhen(RelrWords # 0, Entry("RELR", RelrAt) \o Entry("RELRSZ", 8 * RelrWords)
                                  \o Entry("RELRENT", 8))
    \o EntriesWhen(RelaTable # <<>>, Entry("RELA", RelaAt)
                     \o Entry("RELASZ", RelaSize * Len(RelaTable)) \o Entry("RELAENT", RelaSize)
                     \o EntriesWhen(~uses.packed /\ uses.relative # <<>>,
                                    Entry("RELACOUNT", Len(uses.relative))))
    \o Flag("SYMBOLIC") \o Flag("FLAGS")
    \o EntriesWhen(uses.executable, Entry("DEBUG", 0) \o Entry("FLAGS_1", 1))
    \o EntriesWhen(PltTable # <<>>, Entry("PLTGOT", uses.plt[1].slot) \o Entry("JMPREL", JmprelAt)
                     \o Entry("PLTRELSZ", RelaSize * Len(PltTable)) \o Entry("PLTREL", 7))
    \o Flag("INIT") \o Flag("FINI") \o ArrayOf("PREINIT_ARRAY", "PREINIT_ARRAYSZ")
    \o ArrayOf("INIT_ARRAY", "INIT_ARRAYSZ") \o ArrayOf("FINI_ARRAY", "FINI_ARRAYSZ")
    \o Entry("NULL", 0)

Ones(tags) == Cardinality(uses.given \cap tags)
Many(number, present) == IF present THEN number ELSE 0
DynamicEntryCount ==
    7 + Len(uses.needed) + Ones({"SONAME", "RUNPATH", "SYMBOLIC", "FLAGS", "INIT", "FINI"})
    + Many(3, RelaTable # <<>>) + Many(1, ~uses.packed /\ uses.relative # <<>>)
    + Many(3, RelrWords # 0) + Many(4, PltTable # <<>>)
    + Many(1, Versioned) + Many(2, tables.verdefnum # 0) + Many(2, tables.verneednum # 0)
    + Many(2, uses.executable) + 2 * Ones({"PREINIT_ARRAY", "INIT_ARRAY", "FINI_ARRAY"})

(* The symbols: a definition where it lies, an import without a place.     *)
ExternalSymbol(i) == [name |-> i.base, section |-> "undef", tls |-> i.base \in uses.tlsImports,
                      ifunc |-> FALSE, value |-> 0, size |-> 0]
DynsymTable == [k \in DOMAIN exports |-> [name |-> exports[k].name] @@ uses.at[exports[k].name]]
               \o [k \in DOMAIN DynamicImports |-> ExternalSymbol(DynamicImports[k])]

(* The file that is written, as the inspectors open it.                    *)
OwnImage ==
    [kind |-> "dyn", dynamics |-> 1, tags |-> DynamicEntries,
     loads |-> <<[start |-> 0, file |-> 256, memory |-> 256, flags |-> {"x"}],
                 [start |-> 256, file |-> 200, memory |-> 256, flags |-> {"w"}],
                 [start |-> MetadataStart, flags |-> {"w"},
                  file |-> DynamicAt + 16 * DynamicEntryCount - MetadataStart,
                  memory |-> DynamicAt + 16 * DynamicEntryCount - MetadataStart]>>,
     holds |-> (HashAt :> [count |-> tables.sysv.count])
               @@ (GnuHashAt :> [offset |-> tables.gnu.offset, buckets |-> tables.gnu.buckets,
                                 blooms |-> 1, chains |-> tables.gnu.chains])
               @@ (DynsymAt :> DynsymTable)
               @@ (IF RelaTable = <<>> THEN NoKeys ELSE RelaAt :> RelaTable)
               @@ (IF PltTable = <<>> THEN NoKeys ELSE JmprelAt :> PltTable)]
=============================================================================
