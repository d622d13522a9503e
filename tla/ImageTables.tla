------------------------------- MODULE ImageTables -------------------------------
(***************************************************************************)
(* A linked image as the inspectors of src/bin see it, and the steps every *)
(* one of them takes: the scan of PT_DYNAMIC, ranges of addresses held to  *)
(* one PT_LOAD, and the number of dynamic symbols that the hash tables     *)
(* prove (there is no other).                                              *)
(*                                                                         *)
(* An image is a record:                                                   *)
(*   kind      "dyn" for ET_DYN                                            *)
(*   dynamics  the number of PT_DYNAMIC headers                            *)
(*   tags      the dynamic entries, [tag, value], of the first             *)
(*   loads     the PT_LOADs, [start, file, memory, flags]                  *)
(*   holds     what lies at an address: a hash table, the symbols 1, 2, ...*)
(*             a sequence of relocation entries, or a word                 *)
(* A file is scaled down: Limit8, ... Limit64 stand for 2^8, ... 2^64.     *)
(***************************************************************************)
EXTENDS TableReaders

CONSTANTS Limit8, Limit16, Limit32, Limit64

ASSUME LimitsAssumption ==
    /\ {Limit8, Limit16, Limit32, Limit64} \subseteq Nat
    /\ Limit8 < Limit16 /\ Limit16 < Limit32 /\ Limit32 < Limit64

InUnsigned(x, limit) == 0 <= x /\ x < limit
InSigned(x, limit)   == -(limit \div 2) <= x /\ x < limit \div 2

(* A range of file bytes, or of memory, inside one PT_LOAD.                *)
FileBackedWith(i, at, size, flags) ==
    /\ at + size < Limit64
    /\ \E l \in Range(i.loads) : /\ flags \subseteq l.flags
                                 /\ l.start <= at /\ at + size <= l.start + l.file
FileBacked(i, at, size) == FileBackedWith(i, at, size, {})
InMemory(i, at, size, flags) ==
    /\ at + size < Limit64
    /\ \E l \in Range(i.loads) : /\ flags \subseteq l.flags
                                 /\ l.start <= at /\ at + size <= l.start + l.memory
FirstInMemory(i, at, size, flags) ==
    LET around == {k \in DOMAIN i.loads : /\ i.loads[k].start <= at
                                          /\ at + size <= i.loads[k].start + i.loads[k].memory}
    IN at + size < Limit64 /\ around # {} /\ flags \subseteq i.loads[Min(around)].flags

-----------------------------------------------------------------------------
(* PT_DYNAMIC: entries count up to the first DT_NULL.                      *)
Nulls(i)   == {k \in DOMAIN i.tags : i.tags[k].tag = "NULL"}
Places(i, tag) == {k \in DOMAIN i.tags : i.tags[k].tag = tag /\ \A n \in Nulls(i) : k < n}
Has(i, tag) == Places(i, tag) # {}
Value(i, tag) == i.tags[Min(Places(i, tag))].value

Once(i, wanted)  == \A tag \in wanted : Cardinality(Places(i, tag)) <= 1
Given(i, wanted) == \A tag \in wanted : Has(i, tag)
Together(i, trio) == Given(i, trio) \/ \A tag \in trio : ~Has(i, tag)

(* The two ways to scan: is anything but nothing allowed after DT_NULL?    *)
Lenient(i, wanted) == Nulls(i) # {} /\ Once(i, wanted)
Strict(i, wanted) ==
    /\ Lenient(i, wanted)
    /\ \A k \in DOMAIN i.tags : k > Min(Nulls(i)) => i.tags[k] = [tag |-> "NULL", value |-> 0]

RelaTags   == {"RELA", "RELASZ", "RELAENT"}
RelTags    == {"REL", "RELSZ", "RELENT"}
PltTags    == {"JMPREL", "PLTRELSZ", "PLTREL"}
HashTags   == {"HASH", "GNU_HASH"}
SymbolTags == {"SYMTAB", "SYMENT", "STRTAB", "STRSZ"}
RelaSize == 24
RelSize == 16
SymbolSize == 24
Mapped(i, table, size) == FileBacked(i, Value(i, table), Value(i, size))
EntriesOf(i, table, size, each) == SubSeq(i.holds[Value(i, table)], 1, Value(i, size) \div each)

(* An entry table with the entry size it must have.                        *)
RelaShaped(i) == Value(i, "RELAENT") = RelaSize /\ Value(i, "RELASZ") % RelaSize = 0
RelShaped(i)  == Value(i, "RELENT") = RelSize /\ Value(i, "RELSZ") % RelSize = 0
PltShaped(i)  == Value(i, "PLTREL") = 7 /\ Value(i, "PLTRELSZ") % RelaSize = 0

-----------------------------------------------------------------------------
(* The number of dynamic symbols, where the hash table is not refused.     *)
Refused == -1
HashCount(i) ==
    LET at == Value(i, "HASH") IN IF FileBacked(i, at, 8) THEN i.holds[at].count ELSE Refused

PowerOfTwo(n) == \E k \in 0 .. n : n = 2 ^ k
GnuStarts(g) == Range(g.buckets) \ {0}
GnuEnds(g, start) == {s \in DOMAIN g.chains : s >= start /\ g.chains[s].last}
GnuHashCount(i) ==
    LET at == Value(i, "GNU_HASH")
        g  == i.holds[at]
        prefix == 16 + 8 * g.blooms + 4 * Cardinality(DOMAIN g.buckets)
        Walked(start) == /\ start >= g.offset /\ GnuEnds(g, start) # {}
                         /\ \A s \in start .. Min(GnuEnds(g, start)) :
                              FileBacked(i, at + prefix + 4 * (s - g.offset), 4)
    IN IF /\ FileBacked(i, at, 16) /\ DOMAIN g.buckets # {} /\ PowerOfTwo(g.blooms)
          /\ FileBacked(i, at, prefix) /\ \A start \in GnuStarts(g) : Walked(start)
       THEN Max({g.offset} \cup {Min(GnuEnds(g, s)) + 1 : s \in GnuStarts(g)})
       ELSE Refused

(* Symbols and their names as far as count reaches.                        *)
SymbolsMapped(i, count) ==
    /\ count \in Nat /\ Value(i, "SYMENT") = SymbolSize
    /\ FileBacked(i, Value(i, "SYMTAB"), SymbolSize * count) /\ Mapped(i, "STRTAB", "STRSZ")
SymbolAt(i, index) == i.holds[Value(i, "SYMTAB")][index]
=============================================================================
