---------------------------- MODULE RelocationReaders ----------------------------
(***************************************************************************)
(* The inspectors of dynamic relocations and the listings of their tables, *)
(* mini-elf-dynrela-*, -dynrela, -dynrel and -dynplt of src/bin.           *)
(* Each has its own copy of the whole reader and is written down from that *)
(* copy: whether it can read the tables of an image (Reads), how many      *)
(* symbols it believes there are (Count), and what it makes of an entry of *)
(* its type (Entry): a report, or nothing where it refuses the image.      *)
(*                                                                         *)
(* o is the command line, [bias, module, block].  A report that has no     *)
(* value leaves it to the loader (an external symbol, a copy, a lazy slot).*)
(***************************************************************************)
EXTENDS ImageTables

Indexed(e, count) == e.symbol \in 1 .. count - 1
Named(s)       == s.name # "unreadable"
Defined(s)     == s.section # "undef"
Ordinary(s)    == s.section \notin {"undef", "abs"} /\ ~s.tls
ThreadLocal(s) == s.section \notin {"undef", "abs"} /\ s.tls
Fits(x)        == InUnsigned(x, Limit64)

Report(entry, target, name, valued, value) ==
    [entry |-> entry, target |-> target, name |-> name, valued |-> valued, value |-> value]
When(accepted, report) == IF accepted THEN <<report>> ELSE <<>>

(* DT_HASH before DT_GNU_HASH, and not without one of them.                *)
EitherCount(i) == IF Has(i, "HASH") THEN HashCount(i)
                  ELSE IF Has(i, "GNU_HASH") THEN GnuHashCount(i) ELSE Refused
RelaReadable(i, count) ==
    RelaShaped(i) /\ count # 0 /\ SymbolsMapped(i, count) /\ Mapped(i, "RELA", "RELASZ")
ReaderTags == RelaTags \cup HashTags \cup SymbolTags
ReaderNeeds == RelaTags \cup SymbolTags

-----------------------------------------------------------------------------
(* Addresses of symbols of the image: S + A in a word of the field's width.*)
AbsoluteAt(i, o, e, s, width) ==
    /\ InMemory(i, e.offset, width, {"w"}) /\ Ordinary(s) /\ InMemory(i, s.value, 1, {}) /\ Named(s)
    /\ Fits(o.bias + e.offset) /\ Fits(o.bias + s.value) /\ Fits(o.bias + s.value + e.addend)
SumReport(o, e, s) ==
    Report(e, o.bias + e.offset, s.name, TRUE, o.bias + s.value + e.addend)

U8Tags(i)  == Strict(i, ReaderTags)
U8Count(i) == EitherCount(i)
U8Reads(i) == /\ i.kind = "dyn" /\ i.dynamics = 1 /\ U8Tags(i) /\ Given(i, ReaderNeeds)
              /\ RelaReadable(i, U8Count(i))
U8Entry(i, o, e) ==
    LET s == SymbolAt(i, e.symbol)
    IN When(/\ Indexed(e, U8Count(i)) /\ AbsoluteAt(i, o, e, s, 1)
            /\ InUnsigned(o.bias + s.value + e.addend, Limit8), SumReport(o, e, s))

U16Tags(i)  == Strict(i, ReaderTags)
U16Count(i) == EitherCount(i)
U16Reads(i) == /\ i.kind = "dyn" /\ i.dynamics = 1 /\ U16Tags(i) /\ Given(i, ReaderNeeds)
               /\ RelaReadable(i, U16Count(i))
U16Entry(i, o, e) ==
    LET s == SymbolAt(i, e.symbol)
    IN When(/\ Indexed(e, U16Count(i)) /\ AbsoluteAt(i, o, e, s, 2)
            /\ InUnsigned(o.bias + s.value + e.addend, Limit16), SumReport(o, e, s))

U32Tags(i)  == Strict(i, ReaderTags) /\ Given(i, ReaderNeeds)
U32Count(i) == EitherCount(i)
U32Reads(i) == i.kind = "dyn" /\ i.dynamics = 1 /\ U32Tags(i) /\ RelaReadable(i, U32Count(i))
U32Entry(i, o, e) ==
    LET s == SymbolAt(i, e.symbol)
    IN When(/\ Indexed(e, U32Count(i)) /\ AbsoluteAt(i, o, e, s, 4)
            /\ InUnsigned(o.bias + s.value + e.addend, Limit32), SumReport(o, e, s))

(* A value of 32 bits that is to be sign-extended: the sum, an address, is *)
(* never negative.                                                         *)
I32Tags(i)  == Strict(i, ReaderTags)
I32Count(i) == EitherCount(i)
I32Reads(i) == /\ i.kind = "dyn" /\ i.dynamics = 1 /\ I32Tags(i) /\ Given(i, ReaderNeeds)
               /\ RelaReadable(i, I32Count(i))
I32EntryUnsigned(i, o, e) ==
    LET s == SymbolAt(i, e.symbol)
    IN When(/\ Indexed(e, I32Count(i)) /\ AbsoluteAt(i, o, e, s, 4)
            /\ InUnsigned(o.bias + s.value + e.addend, Limit32), SumReport(o, e, s))
I32Entry(i, o, e) ==
    LET s == SymbolAt(i, e.symbol)
    IN When(/\ Indexed(e, I32Count(i)) /\ AbsoluteAt(i, o, e, s, 4)
            /\ InSigned(o.bias + s.value + e.addend, Limit32), SumReport(o, e, s))

Abs64Tags(i)  == Strict(i, ReaderTags) /\ Given(i, ReaderNeeds)
Abs64Count(i) == EitherCount(i)
Abs64Reads(i) == i.kind = "dyn" /\ i.dynamics = 1 /\ Abs64Tags(i) /\ RelaReadable(i, Abs64Count(i))
Abs64Entry(i, o, e) ==
    LET s == SymbolAt(i, e.symbol)
    IN When(Indexed(e, Abs64Count(i)) /\ AbsoluteAt(i, o, e, s, 8), SumReport(o, e, s))

(* The address itself, in a GOT entry.                                     *)
GlobDatTags(i)  == Strict(i, ReaderTags) /\ Given(i, ReaderNeeds)
GlobDatCount(i) == EitherCount(i)
GlobDatReads(i) ==
    i.kind = "dyn" /\ i.dynamics = 1 /\ GlobDatTags(i) /\ RelaReadable(i, GlobDatCount(i))
GlobDatEntry(i, o, e) ==
    LET s == SymbolAt(i, e.symbol)
    IN When(/\ Indexed(e, GlobDatCount(i)) /\ e.addend = 0 /\ InMemory(i, e.offset, 8, {"w"})
            /\ Ordinary(s) /\ InMemory(i, s.value, 1, {}) /\ Named(s)
            /\ Fits(o.bias + e.offset + 7) /\ Fits(o.bias + s.value),
            Report(e, o.bias + e.offset, s.name, TRUE, o.bias + s.value))

(* A copied object: its symbol is where the copy goes.                     *)
CopyCount(i) == EitherCount(i)
CopyReads(i) == /\ i.kind = "dyn" /\ i.dynamics = 1 /\ Strict(i, ReaderTags) /\ Given(i, ReaderNeeds)
                /\ RelaReadable(i, CopyCount(i))
CopyEntry(i, o, e) ==
    LET s == SymbolAt(i, e.symbol)
    IN When(/\ Indexed(e, CopyCount(i)) /\ e.addend = 0 /\ Defined(s) /\ ~s.tls /\ s.size # 0
            /\ e.offset = s.value /\ InMemory(i, e.offset, s.size, {"w"})
            /\ Fits(o.bias + e.offset) /\ Fits(o.bias + e.offset + s.size) /\ Named(s),
            Report(e, o.bias + e.offset, s.name, FALSE, 0))

-----------------------------------------------------------------------------
(* Thread-local storage.                                                   *)
Dtpmod64Count(i) == EitherCount(i)
Dtpmod64Reads(i) ==
    /\ i.kind = "dyn" /\ i.dynamics = 1 /\ Strict(i, ReaderTags) /\ Given(i, ReaderNeeds)
    /\ RelaReadable(i, Dtpmod64Count(i))
Dtpmod64Entry(i, o, e) ==
    LET s == SymbolAt(i, e.symbol)
    IN When(/\ Indexed(e, Dtpmod64Count(i)) /\ InMemory(i, e.offset, 8, {"w"}) /\ ThreadLocal(s)
            /\ e.addend = 0 /\ Fits(o.bias + e.offset) /\ Named(s),
            Report(e, o.bias + e.offset, s.name, TRUE, o.module))

Dtpoff32Count(i) == EitherCount(i)
Dtpoff32Reads(i) ==
    /\ i.kind = "dyn" /\ i.dynamics = 1 /\ Strict(i, ReaderTags) /\ Given(i, ReaderNeeds)
    /\ RelaReadable(i, Dtpoff32Count(i))
Dtpoff32Entry(i, o, e) ==
    LET s == SymbolAt(i, e.symbol)
    IN When(/\ Indexed(e, Dtpoff32Count(i)) /\ InMemory(i, e.offset, 4, {"w"}) /\ ThreadLocal(s)
            /\ InSigned(s.value + e.addend, Limit32) /\ Fits(o.bias + e.offset) /\ Named(s),
            Report(e, o.bias + e.offset, s.name, TRUE, s.value + e.addend))

Dtpoff64Count(i) == EitherCount(i)
Dtpoff64Reads(i) ==
    /\ i.kind = "dyn" /\ i.dynamics = 1 /\ Strict(i, ReaderTags) /\ Given(i, ReaderNeeds)
    /\ RelaReadable(i, Dtpoff64Count(i))
Dtpoff64Entry(i, o, e) ==
    LET s == SymbolAt(i, e.symbol)
    IN When(/\ Indexed(e, Dtpoff64Count(i)) /\ InMemory(i, e.offset, 8, {"w"}) /\ ThreadLocal(s)
            /\ InUnsigned(s.value + e.addend, Limit64) /\ Fits(o.bias + e.offset) /\ Named(s),
            Report(e, o.bias + e.offset, s.name, TRUE, s.value + e.addend))

(* These three know only DT_HASH.                                          *)
Tpoff32Reads(i) ==
    /\ i.kind = "dyn" /\ i.dynamics = 1 /\ Strict(i, ReaderTags \ {"GNU_HASH"})
    /\ Given(i, ReaderNeeds \cup {"HASH"}) /\ RelaReadable(i, HashCount(i))
Tpoff32Entry(i, o, e) ==
    LET s == SymbolAt(i, e.symbol)
    IN When(/\ Indexed(e, HashCount(i)) /\ InMemory(i, e.offset, 4, {"w"}) /\ ThreadLocal(s)
            /\ InSigned(o.block + s.value + e.addend, Limit32) /\ Fits(o.bias + e.offset) /\ Named(s),
            Report(e, o.bias + e.offset, s.name, TRUE, o.block + s.value + e.addend))

Tpoff64Reads(i) ==
    /\ i.kind = "dyn" /\ i.dynamics = 1 /\ Strict(i, ReaderTags \ {"GNU_HASH"})
    /\ Given(i, ReaderNeeds \cup {"HASH"}) /\ RelaReadable(i, HashCount(i))
Tpoff64Entry(i, o, e) ==
    LET s == SymbolAt(i, e.symbol)
    IN When(/\ Indexed(e, HashCount(i)) /\ InMemory(i, e.offset, 8, {"w"}) /\ ThreadLocal(s)
            /\ InSigned(o.block + s.value + e.addend, Limit64) /\ Fits(o.bias + e.offset) /\ Named(s),
            Report(e, o.bias + e.offset, s.name, TRUE, o.block + s.value + e.addend))

(* Where there is a DT_JMPREL it is read, and DT_RELA is not.              *)
TlsdescReads(i) ==
    /\ i.kind = "dyn" /\ i.dynamics = 1
    /\ Strict(i, RelaTags \cup PltTags \cup {"HASH"} \cup SymbolTags)
    /\ Given(i, SymbolTags \cup {"HASH"})
    /\ IF Has(i, "JMPREL")
       THEN Given(i, PltTags) /\ PltShaped(i) /\ Mapped(i, "JMPREL", "PLTRELSZ")
       ELSE Given(i, RelaTags) /\ RelaShaped(i) /\ Mapped(i, "RELA", "RELASZ")
    /\ HashCount(i) # 0 /\ SymbolsMapped(i, HashCount(i))
TlsdescEntry(i, o, e) ==
    LET s == SymbolAt(i, e.symbol)
    IN When(/\ Indexed(e, HashCount(i)) /\ InMemory(i, e.offset, 16, {"w"}) /\ ThreadLocal(s)
            /\ InUnsigned(s.value + e.addend, Limit64) /\ Fits(o.bias + e.offset + 15) /\ Named(s),
            Report(e, o.bias + e.offset, s.name, TRUE, s.value + e.addend))

-----------------------------------------------------------------------------
(* The PLT: any JUMP_SLOT is left to the loader; or, in a table that has   *)
(* nothing else, those of the image are bound to its own symbols.          *)
PltReadable(i, count) ==
    PltShaped(i) /\ count # 0 /\ SymbolsMapped(i, count) /\ Mapped(i, "JMPREL", "PLTRELSZ")
JumpSlotCount(i) == EitherCount(i)
JumpSlotReads(i) ==
    /\ i.kind = "dyn" /\ i.dynamics = 1 /\ Strict(i, PltTags \cup HashTags \cup SymbolTags)
    /\ Given(i, PltTags \cup SymbolTags) /\ PltReadable(i, JumpSlotCount(i))
JumpSlotEntry(i, o, e) ==
    LET s == SymbolAt(i, e.symbol)
    IN When(/\ Indexed(e, JumpSlotCount(i)) /\ e.addend = 0 /\ InMemory(i, e.offset, 8, {"w"})
            /\ ~s.tls /\ s.section # "abs" /\ Named(s) /\ s.name # "" /\ Fits(o.bias + e.offset + 7),
            Report(e, o.bias + e.offset, s.name, FALSE, 0))

PltSlotTags(i) == /\ Strict(i, PltTags \cup HashTags \cup SymbolTags)
                  /\ Given(i, PltTags \cup SymbolTags)
PltSlotCount(i) == EitherCount(i)
PltSlotReads(i) == /\ i.kind = "dyn" /\ i.dynamics = 1 /\ PltSlotTags(i) /\ Value(i, "PLTRELSZ") # 0
                   /\ PltReadable(i, PltSlotCount(i))
PltSlotEntry(i, o, e) ==
    LET s == SymbolAt(i, e.symbol)
    IN When(/\ e.type = "JUMP_SLOT" /\ Indexed(e, PltSlotCount(i)) /\ e.addend = 0
            /\ InMemory(i, e.offset, 8, {"w"}) /\ Fits(o.bias + e.offset)
            /\ s.section # "abs" /\ ~s.tls /\ ~(Defined(s) /\ s.ifunc) /\ Named(s)
            /\ Defined(s) => InMemory(i, s.value, 1, {}) /\ Fits(o.bias + s.value),
            Report(e, o.bias + e.offset, s.name, Defined(s), IF Defined(s) THEN o.bias + s.value ELSE 0))
-----------------------------------------------------------------------------
(* Relocations that do not depend on where the image is loaded (PC8 to     *)
(* PC64, SIZE) or on nothing else (RELATIVE, IRELATIVE), and the listings  *)
(* of whole tables.  Their readers end PT_DYNAMIC at the first DT_NULL     *)
(* without looking behind it, IRELATIVE excepted.                          *)

(* S + A - P for a symbol of the image; any other is left to the loader.   *)
Distance(e, s) == s.value + e.addend - e.offset
DistanceReport(e, s) == Report(e, e.offset, s.name, Defined(s), IF Defined(s) THEN Distance(e, s) ELSE 0)

Pc8Count(i) == EitherCount(i)
Pc8Reads(i) == /\ i.kind = "dyn" /\ i.dynamics = 1 /\ Lenient(i, ReaderTags) /\ Given(i, ReaderNeeds)
               /\ RelaReadable(i, Pc8Count(i))
Pc8Entry(i, o, e) ==
    LET s == SymbolAt(i, e.symbol)
    IN When(/\ Indexed(e, Pc8Count(i)) /\ InMemory(i, e.offset, 1, {"w"}) /\ Named(s)
            /\ Defined(s) => /\ Ordinary(s) /\ InMemory(i, s.value, 1, {})
                             /\ InSigned(Distance(e, s), Limit8),
            DistanceReport(e, s))

Pc16Count(i) == EitherCount(i)
Pc16Reads(i) == /\ i.kind = "dyn" /\ i.dynamics = 1 /\ Lenient(i, ReaderTags) /\ Given(i, ReaderNeeds)
                /\ RelaReadable(i, Pc16Count(i))
Pc16Entry(i, o, e) ==
    LET s == SymbolAt(i, e.symbol)
    IN When(/\ Indexed(e, Pc16Count(i)) /\ InMemory(i, e.offset, 2, {"w"}) /\ Named(s)
            /\ Defined(s) => /\ Ordinary(s) /\ InMemory(i, s.value, 1, {})
                             /\ InSigned(Distance(e, s), Limit16),
            DistanceReport(e, s))

(* This one looks neither for absolute nor for thread-local symbols.       *)
Pc32Count(i) == EitherCount(i)
Pc32Reads(i) == /\ i.kind = "dyn" /\ i.dynamics = 1 /\ Lenient(i, ReaderTags) /\ Given(i, ReaderNeeds)
                /\ RelaReadable(i, Pc32Count(i))
Pc32Entry(i, o, e) ==
    LET s == SymbolAt(i, e.symbol)
    IN When(/\ Indexed(e, Pc32Count(i)) /\ InMemory(i, e.offset, 4, {"w"}) /\ Named(s)
            /\ Defined(s) => InMemory(i, s.value, 1, {}) /\ InSigned(Distance(e, s), Limit32),
            DistanceReport(e, s))

Pc64Count(i) == EitherCount(i)
Pc64Reads(i) == /\ i.kind = "dyn" /\ i.dynamics = 1 /\ Lenient(i, ReaderTags) /\ Given(i, ReaderNeeds)
                /\ RelaReadable(i, Pc64Count(i))
Pc64Entry(i, o, e) ==
    LET s == SymbolAt(i, e.symbol)
    IN When(/\ Indexed(e, Pc64Count(i)) /\ InMemory(i, e.offset, 8, {"w"}) /\ Named(s)
            /\ Defined(s) => /\ Ordinary(s) /\ InMemory(i, s.value, 1, {})
                             /\ InSigned(Distance(e, s), Limit64),
            DistanceReport(e, s))

(* Z + A.                                                                  *)
SizeReport(e, s) ==
    Report(e, e.offset, s.name, Defined(s), IF Defined(s) THEN s.size + e.addend ELSE 0)

Size32Count(i) == EitherCount(i)
Size32Reads(i) ==
    /\ i.kind = "dyn" /\ i.dynamics = 1 /\ Lenient(i, ReaderTags) /\ Given(i, ReaderNeeds)
    /\ RelaReadable(i, Size32Count(i))
Size32Entry(i, o, e) ==
    LET s == SymbolAt(i, e.symbol)
    IN When(/\ Indexed(e, Size32Count(i)) /\ InMemory(i, e.offset, 4, {"w"}) /\ Named(s)
            /\ Defined(s) => Ordinary(s) /\ InUnsigned(s.size + e.addend, Limit32),
            SizeReport(e, s))

Size64CountGnuFirst(i) == IF Has(i, "GNU_HASH") THEN GnuHashCount(i)
                          ELSE IF Has(i, "HASH") THEN HashCount(i) ELSE Refused
Size64Count(i) == EitherCount(i)
Size64Reads(i) ==
    /\ i.kind = "dyn" /\ i.dynamics = 1 /\ Lenient(i, ReaderTags) /\ Given(i, ReaderNeeds)
    /\ RelaReadable(i, Size64Count(i))
Size64Entry(i, o, e) ==
    LET s == SymbolAt(i, e.symbol)
    IN When(/\ Indexed(e, Size64Count(i)) /\ InMemory(i, e.offset, 8, {"w"}) /\ Named(s)
            /\ Defined(s) => Ordinary(s) /\ InUnsigned(s.size + e.addend, Limit64),
            SizeReport(e, s))

-----------------------------------------------------------------------------
(* B + A.  An image without a table, or without PT_DYNAMIC, has nothing to *)
(* report, and any kind of image may have one.                             *)
RelativeTags(i) == i.dynamics = 1 => Nulls(i) # {}
TableHeld(i, trio, shaped, table, size) ==
    i.dynamics = 1 /\ Given(i, trio) => shaped /\ Mapped(i, table, size)
BaseReport(e, o, addend) == Report(e, e.offset, "", TRUE, o.bias + addend)

RelativeReads(i) ==
    /\ i.dynamics <= 1 /\ RelativeTags(i) /\ Once(i, RelaTags) /\ Together(i, RelaTags)
    /\ TableHeld(i, RelaTags, RelaShaped(i), "RELA", "RELASZ")
RelativeTarget(i, e) == InMemory(i, e.offset, 8, {})
RelativeEntry(i, o, e) ==
    When(e.symbol = 0 /\ RelativeTarget(i, e) /\ Fits(o.bias + e.addend), BaseReport(e, o, e.addend))

Relative64Tags(i) == i.dynamics = 1 => Nulls(i) # {}
Relative64Reads(i) ==
    /\ i.dynamics <= 1 /\ Relative64Tags(i) /\ Once(i, RelaTags) /\ Together(i, RelaTags)
    /\ TableHeld(i, RelaTags, RelaShaped(i), "RELA", "RELASZ")
Relative64Target(i, e) == FirstInMemory(i, e.offset, 8, {"w"})
Relative64Entry(i, o, e) ==
    When(e.symbol = 0 /\ Relative64Target(i, e) /\ Fits(o.bias + e.addend), BaseReport(e, o, e.addend))

(* The addend lies in the word itself, which must be in the file.          *)
RelRelativeTags(i) == i.dynamics = 1 => Nulls(i) # {}
RelRelativeReads(i) ==
    /\ i.dynamics <= 1 /\ RelRelativeTags(i) /\ Once(i, RelTags) /\ Together(i, RelTags)
    /\ TableHeld(i, RelTags, RelShaped(i), "REL", "RELSZ")
RelRelativeEntry(i, o, e) ==
    When(e.symbol = 0 /\ FileBacked(i, e.offset, 8) /\ Fits(o.bias + i.holds[e.offset]),
         BaseReport(e, o, i.holds[e.offset]))

(* The addend is the resolver, code of the file.                           *)
IrelativeTags(i) == Strict(i, RelaTags) /\ Given(i, RelaTags)
IrelativeReads(i) == /\ i.kind = "dyn" /\ i.dynamics = 1 /\ IrelativeTags(i)
                     /\ RelaShaped(i) /\ Mapped(i, "RELA", "RELASZ")
IrelativeEntry(i, o, e) ==
    When(/\ e.symbol = 0 /\ InMemory(i, e.offset, 8, {"w"}) /\ e.addend >= 0
         /\ FileBackedWith(i, e.addend, 1, {"x"}) /\ Fits(o.bias + e.offset) /\ Fits(o.bias + e.addend),
         Report(e, o.bias + e.offset, "", TRUE, o.bias + e.addend))

-----------------------------------------------------------------------------
(* Listings: every entry, whatever its type, with the name of its symbol.  *)
HashTag(i) == IF Has(i, "HASH") THEN {"HASH"} ELSE {"GNU_HASH"}
NameListed(i, count, e) == e.symbol # 0 => e.symbol < count /\ Named(SymbolAt(i, e.symbol))
ListReport(i, e) ==
    Report(e, e.offset, IF e.symbol = 0 THEN "-" ELSE SymbolAt(i, e.symbol).name, FALSE, 0)

(* The symbols are looked for when an entry first names one.               *)
DynrelaTags(i)    == i.dynamics = 1 => Nulls(i) # {}
DynrelaCount(i)   == IF Once(i, HashTag(i)) THEN EitherCount(i) ELSE Refused
DynrelaSymbols(i) == /\ Given(i, SymbolTags) /\ Once(i, SymbolTags)
                     /\ SymbolsMapped(i, DynrelaCount(i))
DynrelaReads(i) ==
    /\ i.dynamics <= 1 /\ DynrelaTags(i) /\ Once(i, RelaTags) /\ Together(i, RelaTags)
    /\ TableHeld(i, RelaTags, RelaShaped(i), "RELA", "RELASZ")
DynrelaName(i, e) == NameListed(i, DynrelaCount(i), e)
DynrelaEntry(i, o, e) ==
    When((e.symbol # 0 => DynrelaSymbols(i)) /\ DynrelaName(i, e), ListReport(i, e))

DynrelTags(i)    == i.dynamics = 1 => Nulls(i) # {}
DynrelCount(i)   == IF Once(i, HashTag(i)) THEN EitherCount(i) ELSE Refused
DynrelSymbols(i) == /\ Given(i, SymbolTags) /\ Once(i, SymbolTags)
                    /\ SymbolsMapped(i, DynrelCount(i))
DynrelReads(i) ==
    /\ i.dynamics <= 1 /\ DynrelTags(i) /\ Once(i, RelTags) /\ Together(i, RelTags)
    /\ TableHeld(i, RelTags, RelShaped(i) /\ DynrelSymbols(i), "REL", "RELSZ")
DynrelName(i, e) == NameListed(i, DynrelCount(i), e)
DynrelEntry(i, o, e) == When(DynrelName(i, e), ListReport(i, e))

DynpltTags(i)    == i.dynamics = 1 => Nulls(i) # {}
DynpltCount(i)   == IF Once(i, HashTag(i)) THEN EitherCount(i) ELSE Refused
DynpltSymbols(i) == /\ Given(i, SymbolTags) /\ Once(i, SymbolTags)
                    /\ SymbolsMapped(i, DynpltCount(i))
DynpltReads(i) ==
    /\ i.dynamics <= 1 /\ DynpltTags(i) /\ Once(i, PltTags) /\ Together(i, PltTags)
    /\ TableHeld(i, PltTags, PltShaped(i) /\ DynpltSymbols(i), "JMPREL", "PLTRELSZ")
DynpltName(i, e) == NameListed(i, DynpltCount(i), e)
DynpltEntry(i, o, e) == When(DynpltName(i, e), ListReport(i, e))
=============================================================================
