----------------------------- MODULE ImageInspection ------------------------------
(***************************************************************************)
(* A run of one of the inspectors of dynamic relocations, the 28 programs  *)
(* of src/bin named mini-elf-dynrel... and mini-elf-dynplt..., over the    *)
(* images it is given: each is read and its entries are taken in the order *)
(* of their table; nothing is printed before all images are done, and any  *)
(* refusal ends the run.                                                   *)
(*                                                                         *)
(* The images come from elsewhere, or one was just linked.                 *)
(***************************************************************************)
EXTENDS RelocationReaders, DynamicMetadata

CONSTANTS Sessions, \* the runs over images from elsewhere: [tool, options, images]
          OwnOptions \* the options given for an image that was just linked

VARIABLES
    session,  \* the command line
    status,   \* "idle", "opening", "reading", "refused" or "printed"
    place,    \* [file, entry]: what is taken next
    body,     \* the reports of the image that is read
    rendered, \* those of the images before it
    stdout

inspectionVars == <<session, status, place, body, rendered, stdout>>

NoSession == [tool |-> "none", own |-> FALSE]
RelocationType ==
    [u8 |-> "8", u16 |-> "16", u32 |-> "32", i32 |-> "32S", abs64 |-> "64", globdat |-> "GLOB_DAT",
     copy |-> "COPY", dtpmod64 |-> "DTPMOD64", dtpoff32 |-> "DTPOFF32", dtpoff64 |-> "DTPOFF64",
     tpoff32 |-> "TPOFF32", tpoff64 |-> "TPOFF64", tlsdesc |-> "TLSDESC",
     jumpslot |-> "JUMP_SLOT", pltslot |-> "JUMP_SLOT", pc8 |-> "PC8", pc16 |-> "PC16",
     pc32 |-> "PC32", pc64 |-> "PC64", size32 |-> "SIZE32", size64 |-> "SIZE64",
     relative |-> "RELATIVE", relative64 |-> "RELATIVE64", relrelative |-> "RELATIVE",
     irelative |-> "IRELATIVE", dynrela |-> "any", dynrel |-> "any", dynplt |-> "any"]
Tools == DOMAIN RelocationType

Listings   == {"dynrela", "dynrel", "dynplt"}
RelTools   == {"dynrel", "relrelative"}
PltTools   == {"dynplt", "jumpslot", "pltslot"}
(* These say that there is nothing, the others refuse an image without it. *)
MayBeEmpty == Listings \cup {"relative", "relative64", "relrelative"}
Concerns(tool, e) == tool \in Listings \cup {"pltslot"} \/ e.type = RelocationType[tool]

Reads(tool, i) ==
    CASE tool = "u8" -> U8Reads(i)             [] tool = "u16" -> U16Reads(i)
      [] tool = "u32" -> U32Reads(i)           [] tool = "i32" -> I32Reads(i)
      [] tool = "abs64" -> Abs64Reads(i)       [] tool = "globdat" -> GlobDatReads(i)
      [] tool = "copy" -> CopyReads(i)         [] tool = "dtpmod64" -> Dtpmod64Reads(i)
      [] tool = "dtpoff32" -> Dtpoff32Reads(i) [] tool = "dtpoff64" -> Dtpoff64Reads(i)
      [] tool = "tpoff32" -> Tpoff32Reads(i)   [] tool = "tpoff64" -> Tpoff64Reads(i)
      [] tool = "tlsdesc" -> TlsdescReads(i)   [] tool = "jumpslot" -> JumpSlotReads(i)
      [] tool = "pltslot" -> PltSlotReads(i)   [] tool = "pc8" -> Pc8Reads(i)
      [] tool = "pc16" -> Pc16Reads(i)         [] tool = "pc32" -> Pc32Reads(i)
      [] tool = "pc64" -> Pc64Reads(i)         [] tool = "size32" -> Size32Reads(i)
      [] tool = "size64" -> Size64Reads(i)     [] tool = "relative" -> RelativeReads(i)
      [] tool = "relative64" -> Relative64Reads(i)
      [] tool = "relrelative" -> RelRelativeReads(i)
      [] tool = "irelative" -> IrelativeReads(i) [] tool = "dynrela" -> DynrelaReads(i)
      [] tool = "dynrel" -> DynrelReads(i)     [] tool = "dynplt" -> DynpltReads(i)

Take(tool, i, o, e) ==
    CASE tool = "u8" -> U8Entry(i, o, e)       [] tool = "u16" -> U16Entry(i, o, e)
      [] tool = "u32" -> U32Entry(i, o, e)     [] tool = "i32" -> I32Entry(i, o, e)
      [] tool = "abs64" -> Abs64Entry(i, o, e) [] tool = "globdat" -> GlobDatEntry(i, o, e)
      [] tool = "copy" -> CopyEntry(i, o, e)   [] tool = "dtpmod64" -> Dtpmod64Entry(i, o, e)
      [] tool = "dtpoff32" -> Dtpoff32Entry(i, o, e) [] tool = "dtpoff64" -> Dtpoff64Entry(i, o, e)
      [] tool = "tpoff32" -> Tpoff32Entry(i, o, e)   [] tool = "tpoff64" -> Tpoff64Entry(i, o, e)
      [] tool = "tlsdesc" -> TlsdescEntry(i, o, e)   [] tool = "jumpslot" -> JumpSlotEntry(i, o, e)
      [] tool = "pltslot" -> PltSlotEntry(i, o, e)   [] tool = "pc8" -> Pc8Entry(i, o, e)
      [] tool = "pc16" -> Pc16Entry(i, o, e)   [] tool = "pc32" -> Pc32Entry(i, o, e)
      [] tool = "pc64" -> Pc64Entry(i, o, e)   [] tool = "size32" -> Size32Entry(i, o, e)
      [] tool = "size64" -> Size64Entry(i, o, e) [] tool = "relative" -> RelativeEntry(i, o, e)
      [] tool = "relative64" -> Relative64Entry(i, o, e)
      [] tool = "relrelative" -> RelRelativeEntry(i, o, e)
      [] tool = "irelative" -> IrelativeEntry(i, o, e) [] tool = "dynrela" -> DynrelaEntry(i, o, e)
      [] tool = "dynrel" -> DynrelEntry(i, o, e) [] tool = "dynplt" -> DynpltEntry(i, o, e)

(* The table a tool takes its entries from.                                *)
Tabled(i, trio, table, size, each) ==
    IF i.dynamics = 1 /\ Given(i, trio) THEN EntriesOf(i, table, size, each) ELSE <<>>
Table(tool, i) ==
    IF tool \in RelTools THEN Tabled(i, RelTags, "REL", "RELSZ", RelSize)
    ELSE IF tool \in PltTools \/ (tool = "tlsdesc" /\ Has(i, "JMPREL"))
    THEN Tabled(i, PltTags, "JMPREL", "PLTRELSZ", RelaSize)
    ELSE Tabled(i, RelaTags, "RELA", "RELASZ", RelaSize)

-----------------------------------------------------------------------------
Idle == session = NoSession /\ status = "idle"
Fresh == place = [file |-> 1, entry |-> 1] /\ body = <<>> /\ rendered = <<>> /\ stdout = <<>>
LinkedElsewhere ==
    /\ link \in {CHOOSE l \in Links : TRUE} /\ phase = "elsewhere" /\ next = 1
    /\ script = EmptyScript /\ exports = <<>> /\ matched = {} /\ tables = NoKeys /\ error = "none"
InspectionInit ==
    /\ Fresh
    /\ \/ TablesInit /\ Idle
       \/ LinkedElsewhere /\ session \in Sessions /\ status = "opening"

StartOwn ==
    /\ phase = "written" /\ Carried /\ Idle
    /\ \E tool \in Tools, o \in OwnOptions :
         session' = [tool |-> tool, own |-> TRUE, options |-> o, images |-> <<OwnImage>>]
    /\ status' = "opening" /\ UNCHANGED <<place, body, rendered, stdout>>

Image == session.images[place.file]
Entries == Table(session.tool, Image)

RefuseRun == status' = "refused" /\ UNCHANGED <<session, place, body, rendered, stdout>>

OpenImage ==
    /\ status = "opening" /\ place.file <= Len(session.images)
    /\ \/ ~Reads(session.tool, Image) /\ RefuseRun
       \/ /\ Reads(session.tool, Image)
          /\ status' = "reading" /\ UNCHANGED <<session, place, body, rendered, stdout>>

TakeEntry ==
    /\ status = "reading" /\ place.entry <= Len(Entries)
    /\ LET e == Entries[place.entry]
           taken == Take(session.tool, Image, session.options, e)
       IN \/ Concerns(session.tool, e) /\ taken = <<>> /\ RefuseRun
          \/ /\ ~Concerns(session.tool, e) \/ taken # <<>>
             /\ body' = IF Concerns(session.tool, e) THEN body \o taken ELSE body
             /\ place' = [place EXCEPT !.entry = @ + 1]
             /\ UNCHANGED <<session, status, rendered, stdout>>

CloseImage ==
    /\ status = "reading" /\ place.entry > Len(Entries)
    /\ \/ session.tool \notin MayBeEmpty /\ body = <<>> /\ RefuseRun
       \/ /\ session.tool \in MayBeEmpty \/ body # <<>>
          /\ rendered' = Append(rendered, body) /\ body' = <<>>
          /\ place' = [file |-> place.file + 1, entry |-> 1] /\ status' = "opening"
          /\ UNCHANGED <<session, stdout>>

WriteOutput ==
    /\ status = "opening" /\ place.file > Len(session.images)
    /\ stdout' = rendered /\ status' = "printed"
    /\ UNCHANGED <<session, place, body, rendered>>

InspectionNext == StartOwn \/ OpenImage \/ TakeEntry \/ CloseImage \/ WriteOutput
InspectionEnded ==
    /\ status \in {"refused", "printed"} \/ (Idle /\ phase \in {"written", "failed"})
    /\ UNCHANGED <<tableVars, inspectionVars>>

InspectionSpec ==
    InspectionInit /\ [][\/ TablesNext /\ UNCHANGED inspectionVars
                         \/ InspectionNext /\ UNCHANGED tableVars
                         \/ InspectionEnded]_<<tableVars, inspectionVars>>

-----------------------------------------------------------------------------
(* What the loader computes for an entry, and what the program then finds  *)
(* in the word: as many bits as the type has, sign-extended where the type *)
(* is a signed one.                                                        *)
LoaderValue(i, o, e, s) ==
    CASE e.type \in {"8", "16", "32", "32S", "64"} -> o.bias + s.value + e.addend
      [] e.type \in {"GLOB_DAT", "JUMP_SLOT"} -> o.bias + s.value
      [] e.type \in {"PC8", "PC16", "PC32", "PC64"} ->
           (o.bias + s.value) + e.addend - (o.bias + e.offset)
      [] e.type \in {"SIZE32", "SIZE64"} -> s.size + e.addend
      [] e.type = "DTPMOD64" -> o.module
      [] e.type \in {"DTPOFF32", "DTPOFF64", "TLSDESC"} -> s.value + e.addend
      [] e.type \in {"TPOFF32", "TPOFF64"} -> o.block + s.value + e.addend
      [] OTHER -> o.bias + (IF "addend" \in DOMAIN e THEN e.addend ELSE i.holds[e.offset])

Bits(type) == IF type = "8" \/ type = "PC8" THEN Limit8
              ELSE IF type = "16" \/ type = "PC16" THEN Limit16
              ELSE IF type \in {"32", "32S", "PC32", "SIZE32", "DTPOFF32", "TPOFF32"} THEN Limit32
              ELSE Limit64
SignedTypes == {"32S", "PC8", "PC16", "PC32", "PC64", "DTPOFF32", "TPOFF32", "TPOFF64"}
Loaded(type, x) ==
    LET word == x % Bits(type)
    IN IF type \in SignedTypes /\ word >= Bits(type) \div 2 THEN word - Bits(type) ELSE word

(* Left to the loader: what is not in the image, copies, lazy slots.       *)
Unresolved(tool, s) == tool \in Listings \cup {"copy", "jumpslot"} \/ s.section = "undef"
NoSymbol == [name |-> "", section |-> "text", tls |-> FALSE, ifunc |-> FALSE, value |-> 0, size |-> 0]
SymbolOf(i, e) == IF e.symbol = 0 THEN NoSymbol ELSE SymbolAt(i, e.symbol)

(* Not covered: the value behind an IFUNC, for which the tools report its  *)
(* resolver, and PC32 against an absolute or thread-local symbol.          *)
Covered(tool, s) == ~s.ifunc /\ (tool = "pc32" => Ordinary(s) \/ ~Defined(s))
ReportHolds(tool, i, o, r) ==
    LET e == r.entry  s == SymbolOf(i, e) IN
    /\ r.valued = ~Unresolved(tool, s)
    /\ r.valued /\ Covered(tool, s) => r.value = Loaded(e.type, LoaderValue(i, o, e, s))
    /\ r.target % Limit64 \in {e.offset, o.bias + e.offset}

(* A run prints nothing, or for every image exactly the entries its tool   *)
(* is for, in the order of the table, each with the value that a program   *)
(* reads from the word once the loader has relocated it: no value is       *)
(* reported that the word would truncate or extend to another.             *)
ReportsMatchTheLoader ==
    IF status # "printed" THEN stdout = <<>>
    ELSE /\ Len(stdout) = Len(session.images)
         /\ \A f \in DOMAIN session.images :
              LET i == session.images[f]
                  wanted == SelectSeq(Table(session.tool, i), LAMBDA e : Concerns(session.tool, e))
              IN /\ [k \in DOMAIN stdout[f] |-> stdout[f][k].entry] = wanted
                 /\ \A k \in DOMAIN wanted :
                      ReportHolds(session.tool, i, session.options, stdout[f][k])

-----------------------------------------------------------------------------
StrictTools  == {"u8", "u16", "u32", "i32", "abs64", "globdat", "copy", "dtpmod64", "dtpoff32", "dtpoff64"}
LenientTools == {"pc8", "pc16", "pc32", "pc64", "size32", "size64"}
Counts(i) ==
    {U8Count(i), U16Count(i), U32Count(i), I32Count(i), Abs64Count(i), GlobDatCount(i), CopyCount(i),
     Dtpmod64Count(i), Dtpoff32Count(i), Dtpoff64Count(i), JumpSlotCount(i), PltSlotCount(i),
     Pc8Count(i), Pc16Count(i), Pc32Count(i), Pc64Count(i), Size32Count(i), Size64Count(i)}

(* The reader of dynamic relocations exists in as many copies as there are *)
(* tools.  They read the same image the same way: those of a kind accept   *)
(* the same tables, all believe in the same number of symbols, and a       *)
(* stricter reader accepts nothing that a looser one refuses.  (Each image *)
(* is looked at once, as the first of the tools opens it.)                 *)
Alike(readers) == Cardinality({Reads(t, Image) : t \in readers}) = 1
CopiesAgree ==
    session.tool = "u8" /\ status = "opening" /\ place.file <= Len(session.images) =>
      /\ Alike(StrictTools) /\ Alike(LenientTools)
      /\ Alike({"tpoff32", "tpoff64"}) /\ Alike({"dynrela", "relative"})
      /\ Alike({"dynrel", "relrelative"}) \/ Reads("relrelative", Image)
      /\ Reads("u8", Image) => /\ Reads("pc8", Image) /\ Reads("irelative", Image)
                               /\ Has(Image, "HASH") => Reads("tpoff64", Image)
      /\ Reads("pc8", Image) \/ Reads("irelative", Image) => Reads("dynrela", Image)
      /\ Reads("pltslot", Image) => Reads("jumpslot", Image) /\ Reads("dynplt", Image)
      /\ Has(Image, "HASH") \/ Has(Image, "GNU_HASH") => Cardinality(Counts(Image)) = 1

-----------------------------------------------------------------------------
(* The uses of a link that each tool is for.                               *)
UseNames(tool) ==
    LET names(list) == [k \in DOMAIN list |-> list[k].name]
        copies == SelectSeq(link.imports, Copied)
    IN CASE tool = "globdat" -> names(uses.got)
         [] tool = "copy" -> [k \in DOMAIN copies |-> copies[k].base]
         [] tool = "abs64" -> names(uses.sites)
         [] tool \in {"dtpmod64", "dtpoff64"} -> names(uses.gd)
         [] tool = "tpoff64" -> names(uses.ie)
         [] tool = "tlsdesc" -> names(uses.desc)
         [] tool \in PltTools -> names(uses.plt)
         [] OTHER -> <<>>
DefinedHere == {exports[k].name : k \in DOMAIN exports}

(* The tools that resolve a symbol do so within the image: one import in   *)
(* their table, and the image is refused.  DT_JMPREL hides the descriptors *)
(* in DT_RELA, and the module of the local-dynamic model has no symbol.    *)
ReadsOwn(tool) ==
    \/ tool \in MayBeEmpty
    \/ /\ UseNames(tool) # <<>>
       /\ tool \notin PltTools => Range(UseNames(tool)) \subseteq DefinedHere
       /\ tool = "tlsdesc" => uses.plt = <<>>
       /\ tool = "dtpmod64" => uses.ld = <<>>

(* The images this linker writes are read by its own inspectors: the       *)
(* entries counted for PT_DYNAMIC are those written; a tool refuses such an *)
(* image only as said above; what it prints are the uses of the link, each *)
(* under the name, and at the place, that the link gave it.                *)
OwnImagesAreRead ==
    /\ phase = "written" /\ Carried => Len(DynamicEntries) = DynamicEntryCount
    /\ status \in {"refused", "printed"} /\ session.own =>
         /\ status = "printed" <=> ReadsOwn(session.tool)
         /\ status = "printed" /\ session.tool \notin {"dynrela", "relative"} =>
              /\ [k \in DOMAIN stdout[1] |-> stdout[1][k].name] = UseNames(session.tool)
              /\ session.tool \in {"globdat", "pltslot"} => \A k \in DOMAIN stdout[1] :
                   stdout[1][k].name \in DefinedHere =>
                     stdout[1][k].value = session.options.bias + uses.at[stdout[1][k].name].value
         /\ status = "printed" /\ session.tool = "relative" =>
              Len(stdout[1]) = IF uses.packed THEN 0 ELSE Len(uses.relative)
=============================================================================
