------------------------------ MODULE PieRuntime -------------------------------
(***************************************************************************)
(* A static PIE relocates itself.  The linker collects the words that hold *)
(* link-time addresses, writes them down as RELA entries or, with -z       *)
(* pack-relative-relocs, as packed RELR words, and emits a trampoline that *)
(* applies both, calls the IFUNC resolvers, seals the RELRO segments and   *)
(* jumps to the user's entry (pie_runtime.rs).  Link time and start-up are *)
(* one behaviour here: what the first writes the second reads.             *)
(*                                                                         *)
(* Memory is the writable image by address.  A word is known by what it    *)
(* holds: the link-time address of a symbol with the load bias added so    *)
(* many times, or what a resolver returned.                                *)
(***************************************************************************)
EXTENDS Integers, Sequences, FiniteSets, Functions, FiniteSetsExt, SequencesExt

CONSTANTS
    Word,         \* the addresses a word takes; 8
    BitmapSlots,  \* the words one RELR bitmap covers; 63
    Page,         \* the page size
    Names,        \* the symbols of the link
    Kind,         \* what resolution made of each of them
    Links         \* the relocated images the runtime tables are built for

Kinds == {"object", "ifunc", "ifunc_in_data", "abs", "weak"}
Request == [section : {"data", "tls", "text"}, offset : Nat, symbol : Names]

ASSUME PieAssumption ==
    /\ Word \in Nat \ {0} /\ BitmapSlots \in Nat \ {0} /\ Page \in Nat \ {0}
    /\ Names \subseteq STRING /\ Kind \in [Names -> Kinds]
    /\ \A l \in Links :
         /\ l.data \in Nat /\ l.tls \in Nat /\ l.tpoff \in Nat
         /\ l.requests \in Seq(Request) /\ l.packed \in BOOLEAN
         /\ l.got \in Seq(Names)   \* the keys of got_entries, each once
         /\ \A j, k \in DOMAIN l.got : l.got[j] = l.got[k] => j = k

VARIABLES
    link,      \* sections, R_X86_64_64 relocations and GOT names of the image
    phase,     \* the stage of the link, then of the start-up code
    next,      \* what the current loop takes next
    relative,  \* collected R_X86_64_RELATIVE: target and symbol
    irelative, \* collected R_X86_64_IRELATIVE
    relr,      \* DT_RELR
    rela,      \* DT_RELA
    relro,     \* the segments the trampoline seals, in order
    memory,    \* the section bytes, then the process's memory
    cursor,    \* bitmap_base of the encoder, rdi of the trampoline
    sealed,    \* the pages mprotect made read-only
    error      \* the error the link ended with

pieVars == <<link, phase, next, relative, irelative, relr, rela, relro, memory,
             cursor, sealed, error>>
tables == <<relative, irelative, relr, rela, relro>>

AlignUp(v, a) == ((v + a - 1) \div a) * a

-----------------------------------------------------------------------------
(* The writable image: .data and its like, the GOT on pages of its own,    *)
(* the TLS template.  TPOFF slots of the GOT follow the symbols' slots.    *)
GotNames == link.got
GotUsed  == Word * (Len(GotNames) + link.tpoff)
GotBase  == AlignUp(link.data, Page)
GotSizeUnpadded == GotUsed
GotSize  == AlignUp(GotUsed, Page)
TlsBase  == IF GotUsed = 0 THEN link.data ELSE GotBase + GotSize
ImageEnd == TlsBase + link.tls

Slot(n)    == GotBase + Word * ((CHOOSE k \in DOMAIN GotNames : GotNames[k] = n) - 1)
Address(r) == IF r.section = "tls" THEN TlsBase + r.offset ELSE r.offset

Plain        == [of |-> "plain", bias |-> 0]
Linked(s)    == [of |-> s, bias |-> 0]
Moved(v)     == [v EXCEPT !.bias = @ + 1]
Resolved(s)  == [of |-> s, bias |-> -1]   \* what the resolver of s returned

Requested(a) == {r.symbol : r \in {q \in Range(link.requests) :
                                     q.section # "text" /\ Address(q) = a}}
Slotted(a)   == {n \in Range(GotNames) : Slot(n) = a}

(* What the relocation pass before this one left at an address.            *)
LinkTime(a) ==
    LET held == Requested(a) \cup Slotted(a)
    IN IF held = {} THEN Plain
       ELSE LET s == CHOOSE s \in held : TRUE IN IF Kind[s] = "weak" THEN Plain ELSE Linked(s)

PieInit ==
    /\ link \in Links
    /\ phase = "collect" /\ next = 1
    /\ relative = <<>> /\ irelative = <<>>
    /\ relr = <<>> /\ rela = <<>> /\ relro = <<>>
    /\ memory = [a \in 0 .. ImageEnd - 1 |-> LinkTime(a)]
    /\ cursor = 0 /\ sealed = {} /\ error = "none"

Refuse(reason) ==
    /\ phase' = "failed" /\ error' = reason
    /\ UNCHANGED <<link, next, tables, memory, cursor, sealed>>

-----------------------------------------------------------------------------
(* collect_runtime_relocations: the R_X86_64_64 relocations in input       *)
(* order, then the GOT by name.                                            *)
Keep(at, s) ==
    /\ next' = next + 1
    /\ IF Kind[s] = "ifunc"
       THEN irelative' = Append(irelative, [at |-> at, symbol |-> s]) /\ UNCHANGED relative
       ELSE relative' = Append(relative, [at |-> at, symbol |-> s]) /\ UNCHANGED irelative
    /\ UNCHANGED <<link, phase, relr, rela, relro, memory, cursor, sealed, error>>

Pass == next' = next + 1
        /\ UNCHANGED <<link, phase, tables, memory, cursor, sealed, error>>

CollectDirect ==
    /\ phase = "collect" /\ next <= Len(link.requests)
    /\ LET r == link.requests[next] IN
       \/ r.section = "text" /\ Refuse("ReadOnlyTarget")
       \/ r.section # "text" /\ Kind[r.symbol] = "weak" /\ Pass
       \/ r.section # "text" /\ Kind[r.symbol] = "abs" /\ Refuse("AbsoluteSymbol")
       \/ /\ r.section # "text" /\ Kind[r.symbol] = "ifunc_in_data"
          /\ Refuse("IfuncResolverNotExecutable")
       \/ r.section # "text" /\ Kind[r.symbol] \in {"object", "ifunc"} /\ Keep(Address(r), r.symbol)

StartGot ==
    /\ phase = "collect" /\ next > Len(link.requests)
    /\ phase' = "got" /\ next' = 1
    /\ UNCHANGED <<link, tables, memory, cursor, sealed, error>>

(* Slots of absolute symbols and of unresolved weak ones keep their value. *)
CollectGot ==
    /\ phase = "got" /\ next <= Len(GotNames)
    /\ LET n == GotNames[next] IN
       \/ Kind[n] \in {"weak", "abs"} /\ Pass
       \/ Kind[n] = "ifunc_in_data" /\ Refuse("IfuncResolverNotExecutable")
       \/ Kind[n] \in {"object", "ifunc"} /\ Keep(Slot(n), n)

-----------------------------------------------------------------------------
(* materialize_relr_relocations: by address, checked, and with the         *)
(* addends written into the words themselves.                              *)
TargetRank(k) == Cardinality({j \in DOMAIN relative :
                                \/ relative[j].at < relative[k].at
                                \/ relative[j].at = relative[k].at /\ j <= k})
ByTarget == [i \in DOMAIN relative |->
               relative[CHOOSE k \in DOMAIN relative : TargetRank(k) = i]]
Bad(list) == {k \in DOMAIN list : list[k].at % Word # 0 \/ (k > 1 /\ list[k].at = list[k - 1].at)}

Materialized(list) ==
    [a \in DOMAIN memory |->
       LET held == {x \in Range(list) : x.at = a}
       IN IF held = {} THEN memory[a] ELSE Linked((CHOOSE x \in held : TRUE).symbol)]

RelaEntries(kind, list) == [k \in DOMAIN list |->
                              [kind |-> kind, at |-> list[k].at, symbol |-> list[k].symbol]]
RelaTableAsCollected ==
    RelaEntries("irelative", irelative) \o (IF link.packed THEN <<>> ELSE RelaEntries("relative", relative))
(* RELATIVE entries first: DT_RELACOUNT counts a prefix.                   *)
RelaTable ==
    (IF link.packed THEN <<>> ELSE RelaEntries("relative", relative)) \o RelaEntries("irelative", irelative)

(* build_pie_runtime_relocation_tables; no relocation, no runtime.         *)
BuildTables ==
    /\ phase = "got" /\ next > Len(GotNames)
    /\ IF relative = <<>> /\ irelative = <<>>
       THEN /\ phase' = "plain"
            /\ UNCHANGED <<link, next, tables, memory, cursor, sealed, error>>
       ELSE IF ~link.packed
       THEN /\ rela' = RelaTable /\ phase' = "layout"
            /\ UNCHANGED <<link, next, relative, irelative, relr, relro, memory, cursor,
                           sealed, error>>
       ELSE IF Bad(ByTarget) # {}
       THEN Refuse(IF ByTarget[Min(Bad(ByTarget))].at % Word # 0
                   THEN "RelrTargetUnaligned" ELSE "RelrDuplicateTarget")
       ELSE /\ relative' = ByTarget /\ memory' = Materialized(ByTarget)
            /\ rela' = RelaTable
            /\ phase' = "encode" /\ next' = 1
            /\ UNCHANGED <<link, irelative, relr, relro, cursor, sealed, error>>

(* serialize_relr_offsets: an address, then bitmaps of the words after it  *)
(* for as long as the next target is within one bitmap of the last.        *)
EncodeDirectFromTarget ==
    /\ phase = "encode" /\ next <= Len(relative)
    /\ relr' = Append(relr, [kind |-> "direct", at |-> relative[next].at])
    /\ cursor' = relative[next].at
    /\ next' = next + 1 /\ phase' = "bitmap"
    /\ UNCHANGED <<link, relative, irelative, rela, relro, memory, sealed, error>>
EncodeDirect ==
    /\ phase = "encode" /\ next <= Len(relative)
    /\ relr' = Append(relr, [kind |-> "direct", at |-> relative[next].at])
    /\ cursor' = relative[next].at + Word
    /\ next' = next + 1 /\ phase' = "bitmap"
    /\ UNCHANGED <<link, relative, irelative, rela, relro, memory, sealed, error>>

WithinOneMore(at) == at - cursor <= BitmapSlots * Word
Within(at) == at - cursor < BitmapSlots * Word

EncodeBitmap ==
    /\ phase = "bitmap" /\ next <= Len(relative) /\ Within(relative[next].at)
    /\ LET taken == {k \in next .. Len(relative) : Within(relative[k].at)}
       IN /\ relr' = Append(relr, [kind |-> "bitmap",
                                   slots |-> {(relative[k].at - cursor) \div Word : k \in taken}])
          /\ next' = Max(taken) + 1
    /\ cursor' = cursor + BitmapSlots * Word
    /\ UNCHANGED <<link, phase, relative, irelative, rela, relro, memory, sealed, error>>

EndRun ==
    /\ phase = "bitmap" /\ (next <= Len(relative) => ~Within(relative[next].at))
    /\ phase' = IF next > Len(relative) THEN "layout" ELSE "encode"
    /\ UNCHANGED <<link, next, tables, memory, cursor, sealed, error>>

(* Packing without a RELATIVE relocation leaves RELR empty.                *)
EncodeNothing ==
    /\ phase = "encode" /\ relative = <<>> /\ phase' = "layout"
    /\ UNCHANGED <<link, next, tables, memory, cursor, sealed, error>>

-----------------------------------------------------------------------------
(* The runtime sections, from the first page after the image: RELR and     *)
(* RELA, the trampoline (less than a page), and PT_DYNAMIC.                *)
TablesAt     == AlignUp(ImageEnd, Page)
RelaAt       == TablesAt + Word * Len(relr)
TrampolineAt == AlignUp(RelaAt + 3 * Word * Len(rela), Page)
DynamicAt    == TrampolineAt + Page
DynamicSize  ==
    LET entries == (IF rela # <<>> THEN 3 ELSE 0)
                   + (IF rela # <<>> /\ rela[1].kind = "relative" THEN 1 ELSE 0)
                   + (IF relr # <<>> THEN 3 ELSE 0) + 1
    IN 2 * Word * entries

RelroSegments ==
    (IF GotUsed = 0 THEN <<>> ELSE <<[base |-> GotBase, size |-> GotSize]>>)
    \o <<[base |-> DynamicAt, size |-> DynamicSize]>>

(* add_runtime_relative_relocations_with_options, from the tables on; the  *)
(* kernel then maps the image at its load bias and enters the trampoline.  *)
LayOutRuntime ==
    /\ phase = "layout"
    /\ IF \E s \in Range(RelroSegments) : s.size = 0 \/ s.base % Page # 0
       THEN Refuse("InvalidRelroRange")
       ELSE /\ relro' = RelroSegments
            /\ phase' = "relr" /\ next' = 1
            /\ UNCHANGED <<link, relative, irelative, relr, rela, memory, cursor, sealed, error>>

-----------------------------------------------------------------------------
(* The trampoline.                                                         *)
AddBias(targets) ==
    memory' = [a \in DOMAIN memory |-> IF a \in targets THEN Moved(memory[a]) ELSE memory[a]]

RelrDirect ==
    /\ phase = "relr" /\ next <= Len(relr) /\ relr[next].kind = "direct"
    /\ AddBias({relr[next].at})
    /\ cursor' = relr[next].at + Word /\ next' = next + 1
    /\ UNCHANGED <<link, phase, tables, sealed, error>>

(* Sixty-three rounds: bit after bit, rdi one word further each time.      *)
RelrBitmap ==
    /\ phase = "relr" /\ next <= Len(relr) /\ relr[next].kind = "bitmap"
    /\ AddBias({cursor + Word * k : k \in relr[next].slots \cap 0 .. BitmapSlots - 1})
    /\ cursor' = cursor + BitmapSlots * Word /\ next' = next + 1
    /\ UNCHANGED <<link, phase, tables, sealed, error>>

RelrDone ==
    /\ phase = "relr" /\ next > Len(relr)
    /\ phase' = "rela" /\ next' = 1
    /\ UNCHANGED <<link, tables, memory, cursor, sealed, error>>

StoreRelative ==
    /\ phase = "rela" /\ next <= Len(rela) /\ rela[next].kind = "relative"
    /\ memory' = [memory EXCEPT ![rela[next].at] = Moved(Linked(rela[next].symbol))]
    /\ next' = next + 1
    /\ UNCHANGED <<link, phase, tables, cursor, sealed, error>>

(* IRELATIVE calls the resolver at B + A and stores its return value.      *)
CallResolver ==
    /\ phase = "rela" /\ next <= Len(rela) /\ rela[next].kind = "irelative"
    /\ phase' = "resolver"
    /\ UNCHANGED <<link, next, tables, memory, cursor, sealed, error>>
ResolverReturns ==
    /\ phase = "resolver"
    /\ memory' = [memory EXCEPT ![rela[next].at] = Resolved(rela[next].symbol)]
    /\ next' = next + 1 /\ phase' = "rela"
    /\ UNCHANGED <<link, tables, cursor, sealed, error>>

RelaDone ==
    /\ phase = "rela" /\ next > Len(rela)
    /\ phase' = "seal" /\ next' = 1
    /\ UNCHANGED <<link, tables, memory, cursor, sealed, error>>

(* mprotect works on whole pages.                                          *)
PagesOf(s) == {a \div Page : a \in s.base .. s.base + s.size - 1}

SealSegment ==
    /\ phase = "seal" /\ next <= Len(relro)
    /\ sealed' = sealed \cup PagesOf(relro[next])
    /\ next' = next + 1
    /\ UNCHANGED <<link, phase, tables, memory, cursor, error>>
SealFails ==
    /\ phase = "seal" /\ next <= Len(relro)
    /\ phase' = "exited"
    /\ UNCHANGED <<link, next, tables, memory, cursor, sealed, error>>
EnterUser ==
    /\ phase = "seal" /\ next > Len(relro)
    /\ phase' = "user"
    /\ UNCHANGED <<link, next, tables, memory, cursor, sealed, error>>

Collecting  == CollectDirect \/ StartGot \/ CollectGot \/ BuildTables
Encoding    == EncodeDirect \/ EncodeBitmap \/ EndRun \/ EncodeNothing \/ LayOutRuntime
Relocating  == \/ RelrDirect \/ RelrBitmap \/ RelrDone
               \/ StoreRelative \/ CallResolver \/ ResolverReturns \/ RelaDone
Sealing     == SealSegment \/ SealFails \/ EnterUser
PieNext == Collecting \/ Encoding \/ Relocating \/ Sealing

Ended == phase \in {"plain", "failed", "exited", "user"} /\ UNCHANGED pieVars

PieSpec == PieInit /\ [][PieNext \/ Ended]_pieVars

-----------------------------------------------------------------------------
(* The symbols an address was to be relocated for.                         *)
Wanted(a) == {s \in Requested(a) \cup Slotted(a) :
                /\ Kind[s] \in {"object", "ifunc"}}
Final(s) == IF Kind[s] = "ifunc" THEN Resolved(s) ELSE Moved(Linked(s))

(* When the user's code starts, every word that held an address holds it   *)
(* with the load bias added once, or what its resolver chose, whichever    *)
(* table it went through; every other word is as the linker wrote it:      *)
(* absolute and unresolved weak slots, TPOFF slots and plain data.         *)
RelocatedExactlyOnce ==
    phase \in {"seal", "user"} =>
      \A a \in DOMAIN memory :
        IF Wanted(a) = {} THEN memory[a] = LinkTime(a)
        ELSE \E s \in Wanted(a) : memory[a] = Final(s)

(* A resolver is user code that runs before the relocation is complete: it *)
(* finds every word without a resolver of its own relocated, can write to  *)
(* every page, and lies in an executable section.                          *)
ResolversRunRelocated ==
    phase = "resolver" =>
      /\ sealed = {} /\ Kind[rela[next].symbol] = "ifunc"
      /\ \A a \in DOMAIN memory :
           LET plain == {s \in Wanted(a) : Kind[s] = "object"}
           IN (plain # {} /\ plain = Wanted(a)) => \E s \in plain : memory[a] = Moved(Linked(s))

(* The user's code finds the whole GOT sealed, and nothing else of the     *)
(* writable image: .data and the TLS template stay writable.               *)
OnlyTheGotIsSealed ==
    phase = "user" =>
      /\ {a \in DOMAIN memory : a \div Page \in sealed} \subseteq GotBase .. GotBase + GotSize - 1
      /\ \A k \in 0 .. GotUsed - 1 : (GotBase + k) \div Page \in sealed

(* mini-elf-dynrelr reads DT_RELR in its own way, bit after bit of each    *)
(* bitmap, and lists what it finds.                                        *)
BitsFound(slots, base) ==
    LET found[bit \in 0 .. BitmapSlots] ==
          IF bit = 0 THEN <<>>
          ELSE IF bit - 1 \in slots THEN Append(found[bit - 1], base + Word * (bit - 1))
          ELSE found[bit - 1]
    IN found[BitmapSlots]
InspectorStep(state, entry) ==
    IF entry.kind = "direct"
    THEN [found |-> Append(state.found, entry.at), cursor |-> entry.at + Word]
    ELSE [found |-> state.found \o BitsFound(entry.slots, state.cursor),
          cursor |-> state.cursor + BitmapSlots * Word]
Inspected(table) ==
    LET decoded[index \in 0 .. Len(table)] ==
          IF index = 0 THEN [found |-> <<>>, cursor |-> 0]
          ELSE InspectorStep(decoded[index - 1], table[index])
    IN decoded[Len(table)].found

(* The inspector lists the RELATIVE targets of a packed link, in address   *)
(* order, each once.                                                       *)
InspectorListsTargets ==
    (phase \in {"layout", "relr"} /\ link.packed) =>
      Inspected(relr) = [k \in DOMAIN relative |-> relative[k].at]
=============================================================================
