---------------------------- MODULE PartialSections ---------------------------
(***************************************************************************)
(* The sections of a partial link: one COMDAT group is kept per signature, *)
(* sections are placed in output sections, then the symbol table is built  *)
(* (PartialSymbols, which is told what became of the sections), and the    *)
(* relocation tables and groups are rewritten in terms of the output.      *)
(***************************************************************************)
EXTENDS PartialSymbols, SequencesExt

CONSTANTS
    SectionNames,
    Inputs,         \* the sequences of objects that may be linked
    CanonicalNames, \* the names of .text, .rodata, .data and .bss
    Limit           \* sizes and offsets are below it (2^64)

(* align is a power of two (the parser saw to it); link and info are       *)
(* section numbers of the object, 0 for none.  flagged is SHF_GROUP, order *)
(* SHF_LINK_ORDER, strings the merge-string slice (SHF_MERGE|SHF_STRINGS,  *)
(* one-byte records and alignment), flags what else a section must share.  *)
Section == [name : SectionNames, kind : {"progbits", "nobits", "rela", "group", "other"},
            alloc : BOOLEAN, flagged : BOOLEAN, order : BOOLEAN, strings : BOOLEAN,
            flags : {"r", "rw"}, size : Nat, align : Nat \ {0}, link : Nat, info : Nat,
            relocs : Seq([offset : Nat, symbol : Nat]),
            members : Seq(Nat), signature : Nat, comdat : BOOLEAN]
Object == [sections : Seq(Section), symbols : Seq([symbol : Candidate, section : Nat])]

ASSUME InputsAssumption == \A objs \in Inputs : objs \in Seq(Object)
ASSUME LimitAssumption == Limit \in Nat /\ CanonicalNames \subseteq SectionNames

VARIABLES
    objects,    \* the objects linked
    phase,      \* which loop of the link runs
    at,         \* where in its list it is
    selected,   \* the groups kept
    discarded,  \* the members of the groups that are not
    outputs,    \* the output sections
    placed,     \* where each placed section went
    slots,      \* the output sections others may join, by what must agree
    tables,     \* the relocation tables of the output, before they are sections
    tableOf     \* the output section each surviving table ended in

sectionVars == <<objects, phase, at, selected, discarded, outputs, placed, slots,
                 tables, tableOf>>

(* Sections by object and number, in the order every loop visits them.     *)
All == FlattenSeq([o \in DOMAIN objects |->
                     [i \in DOMAIN objects[o].sections |-> <<o, i>>]])
At(x) == objects[x[1]].sections[x[2]]

(* The symbols of all objects in one sequence, as PartialSymbols has them. *)
SymbolsOf(objs) == FlattenSeq([o \in DOMAIN objs |->
                     [k \in DOMAIN objs[o].symbols |-> objs[o].symbols[k].symbol]])
HomesOf(objs)   == FlattenSeq([o \in DOMAIN objs |->
                     [k \in DOMAIN objs[o].symbols |-> <<o, objs[o].symbols[k].section>>]])
Number(o, k) == Len(SymbolsOf(SubSeq(objects, 1, o - 1))) + k

BeginSections(objs) ==
    /\ objects = objs
    /\ phase = "groups" /\ at = 1
    /\ selected = {} /\ discarded = {}
    /\ outputs = <<>> /\ placed = <<>> /\ slots = <<>>
    /\ tables = <<>> /\ tableOf = <<>>
    /\ BeginPartial(SymbolsOf(objs), [i \in DOMAIN SymbolsOf(objs) |-> {}], <<>>)

Reject(why) == Refuse(why) /\ UNCHANGED sectionVars

In(p, list) == phase = p /\ stage # "refused" /\ at <= Len(list)
Past(p, list) == phase = p /\ stage # "refused" /\ at > Len(list)
Go(p) ==
    /\ phase' = p /\ at' = 1
    /\ UNCHANGED <<objects, selected, discarded, outputs, placed, slots, tables, tableOf>>

-----------------------------------------------------------------------------
(* The groups of one object.                                               *)
IsGroup(x) == At(x).kind = "group"
MembersOf(x) == {<<x[1], At(x).members[j]>> : j \in DOMAIN At(x).members}
GroupsIn(o) == {x \in {<<o, i>> : i \in DOMAIN objects[o].sections} : IsGroup(x)}
Grouped(x) == \E g \in GroupsIn(x[1]) : x \in MembersOf(g)

GroupRefusals == {"UnsupportedGroupFlags", "GroupMemberMissingFlag", "DuplicateGroupMember",
                  "UnsupportedNonAllocGroupMember", "UnsupportedGroupedLinkOrderSection",
                  "UnsupportedGroupedNonAllocSectionMetadata",
                  "GroupedRelaTargetOutsideGroup", "OrphanGroupedNonAllocSection"}
PlainMember(x) == ~At(x).alloc /\ At(x).kind # "rela"
Faulty(o, why) ==
    LET groups == GroupsIn(o)
        some(P(_)) == \E g \in groups : \E x \in MembersOf(g) : P(x)
    IN CASE why = "UnsupportedGroupFlags" -> \E g \in groups : ~At(g).comdat
         [] why = "GroupMemberMissingFlag" -> some(LAMBDA x : ~At(x).flagged)
         [] why = "DuplicateGroupMember" ->
              \/ \E g \in groups : Cardinality(MembersOf(g)) # Len(At(g).members)
              \/ \E g, h \in groups : g # h /\ MembersOf(g) \cap MembersOf(h) # {}
         [] why = "UnsupportedNonAllocGroupMember" ->
              some(LAMBDA x : PlainMember(x) /\ At(x).kind # "progbits")
         [] why = "UnsupportedGroupedLinkOrderSection" ->
              some(LAMBDA x : PlainMember(x) /\ At(x).order)
         [] why = "UnsupportedGroupedNonAllocSectionMetadata" ->
              some(LAMBDA x : PlainMember(x) /\ (At(x).link # 0 \/ At(x).info # 0))
         [] why = "GroupedRelaTargetOutsideGroup" ->
              \E g \in groups : \E x \in MembersOf(g) :
                 At(x).kind = "rela" /\ <<o, At(x).info>> \notin MembersOf(g)
         [] why = "OrphanGroupedNonAllocSection" ->
              \E i \in DOMAIN objects[o].sections : LET x == <<o, i>> IN
                 At(x).flagged /\ ~At(x).alloc /\ ~Grouped(x)

(* Which of several faults is reported is left open.                       *)
RefuseGroups ==
    /\ In("groups", objects)
    /\ \E why \in GroupRefusals : Faulty(at, why) /\ Reject(why)
ParseGroups ==
    /\ In("groups", objects)
    /\ \A why \in GroupRefusals : ~Faulty(at, why)
    /\ at' = at + 1
    /\ UNCHANGED <<objects, phase, selected, discarded, outputs, placed, slots, tables,
                   tableOf, partialVars>>

(* The first group of a signature name is kept, in whatever object; of the *)
(* later ones nothing is.                                                  *)
Groups == SelectSeq(All, IsGroup)
SignatureOf(x) == objects[x[1]].symbols[At(x).signature].symbol.name

SelectGroup ==
    /\ In("select", Groups)
    /\ LET g == Groups[at] IN
       IF SignatureOf(g) = NoName THEN Reject("EmptyGroupSignatureName")
       ELSE /\ IF \E h \in selected : SignatureOf(h) = SignatureOf(g)
               THEN discarded' = discarded \cup MembersOf(g) /\ UNCHANGED selected
               ELSE selected' = selected \cup {g} /\ UNCHANGED discarded
            /\ at' = at + 1
            /\ UNCHANGED <<objects, phase, outputs, placed, slots, tables, tableOf,
                           partialVars>>

-----------------------------------------------------------------------------
(* Placing sections.  The bytes of an output section are known by where    *)
(* they come from; the padding between two contributions comes from none.  *)
Gap == <<"gap">>
BytesOf(x) == IF At(x).kind = "nobits" THEN <<>> ELSE [b \in 1 .. At(x).size |-> <<x, b - 1>>]
Blank == [name |-> "", kind |-> "table", flagged |-> FALSE, align |-> 1, size |-> 0,
          bytes |-> <<>>, link |-> 0, info |-> 0, entries |-> <<>>, members |-> <<>>]

(* What two sections must agree on to share an output section; the target  *)
(* is that of a link-order section, 0 for others.                          *)
Key(x, target) == LET s == At(x) IN
    <<s.name, s.kind, s.flags, s.flagged, s.order, s.strings, target>>
CoalescesByName(x) == At(x).name \in CanonicalNames \/ At(x).strings
Coalesces(x) == CoalescesByName(x) /\ ~Grouped(x)

AlignUp(v, a) == ((v + a - 1) \div a) * a
StartUnaligned(out, a) == out.size
Start(out, a) == AlignUp(out.size, a)

Put(x, out, offset) == [y \in DOMAIN placed \cup {x} |->
    IF y = x THEN [out |-> out, offset |-> offset] ELSE placed[y]]
Placed(x, out, offset, outs) ==
    /\ outputs' = outs
    /\ placed' = Put(x, out, offset)
    /\ at' = at + 1
    /\ UNCHANGED <<objects, phase, selected, discarded, tables, tableOf, partialVars>>

(* A section joins the output section its key has, or becomes a new one.   *)
AppendTo(k, x) ==
    LET s == At(x)
        start == Start(outputs[k], s.align)
        gap == [b \in 1 .. start - Len(outputs[k].bytes) |-> Gap]
    IN IF outputs[k].size + s.align - 1 >= Limit \/ start + s.size >= Limit
       THEN Reject("SectionContributionOverflow")
       ELSE /\ Placed(x, k, start,
                      [outputs EXCEPT ![k].size = start + s.size,
                                      ![k].align = Larger(@, s.align),
                                      ![k].bytes = IF s.kind = "nobits" THEN @
                                                   ELSE @ \o gap \o BytesOf(x)])
            /\ UNCHANGED slots
Push(x, key, shared, link) ==
    LET s == At(x) IN
    /\ Placed(x, Len(outputs) + 1, 0,
              Append(outputs, [Blank EXCEPT !.name = s.name, !.kind = s.kind,
                                            !.flagged = s.flagged, !.align = s.align,
                                            !.size = s.size, !.bytes = BytesOf(x),
                                            !.link = link]))
    /\ slots' = IF shared THEN [k \in DOMAIN slots \cup {key} |->
                                  IF k = key THEN Len(outputs) + 1 ELSE slots[k]]
                ELSE slots
Place(x, key, shared, link) ==
    IF shared /\ key \in DOMAIN slots THEN AppendTo(slots[key], x)
    ELSE Push(x, key, shared, link)

Ordinary == SelectSeq(All, LAMBDA x : At(x).alloc /\ ~At(x).order /\ x \notin discarded)
PlaceOrdinary ==
    /\ In("ordinary", Ordinary)
    /\ LET x == Ordinary[at] IN
       IF At(x).flagged /\ ~Grouped(x) THEN Reject("UnsupportedGroupedAllocSection")
       ELSE IF At(x).link # 0 \/ At(x).info # 0 THEN Reject("UnsupportedAllocSectionMetadata")
       ELSE Place(x, Key(x, 0), Coalesces(x), 0)

(* A link-order section follows the output section of its target.          *)
Ordered == SelectSeq(All, LAMBDA x : At(x).alloc /\ At(x).order /\ x \notin discarded)
LinkOrderRefusal(x) ==
    LET s == At(x)
        target == <<x[1], s.link>>
    IN IF s.kind # "progbits" THEN "UnsupportedLinkOrderSectionType"
       ELSE IF s.info # 0 THEN "InvalidLinkOrderInfo"
       ELSE IF s.flagged \/ Grouped(x) THEN "UnsupportedGroupedLinkOrderSection"
       ELSE IF s.link \notin DOMAIN objects[x[1]].sections THEN "InvalidLinkOrderTarget"
       ELSE IF ~At(target).alloc THEN "LinkOrderTargetNotAllocatable"
       ELSE IF At(target).order THEN "LinkOrderTargetIsLinkOrder"
       ELSE IF At(target).flagged \/ Grouped(target) THEN "LinkOrderTargetGrouped"
       ELSE IF target \notin DOMAIN placed THEN "MissingLinkOrderTargetOutput"
       ELSE "none"
PlaceOrdered ==
    /\ In("ordered", Ordered)
    /\ LET x == Ordered[at] IN
       IF LinkOrderRefusal(x) # "none" THEN Reject(LinkOrderRefusal(x))
       ELSE LET target == placed[<<x[1], At(x).link>>].out
            IN Place(x, Key(x, target), TRUE, target)

(* What a kept group holds beside allocated sections and relocations.      *)
Companions == SelectSeq(All, LAMBDA x : PlainMember(x) /\ Grouped(x) /\ x \notin discarded)
PlaceCompanion ==
    /\ In("companions", Companions)
    /\ Push(Companions[at], <<>>, FALSE, 0)

-----------------------------------------------------------------------------
(* The symbols, with what became of the sections they are defined in and   *)
(* whether a relocation that survives refers to them.                      *)
RelaTables == SelectSeq(All, LAMBDA x : At(x).kind = "rela" /\ x \notin discarded)
SymbolsNamed(x) == {At(x).relocs[r].symbol : r \in DOMAIN At(x).relocs} \ {0}
Needed == UNION {{Number(x[1], n) : n \in SymbolsNamed(x)} : x \in ToSet(RelaTables)}
HomeOf(i) == HomesOf(objects)[i]
MarksFound == [i \in DOMAIN input |->
    {m \in {"discarded", "needed", "unplaced"} :
        \/ m = "needed" /\ i \in Needed
        \/ /\ input[i].place = "section"
           /\ \/ m = "discarded" /\ HomeOf(i) \in discarded
              \/ m = "unplaced" /\ HomeOf(i) \notin DOMAIN placed \cup discarded}]

LookUpSymbols ==
    /\ Past("companions", Companions)
    /\ marks' = MarksFound
    /\ phase' = "symbols" /\ at' = 1
    /\ UNCHANGED <<objects, selected, discarded, outputs, placed, slots, tables, tableOf,
                   input, forced, pos, locals, pending, canonical, stage, reason>>

BuildSymbols == phase = "symbols" /\ PartialNext /\ UNCHANGED sectionVars

(* The string and symbol tables become output sections.                    *)
EndSymbols ==
    /\ phase = "symbols" /\ stage = "emitted"
    /\ phase' = "tables" /\ at' = 1
    /\ outputs' = outputs \o <<Blank, Blank>>
    /\ UNCHANGED <<objects, selected, discarded, placed, slots, tables, tableOf, partialVars>>

(* The output symbol of an input symbol, and where a definition is; number *)
(* 0 is the null symbol of both tables.                                    *)
OutputOf(i) == {k \in DOMAIN locals : locals[k] = i}
                 \cup {Len(locals) + k : k \in {j \in DOMAIN canonical : i \in canonical[j].sources}}
SymbolOut(o, n) == IF n = 0 THEN {0} ELSE OutputOf(Number(o, n))
ValueOf(i) == placed[HomeOf(i)].offset + input[i].value

(* Tables of the same name for one output section become one.              *)
TableKey(x, out) == <<out, At(x).name, At(x).flagged, At(x).align>>
Rebased(x, where) == [r \in DOMAIN At(x).relocs |->
    [offset |-> where.offset + At(x).relocs[r].offset,
     symbol |-> CHOOSE k \in SymbolOut(x[1], At(x).relocs[r].symbol) : TRUE]]
JoinTables(x, where) ==
    LET key == TableKey(x, where.out)
        same == {t \in DOMAIN tables : tables[t].key = key}
    IN IF same = {} THEN Append(tables, [key |-> key, entries |-> Rebased(x, where),
                                         sources |-> {x}])
       ELSE [t \in DOMAIN tables |-> IF t \notin same THEN tables[t] ELSE
               [tables[t] EXCEPT !.entries = @ \o Rebased(x, where), !.sources = @ \cup {x}]]

RewriteTable ==
    /\ In("tables", RelaTables)
    /\ LET x == RelaTables[at]
           target == <<x[1], At(x).info>>
       IN IF target \notin DOMAIN placed THEN Reject("UnsupportedRelocationTarget")
          ELSE IF \E r \in DOMAIN At(x).relocs : SymbolOut(x[1], At(x).relocs[r].symbol) = {}
          THEN Reject("MissingRelocationSymbol")
          ELSE /\ tables' = JoinTables(x, placed[target])
               /\ at' = at + 1
               /\ UNCHANGED <<objects, phase, selected, discarded, outputs, placed, slots,
                              tableOf, partialVars>>

EmitTables ==
    /\ Past("tables", RelaTables)
    /\ outputs' = outputs \o [t \in DOMAIN tables |->
         [Blank EXCEPT !.name = tables[t].key[2], !.kind = "rela",
                       !.flagged = tables[t].key[3], !.info = tables[t].key[1],
                       !.entries = tables[t].entries]]
    /\ tableOf' = [x \in UNION {tables[t].sources : t \in DOMAIN tables} |->
         Len(outputs) + CHOOSE t \in DOMAIN tables : x \in tables[t].sources]
    /\ phase' = "emit" /\ at' = 1
    /\ UNCHANGED <<objects, selected, discarded, placed, slots, tables, partialVars>>

KeptGroups == SelectSeq(Groups, LAMBDA g : g \in selected)
EmitGroup ==
    /\ In("emit", KeptGroups)
    /\ LET g == KeptGroups[at]
           signature == SymbolOut(g[1], At(g).signature)
           member(j) == LET x == <<g[1], At(g).members[j]>> IN
                        IF At(x).kind = "rela" THEN tableOf[x] ELSE placed[x].out
       IN IF signature = {} THEN Reject("MissingGroupSignatureOutput")
          ELSE /\ outputs' = Append(outputs,
                    [Blank EXCEPT !.name = At(g).name, !.kind = "group",
                                  !.info = CHOOSE k \in signature : TRUE,
                                  !.members = [j \in DOMAIN At(g).members |-> member(j)]])
               /\ at' = at + 1
               /\ UNCHANGED <<objects, phase, selected, discarded, placed, slots, tables,
                              tableOf, partialVars>>

-----------------------------------------------------------------------------
NextLoop ==
    \/ Past("groups", objects) /\ Go("select") /\ UNCHANGED partialVars
    \/ Past("select", Groups) /\ Go("ordinary") /\ UNCHANGED partialVars
    \/ Past("ordinary", Ordinary) /\ Go("ordered") /\ UNCHANGED partialVars
    \/ Past("ordered", Ordered) /\ Go("companions") /\ UNCHANGED partialVars
    \/ Past("emit", KeptGroups) /\ Go("done") /\ UNCHANGED partialVars

SectionsInit == \E objs \in Inputs : BeginSections(objs)
SectionsNext ==
    \/ RefuseGroups \/ ParseGroups \/ SelectGroup
    \/ PlaceOrdinary \/ PlaceOrdered \/ PlaceCompanion
    \/ LookUpSymbols \/ BuildSymbols \/ EndSymbols
    \/ RewriteTable \/ EmitTables \/ EmitGroup \/ NextLoop
SectionsSettled ==
    /\ phase = "done" \/ stage = "refused"
    /\ UNCHANGED <<sectionVars, partialVars>>
SectionsSpec == SectionsInit /\ [][SectionsNext \/ SectionsSettled]_<<sectionVars, partialVars>>
-----------------------------------------------------------------------------
(* Every byte keeps what the objects said of it.  A placed section's bytes *)
(* are in its output section where its placement says, aligned as it asked *)
(* and shared with no other section, memory-only ones included; the        *)
(* relocations written are those of the surviving tables, each for the     *)
(* byte and the symbol it was for; and a defined symbol still means its    *)
(* byte.  Several contributions, their padding and merged tables separate  *)
(* the two ends of each.                                                   *)
Span(x)  == placed[x].offset .. placed[x].offset + At(x).size - 1
ByteAt(out, offset) == outputs[out].bytes[offset + 1]
Written == {<<ByteAt(outputs[t].info, e.offset), e.symbol>> :
              <<t, e>> \in UNION {{t} \X ToSet(outputs[t].entries) : t \in DOMAIN outputs}}
Asked == UNION {UNION {
    {<<<<<<x[1], At(x).info>>, At(x).relocs[r].offset>>, k>> :
        k \in SymbolOut(x[1], At(x).relocs[r].symbol)} :
    r \in DOMAIN At(x).relocs} : x \in ToSet(RelaTables)}
BytesKeepTheirMeaning ==
    phase = "done" =>
      /\ \A x \in DOMAIN placed :
           LET out == outputs[placed[x].out] IN
           /\ placed[x].offset % At(x).align = 0 /\ out.align % At(x).align = 0
           /\ placed[x].offset + At(x).size <= out.size
           /\ out.kind = At(x).kind /\ out.flagged = At(x).flagged
           /\ At(x).kind # "nobits" =>
                \A b \in 0 .. At(x).size - 1 :
                   ByteAt(placed[x].out, placed[x].offset + b) = <<x, b>>
           /\ \A y \in DOMAIN placed \ {x} :
                placed[x].out = placed[y].out => Span(x) \cap Span(y) = {}
      /\ Written = Asked
      /\ \A i \in DOMAIN input : \A k \in OutputOf(i) :
           LET from == Origins[k] IN
           /\ Emitted[k].name = input[i].name
           /\ from # 0 /\ Emitted[k].place = "section" =>
                /\ HomeOf(from) \in DOMAIN placed
                /\ At(HomeOf(from)).kind # "nobits" /\ input[from].value < At(HomeOf(from)).size
                     => ByteAt(placed[HomeOf(from)].out, ValueOf(from))
                          = <<HomeOf(from), input[from].value>>

(* The output has one group per signature name: the first object's, whole, *)
(* made of sections of its own.  Nothing of a later group is left, not     *)
(* even as part of another section, and no section claims to be in a group *)
(* that does not list it.                                                  *)
GroupsStayWhole ==
    phase = "done" =>
      LET emitted == {k \in DOMAIN outputs : outputs[k].kind = "group"}
          members(k) == ToSet(outputs[k].members)
          came(k) == {x \in DOMAIN placed : placed[x].out = k}
                       \cup {x \in DOMAIN tableOf : tableOf[x] = k}
          named(k) == Emitted[outputs[k].info].name
      IN /\ \A g \in ToSet(Groups) :
              Cardinality({k \in emitted : named(k) = SignatureOf(g)}) = 1
         /\ \A k \in emitted : \E i \in DOMAIN Groups :
              /\ SignatureOf(Groups[i]) = named(k)
              /\ \A j \in 1 .. i - 1 : SignatureOf(Groups[j]) # named(k)
              /\ UNION {came(m) : m \in members(k)} = MembersOf(Groups[i])
              /\ \A m \in members(k) : came(m) # {} /\ outputs[m].flagged
         /\ \A m \in DOMAIN outputs :
              outputs[m].flagged <=> \E k \in emitted : m \in members(k)
         /\ \A j, k \in emitted : j # k => members(j) \cap members(k) = {}
=============================================================================
