---------------------------- MODULE PartialSymbols ----------------------------
(***************************************************************************)
(* The symbol table of a partial link.  The symbols of the inputs are      *)
(* collected (link_relocatable_objects_with_forced_undefined), forced      *)
(* names that no input mentions are added as references, and the non-local *)
(* symbols are merged to one per name (canonicalize_nonlocal_symbols).     *)
(* Sections keep their identity here: a definition is known by the symbol  *)
(* it comes from.                                                          *)
(***************************************************************************)
EXTENDS SymbolCandidates

CONSTANTS
    ForcedLists,  \* the lists of names -u may force
    MarkSets      \* what may be found out about a symbol, a subset of Marks each

ASSUME ForcedListsAssumption == \A f \in ForcedLists : f \in Seq(Names \cup {NoName})

VARIABLES
    input,      \* the symbols of the inputs, in order
    marks,      \* what else the link has found out about each of them
    forced,     \* the names -u forces, in command-line order
    pos,        \* the symbol collected or merged next
    locals,     \* the local symbols kept, by their place in input
    pending,    \* the non-local symbols, with the symbol they come from
    canonical,  \* one symbol per name, with the symbols it stands for
    stage,      \* "collect", "force", "merge", "emitted" or "refused"
    reason

partialVars == <<input, marks, forced, pos, locals, pending, canonical, stage, reason>>

(* discarded: defined in a section of a COMDAT group that lost; needed: a   *)
(* surviving relocation refers to it; the others are grounds for refusal:  *)
(* non-default visibility, SHN_XINDEX, a section that is not in the output.*)
Marks == {"discarded", "needed", "nondefault", "xindex", "unplaced"}

ASSUME MarkSetsAssumption == MarkSets \subseteq SUBSET Marks

(* source is the place in input, 0 for a forced name.                      *)
Pending   == [symbol : Candidate, source : Nat]
Canonical == [symbol : Candidate, source : Nat, sources : SUBSET Nat]

BeginPartial(symbols, notes, names) ==
    /\ input = symbols
    /\ marks = notes
    /\ forced = names
    /\ pos = 1
    /\ locals = <<>> /\ pending = <<>> /\ canonical = <<>>
    /\ stage = "collect"
    /\ reason = "none"

RefuseAndGoOn(why) ==
    /\ reason' = why
    /\ pos' = pos + 1
    /\ UNCHANGED <<input, marks, forced, locals, pending, canonical, stage>>
Refuse(why) ==
    /\ stage' = "refused" /\ reason' = why
    /\ UNCHANGED <<input, marks, forced, pos, locals, pending, canonical>>

Collecting == stage = "collect" /\ pos \in DOMAIN input

Input      == input[pos]
Has(mark)  == mark \in marks[pos]
Reference(n, b) == [name |-> n, bind |-> b, place |-> "undef", size |-> 0, value |-> 0]

(* A definition of a discarded section is dropped, or kept as a reference  *)
(* if it is global or weak and still needed.                               *)
Lost(i) == input[i].place = "section" /\ "discarded" \in marks[i] /\ "xindex" \notin marks[i]

KeptDefinition     == Input
DefinitionIfPlaced == IF Lost(pos) THEN Reference(Input.name, Input.bind) ELSE Input
Kept    == DefinitionIfPlaced
Dropped == Lost(pos) /\ (Input.bind = "local" \/ ~Has("needed"))

Grounds ==
    IF Input.bind = "unique" THEN "UnsupportedSymbolBinding"
    ELSE IF Dropped THEN "none"
    ELSE IF Nonlocal(Input) /\ Has("nondefault") THEN "UnsupportedNondefaultSymbolVisibility"
    ELSE IF Has("xindex") THEN "UnsupportedExtendedSymbolSectionIndex"
    ELSE IF Kept.place = "section" /\ Has("unplaced") THEN "UnsupportedSymbolSection"
    ELSE "none"

RefuseSymbol == Collecting /\ Grounds # "none" /\ Refuse(Grounds)

CollectSymbol ==
    /\ Collecting /\ Grounds = "none"
    /\ pos' = pos + 1
    /\ locals' = IF Input.bind = "local" /\ ~Dropped THEN Append(locals, pos) ELSE locals
    /\ pending' = IF Nonlocal(Input) /\ ~Dropped
                  THEN Append(pending, [symbol |-> Kept, source |-> pos]) ELSE pending
    /\ UNCHANGED <<input, marks, forced, canonical, stage, reason>>

EndCollect ==
    /\ stage = "collect" /\ pos > Len(input)
    /\ stage' = "force" /\ pos' = 1
    /\ UNCHANGED <<input, marks, forced, locals, pending, canonical, reason>>

(* A forced name that no symbol collected has becomes a strong reference,  *)
(* once for every time it is forced.                                       *)
Real(p)   == p.source # 0
Mentioned == {pending[k].symbol.name : k \in {j \in DOMAIN pending : Real(pending[j])}}

ForceName ==
    /\ stage = "force" /\ pos \in DOMAIN forced
    /\ IF forced[pos] = NoName THEN Refuse("EmptyForcedUndefinedSymbol")
       ELSE /\ pending' = IF forced[pos] \in Mentioned THEN pending
                          ELSE Append(pending, [symbol |-> Reference(forced[pos], "global"),
                                                   source |-> 0])
            /\ pos' = pos + 1
            /\ UNCHANGED <<input, marks, forced, locals, canonical, stage, reason>>

EndForce ==
    /\ stage = "force" /\ pos > Len(forced)
    /\ stage' = "merge" /\ pos' = 1
    /\ UNCHANGED <<input, marks, forced, locals, pending, canonical, reason>>

-----------------------------------------------------------------------------
Merging == stage = "merge" /\ pos \in DOMAIN pending
Symbol  == pending[pos].symbol
Source  == pending[pos].source
Sources == IF Source = 0 THEN {} ELSE {Source}

Homes == {k \in DOMAIN canonical : canonical[k].symbol.name = Symbol.name}
Home  == CHOOSE k \in Homes : TRUE
Held  == canonical[Home].symbol

Merge(entries) ==
    /\ canonical' = entries
    /\ pos' = pos + 1
    /\ UNCHANGED <<input, marks, forced, locals, pending, stage, reason>>

RefuseCommon ==
    /\ Merging /\ Refused(Symbol)
    /\ Refuse(IF Symbol.bind # "global" THEN "UnsupportedCommonBinding"
              ELSE "InvalidCommonAlignment")

(* A nameless symbol always gets an entry of its own.                      *)
EnterSymbol ==
    /\ Merging /\ ~Refused(Symbol)
    /\ Symbol.name = NoName \/ Homes = {}
    /\ Merge(Append(canonical, [symbol |-> Symbol, source |-> Source, sources |-> Sources]))

SameName == Merging /\ ~Refused(Symbol) /\ Symbol.name # NoName /\ Homes # {}

TwoStrong(old, new) ==
    /\ old.place = "section" /\ new.place = "section"
    /\ old.bind = "global" /\ new.bind = "global"

(* The new symbol becomes the name's symbol.                               *)
ReplacesUnlessWeak(old, new) ==
    \/ old.place = "undef" /\ new.place # "undef"
    \/ old.place = "common" /\ new.place = "section" /\ new.bind = "global"
    \/ old.place = "section" /\ old.bind = "weak" /\ new.place = "common"
    \/ old.place = "section" /\ new.place = "section"
         /\ old.bind = "weak" /\ new.bind = "global"
Replaces(old, new) ==
    \/ old.place = "undef" /\ new.place = "undef" /\ old.bind = "weak" /\ new.bind = "global"
    \/ old.place = "undef" /\ new.place # "undef"
    \/ old.place = "common" /\ new.place = "section" /\ new.bind = "global"
    \/ old.place = "section" /\ old.bind = "weak" /\ new.place = "common"
    \/ old.place = "section" /\ new.place = "section"
         /\ old.bind = "weak" /\ new.bind = "global"

(* What the name's symbol becomes, and the symbol it is taken from.        *)
MergedSymbol(old, new) ==
    IF old.place = "common" /\ new.place = "common"
    THEN [old EXCEPT !.size = Larger(@, new.size), !.value = Larger(@, new.value)]
    ELSE IF Replaces(old, new) THEN new ELSE old

SourcesOfBoth(entry, won) == entry.sources \cup Sources

MergeName ==
    /\ SameName /\ ~TwoStrong(Held, Symbol)
    /\ Merge([canonical EXCEPT ![Home] =
                [symbol  |-> MergedSymbol(Held, Symbol),
                 source  |-> IF Replaces(Held, Symbol) THEN Source ELSE @.source,
                 sources |-> SourcesOfBoth(@, Replaces(Held, Symbol))]])

MergeConflict ==
    /\ SameName /\ TwoStrong(Held, Symbol)
    /\ Refuse("MultipleStrongDefinitions")

EndMerge ==
    /\ stage = "merge" /\ pos > Len(pending)
    /\ stage' = "emitted"
    /\ UNCHANGED <<input, marks, forced, pos, locals, pending, canonical, reason>>

PartialNext ==
    \/ RefuseSymbol \/ CollectSymbol \/ EndCollect \/ ForceName \/ EndForce
    \/ RefuseCommon \/ EnterSymbol \/ MergeName \/ MergeConflict \/ EndMerge

(* The symbol table written: the locals, then one symbol per name; and the *)
(* input symbol each of them comes from.                                   *)
Emitted == [k \in DOMAIN locals |-> input[locals[k]]]
             \o [k \in DOMAIN canonical |-> canonical[k].symbol]
Origins == locals \o [k \in DOMAIN canonical |-> canonical[k].source]

-----------------------------------------------------------------------------
(* Every input symbol that is collected has exactly one output symbol for  *)
(* its relocations (symbol_maps), of its own name, and defined if the      *)
(* input symbol is.  A discarded one is only there for a relocation, and   *)
(* never as a definition.                                                  *)
EverySymbolIsMapped ==
    stage = "emitted" =>
      \A i \in DOMAIN input :
        LET targets == {k \in DOMAIN canonical : i \in canonical[k].sources}
        IN /\ Nonlocal(input[i]) /\ (Lost(i) => "needed" \in marks[i]) =>
                /\ Cardinality(targets) = 1
                /\ \A k \in targets :
                     /\ canonical[k].symbol.name = input[i].name
                     /\ Defines(input[i]) /\ ~Lost(i) => Defines(canonical[k].symbol)
           /\ \A k \in targets : Lost(i) =>
                /\ "needed" \in marks[i]
                /\ canonical[k].source = i => ~Defines(canonical[k].symbol)

(* The output has one global symbol per name, and its definition is the    *)
(* one that ranks highest among those of the surviving sections: strong,   *)
(* then common, then the first weak one.                                   *)
OutputIsOfHighestRank ==
    stage = "emitted" =>
      \A j, k \in DOMAIN canonical : canonical[k].symbol.name # NoName =>
        LET n == canonical[k].symbol.name
            of(p, b) == {i \in DOMAIN input :
                           /\ input[i].name = n /\ input[i].place = p /\ input[i].bind = b
                           /\ ~Lost(i)}
            strong == of("section", "global")
            common == of("common", "global")
            weak   == of("section", "weak")
        IN /\ canonical[j].symbol.name = n => j = k
           /\ Cardinality(strong) <= 1
           /\ strong # {} => canonical[k].source \in strong
           /\ strong = {} /\ common # {} => /\ canonical[k].symbol.place = "common"
                                           /\ canonical[k].source \in common
           /\ strong = {} /\ common = {} /\ weak # {} =>
                canonical[k].source \in weak /\ \A i \in weak : canonical[k].source <= i

(* A later link that reads the output in place of the inputs finds every   *)
(* symbol that their relocations name, under the definition they had.      *)
OutputStandsForInputs == EverySymbolIsMapped /\ OutputIsOfHighestRank
=============================================================================
