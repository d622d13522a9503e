---------------------------- MODULE PartialThenLink ---------------------------
(***************************************************************************)
(* The same objects linked in two ways: all of them at once, or the first  *)
(* of them through a partial link whose output takes their place.  Both    *)
(* ways settle the bindings with the resolver (SymbolResolution), but the  *)
(* partial link merges symbols by rules of its own (PartialSymbols).       *)
(***************************************************************************)
EXTENDS SymbolResolution, PartialSymbols

CONSTANT CutsOf(_)  \* how a sequence of symbols may be linked: a set of Cuts

(* A cut: how many symbols are partially linked, what is known about them, *)
(* the names -u forces on the partial link, and whether that link is taken *)
(* alone.  It must be if a symbol is marked (the link of all symbols would *)
(* have to know it too), or for what only a partial link refuses: a forced *)
(* name that is empty, and a malformed common that has no name.            *)
Cut == [first : Nat, marks : Seq(SUBSET Marks), forced : Seq(Names \cup {NoName}),
        alone : BOOLEAN]
Comparable(s, c) ==
    /\ \A i \in DOMAIN c.marks : c.marks[i] = {}
    /\ \A i \in DOMAIN c.forced : c.forced[i] # NoName
    /\ \A i \in 1 .. c.first : Nonlocal(s[i]) /\ s[i].name = NoName => ~Refused(s[i])

ASSUME CutsAssumption ==
    \A s \in Streams : \A c \in CutsOf(s) :
        /\ c \in Cut /\ c.first <= Len(s) /\ DOMAIN c.marks = 1 .. c.first
        /\ c.alone \/ Comparable(s, c)

VARIABLES
    rest,    \* the symbols of the objects that are not partially linked
    way,     \* "whole", "partial", "relink" or "compared"
    whole    \* how the link of all symbols at once ended

bothVars == <<resolveVars, partialVars, rest, way, whole>>

(* How a resolution ended: the names' definitions, and the names that a    *)
(* strong reference still asks for, which is what an archive is searched   *)
(* for and what a missing symbol is reported for.                          *)
Outcome == [phase : {"none", "done", "failed"}, definitions : SUBSET (Names \X Definition),
            wanted : SUBSET Names]
NoOutcome == [phase |-> "none", definitions |-> {}, wanted |-> {}]

(* A definition by the symbol of the whole link it comes from.             *)
Ended(origin) ==
    [phase |-> phase,
     definitions |-> IF phase = "failed" THEN {} ELSE
        {<<n, [definitions[n] EXCEPT !.source = IF @ = 0 THEN 0 ELSE origin[@]]>> :
            n \in DOMAIN definitions},
     wanted |-> IF phase = "failed" THEN {} ELSE
        {c.name : c \in {stream[i] : i \in {j \in DOMAIN stream :
            stream[j].bind = "global" /\ stream[j].place = "undef"}}} \ DOMAIN definitions]

BothInit ==
    \E s \in Streams : \E c \in CutsOf(s) :
      /\ Begin(s)
      /\ BeginPartial(SubSeq(s, 1, c.first), c.marks, c.forced)
      /\ rest = SubSeq(s, c.first + 1, Len(s))
      /\ way = IF c.alone THEN "partial" ELSE "whole"
      /\ whole = NoOutcome

LinkWhole == way = "whole" /\ ResolveNext /\ UNCHANGED <<partialVars, rest, way, whole>>
EndWhole ==
    /\ way = "whole" /\ phase \in {"done", "failed"}
    /\ whole' = Ended([i \in DOMAIN stream |-> i])
    /\ way' = "partial"
    /\ UNCHANGED <<resolveVars, partialVars, rest>>

LinkPart == way = "partial" /\ PartialNext /\ UNCHANGED <<resolveVars, rest, way, whole>>
Restart(symbols) ==
    /\ stream' = symbols
    /\ next' = 1 /\ definitions' = <<>>
    /\ placing' = 1 /\ commonSize' = 0 /\ commonAlign' = 1
    /\ phase' = "scan" /\ error' = "none"
EndPart ==
    /\ way = "partial"
    /\ \/ stage = "emitted" /\ whole # NoOutcome
         /\ way' = "relink" /\ Restart(Emitted \o rest)
       \/ /\ stage = "refused" \/ (stage = "emitted" /\ whole = NoOutcome)
          /\ way' = "compared" /\ UNCHANGED resolveVars
    /\ UNCHANGED <<partialVars, rest, whole>>

Relink == way = "relink" /\ ResolveNext /\ UNCHANGED <<partialVars, rest, way, whole>>
EndRelink ==
    /\ way = "relink" /\ phase \in {"done", "failed"}
    /\ way' = "compared"
    /\ UNCHANGED <<resolveVars, partialVars, rest, whole>>

BothNext == LinkWhole \/ EndWhole \/ LinkPart \/ EndPart \/ Relink \/ EndRelink
BothSettled == way = "compared" /\ UNCHANGED bothVars
BothSpec == BothInit /\ [][BothNext \/ BothSettled]_bothVars

-----------------------------------------------------------------------------
(* The symbols of the relink by their place in the whole link.             *)
Whence == Origins \o [i \in DOMAIN rest |-> Len(input) + i]

(* Names that -u forces and the partial link's inputs do not mention.      *)
ForcedAnew == {forced[i] : i \in DOMAIN forced}
                \ {c.name : c \in {input[i] : i \in {j \in DOMAIN input : Nonlocal(input[j])}}}

(* A partial link changes nothing: linking its output with the other       *)
(* objects fails exactly when linking everything at once does, binds every *)
(* name to the same definition or to a common of the same size and offset, *)
(* and asks for the same names, and for those -u forced.                   *)
PartialIsTransparent ==
    way = "compared" /\ whole # NoOutcome =>
      /\ whole.phase = "failed" <=> (stage = "refused" \/ phase = "failed")
      /\ whole.phase = "done" =>
           LET parted == Ended(Whence)
           IN /\ parted.definitions = whole.definitions
              /\ parted.wanted = whole.wanted \cup (ForcedAnew \ DOMAIN definitions)
=============================================================================
