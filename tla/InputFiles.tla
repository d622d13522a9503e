----------------------------- MODULE InputFiles -----------------------------
(***************************************************************************)
(* The files a link reads, as far as the choice of the objects to link     *)
(* looks into them: relocatable objects with their non-local symbols, and  *)
(* `ar' archives with their ordinary members and their symbol index.       *)
(* A unit is one relocatable object, whether it is a file of its own or a  *)
(* member of an archive.                                                   *)
(***************************************************************************)
EXTENDS Naturals, Sequences, FiniteSets, Functions

CONSTANTS
    Paths,     \* the files that can be named on the command line
    Names,     \* symbol names
    Units,     \* relocatable objects
    BadUnits,  \* the units RelocatableObject::parse rejects
    Symbols,   \* Symbols[u]: the named symbols of u's symbol tables
    Content    \* Content[p]: what the file p holds

Bindings == {"local", "global", "weak", "unique"}
Symbol   == [name : Names, bind : Bindings, undef : BOOLEAN]

(* An archive that fails to parse, one whose symbol index fails to parse   *)
(* and one without an index are kinds of their own, because the code meets *)
(* them at different points.                                               *)
Kinds == {"object", "archive", "unindexed", "badindex", "badarchive",
          "unreadable"}

FileImage ==
    [kind    : Kinds,
     members : Seq(Units),                           \* ordinary members only
     index   : Seq([name : Names, member : Nat \ {0}])]

ASSUME FilesAssumption ==
    /\ BadUnits \subseteq Units
    /\ Symbols \in [Units -> SUBSET Symbol]
    /\ \A p \in Paths : /\ Content[p].kind \in Kinds
                        /\ Content[p].members \in Seq(Units)

(* parse_archive_symbol_index accepts an entry only when its offset is the *)
(* header offset of an ordinary member of the same archive.                *)
ASSUME IndexAssumption ==
    \A p \in Paths : \A i \in DOMAIN Content[p].index :
        /\ Content[p].index[i].name \in Names
        /\ Content[p].index[i].member \in DOMAIN Content[p].members

ASSUME ObjectAssumption ==
    \A p \in Paths : Content[p].kind = "object" => Len(Content[p].members) = 1

-----------------------------------------------------------------------------
(* file.starts_with(ARCHIVE_MAGIC)                                         *)
HasArchiveMagic(p) ==
    Content[p].kind \in {"archive", "unindexed", "badindex", "badarchive"}

(* STB_GLOBAL and STB_WEAK definitions, SHN_COMMON and SHN_ABS included.   *)
Defs(u) == {s.name : s \in {t \in Symbols[u] :
                              t.bind \in {"global", "weak"} /\ ~t.undef}}

(* Only an STB_GLOBAL reference asks for a definition.                     *)
StrongUndefs(u) == {s.name : s \in {t \in Symbols[u] :
                                      t.bind = "global" /\ t.undef}}

UnsupportedBinding(u) ==
    \E s \in Symbols[u] : s.bind \notin {"local", "global", "weak"}

(* What ends the link when the object u is taken in, if anything does.     *)
Refused(u) == u \in BadUnits \/ UnsupportedBinding(u)
Refusal(u) == IF u \in BadUnits THEN "InvalidObject" ELSE "UnsupportedBinding"
=============================================================================
