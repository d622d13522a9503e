--------------------------- MODULE SymbolCandidates ---------------------------
(***************************************************************************)
(* The symbols of the inputs, as symbol resolution and partial linking     *)
(* look at them: a name, a binding, and whether the symbol is a reference, *)
(* a tentative (common) definition or a definition in a section.  The      *)
(* value of a common is its alignment.                                     *)
(***************************************************************************)
EXTENDS Naturals, Sequences, FiniteSets

CONSTANTS
    Names,    \* symbol names
    NoName,   \* the empty name
    Streams   \* the sequences of symbols that may be read

ASSUME NoNameAssumption == NoName \notin Names

Candidate == [name : Names \cup {NoName},
              bind : {"local", "global", "weak", "unique"},
              place : {"undef", "common", "section"},
              size : Nat, value : Nat]

ASSUME StreamsAssumption == \A s \in Streams : s \in Seq(Candidate)

(* A power of two has no odd divisor but 1.                                *)
PowerOfTwo(a) == a # 0 /\ \A d \in 1 .. a : (a % d = 0 /\ d % 2 = 1) => d = 1

Nonlocal(c) == c.bind \in {"global", "weak"}

(* The candidate defines its name, unless it is refused.                   *)
Defines(c) == Nonlocal(c) /\ c.name # NoName /\ c.place # "undef"

Larger(a, b) == IF a < b THEN b ELSE a

(* A common must be global, and aligned to a power of two.                 *)
Refused(c) == c.place = "common" /\ (c.bind # "global" \/ ~PowerOfTwo(c.value))
=============================================================================
