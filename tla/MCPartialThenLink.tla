--------------------------- MODULE MCPartialThenLink --------------------------
(***************************************************************************)
(* Symbols for TLC's check of the resolver, of the partial link's symbol   *)
(* table and of the two together.  Every list of up to MaxOne symbols of   *)
(* one name in every rank, and every list of up to MaxTwo of two names, is *)
(* cut in two at every place.  The lists of two names, among them nameless *)
(* and refusable symbols, and the lists of definitions of one name up to   *)
(* MaxDefining, are resolved without a partial link.  Marked symbols are   *)
(* partially linked alone.                                                 *)
(***************************************************************************)
EXTENDS PartialThenLink

CONSTANTS MaxOne, MaxTwo, MaxDefining

C(n, b, p, z, v) == [name |-> n, bind |-> b, place |-> p, size |-> z, value |-> v]
Lists(S, lo, hi) == UNION {[1 .. k -> S] : k \in lo .. hi}

MCNames == {"a", "b"}
MCNameOrder == <<"a", "b">>

Ranks(n) == {C(n, "global", "section", 1, 0), C(n, "weak", "section", 1, 0),
             C(n, "global", "common", 4, 4), C(n, "global", "common", 2, 8),
             C(n, "global", "undef", 0, 0), C(n, "weak", "undef", 0, 0)}
Others == {C("a", "local", "section", 1, 0), C("", "global", "section", 1, 0),
           C("b", "weak", "common", 4, 4), C("b", "global", "common", 4, 3),
           C("a", "unique", "section", 1, 0), C("b", "global", "common", 9, 1),
           C("b", "global", "common", 1, 16)}
Defining == {C("a", "global", "section", 3, 0), C("a", "global", "section", 6, 2),
             C("a", "weak", "section", 2, 0), C("a", "global", "common", 5, 4),
             C("a", "global", "common", 3, 8)}

Cuttable(s)  == \A i \in DOMAIN s : s[i] \in Ranks("a")
Markable(s)  == \A i \in DOMAIN s : s[i] \in Ranks("a") \cup Others \cup
                                             {C("b", "weak", "section", 1, 0)}

MCStreams == Lists(Ranks("a"), 0, MaxOne)
               \cup Lists(Ranks("a") \cup Ranks("b") \cup Others, 0, MaxTwo)
               \cup Lists(Defining, MaxTwo, MaxDefining)
MCForcedLists == {<<>>, <<"b">>, <<"b", "a", "b">>, <<"a", "">>}
MCMarkSets == {{}, {"discarded"}, {"discarded", "needed"}, {"nondefault"}, {"xindex"},
               {"unplaced"}}

Plain(k)   == [i \in 1 .. k |-> {}]
Places(s)  == IF Len(s) <= MaxTwo \/ Cuttable(s) THEN 0 .. Len(s) ELSE {0}
OneMark(s) == {[i \in DOMAIN s |-> IF i = j THEN m ELSE {}] :
                 j \in DOMAIN s, m \in {{"discarded"}, {"discarded", "needed"}}}
MarksOf(s) == IF Len(s) < MaxTwo THEN [DOMAIN s -> MCMarkSets] ELSE OneMark(s)

MCCutsOf(s) ==
    {[first |-> k, marks |-> Plain(k), forced |-> f, alone |-> FALSE] :
        k \in Places(s), f \in {<<>>, <<"b">>}}
    \cup IF Len(s) <= MaxTwo /\ Markable(s)
         THEN {[first |-> Len(s), marks |-> m, forced |-> f, alone |-> TRUE] :
                 m \in MarksOf(s), f \in IF Len(s) < MaxTwo THEN MCForcedLists ELSE {<<"b">>}}
         ELSE {}
=============================================================================
