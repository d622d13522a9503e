----------------------------- MODULE LinkClosure ----------------------------
(***************************************************************************)
(* What the choice of objects promises, without saying how it is kept: the *)
(* linked set starts empty; once the command line is read it receives every*)
(* root, and besides the roots only units that define a name the linked set*)
(* asks for and lacks.                                                     *)
(* No set of names is maintained: what is asked for is read off the linked *)
(* units.                                                                  *)
(***************************************************************************)
EXTENDS InputFiles

VARIABLES roots,     \* the units named outright, by objects and whole archives
          seeds,     \* the names -u asks for
          linked,    \* the units linked so far
          finished   \* whether the link has all its objects

closureVars == <<roots, seeds, linked, finished>>

Needed == (seeds \cup UNION {StrongUndefs(u) : u \in linked})
            \ UNION {Defs(u) : u \in linked}

ClosureInit ==
    /\ roots \in SUBSET Units
    /\ seeds \in SUBSET Names
    /\ linked = {}
    /\ finished = FALSE

(* The inputs may become known after the start, but not once one is linked.*)
ReadRoots ==
    /\ linked = {}
    /\ roots' \in SUBSET Units
    /\ UNCHANGED <<seeds, linked, finished>>

AddRoot == \E u \in roots :
    /\ linked' = linked \cup {u}
    /\ UNCHANGED <<roots, seeds, finished>>

Extract == \E u \in Units \ linked :
    /\ Defs(u) \cap Needed # {}
    /\ linked' = linked \cup {u}
    /\ UNCHANGED <<roots, seeds, finished>>

Close ==
    /\ ~finished
    /\ roots \subseteq linked
    /\ finished' = TRUE
    /\ UNCHANGED <<roots, seeds, linked>>

ClosureNext == ~finished /\ (ReadRoots \/ AddRoot \/ Extract \/ Close)

ClosureSpec == ClosureInit /\ [][ClosureNext]_closureVars
=============================================================================
