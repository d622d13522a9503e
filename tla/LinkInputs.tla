----------------------------- MODULE LinkInputs -----------------------------
(***************************************************************************)
(* link_files and partial_files up to the list of objects to link: the     *)
(* loader of InputSequence hands its sequence to the loop of OrderedInputs,*)
(* with the synthetic CRT startup object in front when --crt-startup asks  *)
(* for it.                                                                 *)
(***************************************************************************)
EXTENDS InputSequence, OrderedInputs

CONSTANT CrtStartup   \* the path standing for the synthetic startup object

(* It is built, not read.                                                  *)
ASSUME CrtAssumption ==
    CrtStartup \in Paths /\ Content[CrtStartup].kind = "object"

VARIABLES crt,        \* whether --crt-startup was given
          handed      \* whether the loader's sequence has been taken over

linkInputsVars == <<loadVars, ordVars, crt, handed>>

(* --crt-startup needs --dynamic-pie, which takes no forced names.         *)
LinkInputsInit ==
    /\ LoadInit
    /\ \E seeds \in ForcedSets : Start(<<>>, seeds)
    /\ crt \in BOOLEAN
    /\ crt => command = "link" /\ forced = {}
    /\ handed = FALSE

StartupRef == [file |-> 0, path |-> CrtStartup, whole |-> FALSE]
StartupInput == IF crt THEN <<StartupRef>> ELSE <<>>

Load == LoadNext /\ UNCHANGED <<ordVars, crt, handed>>

HandOver ==
    /\ loading = "loaded" /\ ~handed
    /\ handed' = TRUE
    /\ sequence' = StartupInput \o loaded
    /\ UNCHANGED <<loadVars, crt, forced, phase, pos, objects, defined, unresolved,
                   scanDefined, scanUnresolved, picked, pending, lazy, error>>

Link == handed /\ OrderedNext /\ UNCHANGED <<loadVars, crt, handed>>

LinkInputsNext == Load \/ HandOver \/ Link

LinkInputsEnded == loading = "refused" \/ phase \in {"done", "failed"}
LinkInputsStopped == LinkInputsEnded /\ UNCHANGED linkInputsVars

(* One thread runs the command to its end.                                 *)
LinkInputsSpec ==
    /\ LinkInputsInit
    /\ [][LinkInputsNext \/ LinkInputsStopped]_linkInputsVars
    /\ WF_linkInputsVars(LinkInputsNext)

-----------------------------------------------------------------------------
(* When the inputs of a group and their repetitions are behind, the group  *)
(* is exhausted: no truthful index entry of any lazy archive of the group  *)
(* names a symbol still asked for, however the archives and objects of the *)
(* group need each other.  This is what the number of repetitions is for.  *)
GroupIsExhausted ==
    (handed /\ phase = "next") =>
        \A g \in DOMAIN groupSpans :
            LET shift == Len(StartupInput)
                span  == groupSpans[g]
            IN pos = shift + span.last + 1 =>
                 \A i \in span.first .. span.last :
                    LET in == Content[loaded[i].path] IN
                    (HasArchiveMagic(loaded[i].path) /\ ~loaded[i].whole) =>
                        \A k \in DOMAIN in.index :
                            in.index[k].name \in Defs(in.members[in.index[k].member])
                                => in.index[k].name \notin unresolved

(* Every command reads its arguments and takes in its objects, or reports  *)
(* an error, in finitely many steps: neither the index scan nor the        *)
(* repetition of a group can go on for ever.                               *)
EveryLinkEnds == <>LinkInputsEnded
=============================================================================
