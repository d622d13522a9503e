---------------------------- MODULE OrderedInputs ---------------------------
(***************************************************************************)
(* prepare_ordered_link_inputs_with_forced_undefined: the inputs of a link *)
(* are visited in order.  An object is linked; a whole archive has every   *)
(* member linked; any other archive is scanned through its symbol index    *)
(* for members that define a name still unresolved, until no index entry   *)
(* asks for one more member.                                               *)
(*                                                                         *)
(* The scan (archive_lazy.rs) works on copies of the two symbol sets and   *)
(* returns the members it picked; the caller then links them one by one    *)
(* and updates its own sets (ordered_inputs.rs).                           *)
(***************************************************************************)
EXTENDS InputFiles

CONSTANTS
    Sequences,   \* the input sequences that may be given (see Ref)
    ForcedSets   \* the sets of names -u may seed

(* One input: the number of the loaded file, its path, and whether         *)
(* --whole-archive was in force where it was named.                        *)
Ref == [file : Nat, path : Paths, whole : BOOLEAN]

(* The loader has read every file it names.                                *)
ASSUME SequencesAssumption ==
    \A s \in Sequences :
        /\ s \in Seq(Ref)
        /\ \A i \in DOMAIN s : Content[s[i].path].kind # "unreadable"
ASSUME ForcedAssumption    == \A f \in ForcedSets : f \subseteq Names

VARIABLES
    sequence,        \* the inputs, in order (never changes)
    forced,          \* the names -u seeds (never changes)
    phase,           \* where the loop over the inputs stands
    pos,             \* the input being processed
    objects,         \* the objects linked so far, with how they came in
    defined,         \* names some linked object defines
    unresolved,      \* names asked for and not defined
    scanDefined,     \* the scan's copy of defined
    scanUnresolved,  \* the scan's copy of unresolved
    picked,          \* members the scan has extracted, in order
    pending,         \* units of the current archive still to be linked
    lazy,            \* whether pending comes from a scan
    error            \* the error the run ended with

inputVars == <<sequence, forced>>
scanVars  == <<scanDefined, scanUnresolved, picked>>
linkVars  == <<objects, defined, unresolved>>
ordVars   == <<sequence, forced, phase, pos, objects, defined, unresolved,
               scanDefined, scanUnresolved, picked, pending, lazy, error>>

Phases == {"next", "scan", "members", "done", "failed"}
Errors == {"none", "InvalidObject", "UnsupportedBinding", "InvalidArchive",
           "InvalidArchiveIndex", "MissingArchiveIndex", "StaleIndexEntry"}

Start(seq, seeds) ==
    /\ sequence = seq
    /\ forced = seeds
    /\ phase = "next"
    /\ pos = 1
    /\ objects = <<>>
    /\ defined = {}
    /\ unresolved = seeds
    /\ scanDefined = {} /\ scanUnresolved = {} /\ picked = <<>>
    /\ pending = <<>> /\ lazy = FALSE
    /\ error = "none"

OrderedInit == \E seq \in Sequences, seeds \in ForcedSets : Start(seq, seeds)

-----------------------------------------------------------------------------
(* The symbol bookkeeping of update_symbol_state, for a whole object: its  *)
(* loop over the symbols gives the same sets in every order.               *)
DefinedAfterStrongOnly(def, u) ==
    def \cup {s.name : s \in {t \in Symbols[u] : t.bind = "global" /\ ~t.undef}}
DefinedAfter(def, u) == def \cup Defs(u)

UnresolvedAfter(def, unres, u) ==
    (unres \cup (StrongUndefs(u) \ def)) \ Defs(u)

(* The same bookkeeping as extract_indexed_archive_members does it.        *)
ScanUnresolvedAfterForgetful(def, unres, u) ==
    (unres \ Defs(u)) \cup (StrongUndefs(u) \ Defs(u))
ScanUnresolvedAfterWeak(def, unres, u) ==
    (unres \ Defs(u)) \cup
    ({s.name : s \in {t \in Symbols[u] : t.bind # "local" /\ t.undef}}
       \ DefinedAfter(def, u))
ScanUnresolvedAfter(def, unres, u) ==
    (unres \ Defs(u)) \cup (StrongUndefs(u) \ DefinedAfter(def, u))

Fail(reason) ==
    /\ phase' = "failed"
    /\ error' = reason
    /\ UNCHANGED <<sequence, forced, pos, objects, defined, unresolved,
                   scanDefined, scanUnresolved, picked, pending, lazy>>

Record(u, isLazy) ==
    /\ objects' = Append(objects, [unit |-> u, lazy |-> isLazy])
    /\ defined' = DefinedAfter(defined, u)
    /\ unresolved' = UnresolvedAfter(defined, unresolved, u)

AtInput == phase = "next" /\ pos \in DOMAIN sequence
Input   == Content[sequence[pos].path]
Whole   == sequence[pos].whole

(* OrderedLinkInput::Object: parse it, record its symbols, keep it.        *)
LinkObject ==
    /\ AtInput
    /\ ~HasArchiveMagic(sequence[pos].path)
    /\ LET u == Input.members[1] IN
       IF Refused(u) THEN Fail(Refusal(u))
       ELSE /\ Record(u, FALSE)
            /\ pos' = pos + 1
            /\ UNCHANGED <<sequence, forced, phase, scanDefined,
                           scanUnresolved, picked, pending, lazy, error>>

(* OrderedLinkInput::WholeArchive: every ordinary member, index unused.    *)
BeginWhole ==
    /\ AtInput
    /\ HasArchiveMagic(sequence[pos].path) /\ Whole
    /\ IF Input.kind = "badarchive" THEN Fail("InvalidArchive")
       ELSE /\ phase' = "members"
            /\ pending' = Input.members
            /\ lazy' = FALSE
            /\ UNCHANGED <<sequence, forced, pos, objects, defined, unresolved,
                           scanDefined, scanUnresolved, picked, error>>

ScanErrors == [badarchive |-> "InvalidArchive",
               badindex   |-> "InvalidArchiveIndex",
               unindexed  |-> "MissingArchiveIndex"]

(* OrderedLinkInput::Archive: the scan starts from copies of both sets.    *)
BeginScan ==
    /\ AtInput
    /\ HasArchiveMagic(sequence[pos].path) /\ ~Whole
    /\ IF Input.kind \in DOMAIN ScanErrors THEN Fail(ScanErrors[Input.kind])
       ELSE /\ phase' = "scan"
            /\ scanDefined' = defined
            /\ scanUnresolved' = unresolved \ defined
            /\ picked' = <<>>
            /\ UNCHANGED <<sequence, forced, pos, objects, defined, unresolved,
                           pending, lazy, error>>

(* The index entries that ask for a member the scan has not extracted.     *)
AskingInOnePass(archive, unres, taken) ==
    {i \in DOMAIN archive.index : /\ archive.index[i].name \in unres
                                  /\ \A m \in Range(taken) : m < archive.index[i].member}
Asking(archive, unres, taken) ==
    {i \in DOMAIN archive.index : /\ archive.index[i].name \in unres
                                  /\ archive.index[i].member \notin Range(taken)}

(* One turn of the scan's loop: the first asking entry has its member      *)
(* parsed and its symbols added to the scan's sets.                        *)
ScanMember ==
    /\ phase = "scan"
    /\ \E i \in Asking(Input, scanUnresolved, picked) :
       /\ \A j \in Asking(Input, scanUnresolved, picked) : i <= j
       /\ LET m == Input.index[i].member
              u == Input.members[m]
          IN IF Refused(u) THEN Fail(Refusal(u))
             ELSE IF Input.index[i].name \notin Defs(u) THEN Fail("StaleIndexEntry")
             ELSE /\ scanDefined' = DefinedAfter(scanDefined, u)
                  /\ scanUnresolved' = ScanUnresolvedAfter(scanDefined, scanUnresolved, u)
                  /\ picked' = Append(picked, m)
                  /\ UNCHANGED <<sequence, forced, phase, pos, objects, defined,
                                 unresolved, pending, lazy, error>>

(* The loop ends; the members go to the caller in the order picked.        *)
EndScan ==
    /\ phase = "scan"
    /\ Asking(Input, scanUnresolved, picked) = {}
    /\ phase' = "members"
    /\ pending' = [k \in DOMAIN picked |-> Input.members[picked[k]]]
    /\ lazy' = TRUE
    /\ UNCHANGED <<sequence, forced, pos, objects, defined, unresolved,
                   scanDefined, scanUnresolved, picked, error>>

LinkMember ==
    /\ phase = "members" /\ pending # <<>>
    /\ LET u == Head(pending) IN
       IF Refused(u) THEN Fail(Refusal(u))
       ELSE /\ Record(u, lazy)
            /\ pending' = Tail(pending)
            /\ UNCHANGED <<sequence, forced, phase, pos, scanDefined,
                           scanUnresolved, picked, lazy, error>>

EndArchiveAgain ==
    /\ phase = "members" /\ pending = <<>>
    /\ phase' = "next"
    /\ UNCHANGED <<sequence, forced, pos, objects, defined, unresolved, scanDefined,
                   scanUnresolved, picked, pending, lazy, error>>
EndArchive ==
    /\ phase = "members" /\ pending = <<>>
    /\ phase' = "next"
    /\ pos' = pos + 1
    /\ UNCHANGED <<sequence, forced, objects, defined, unresolved, scanDefined,
                   scanUnresolved, picked, pending, lazy, error>>

FinishEarly ==
    /\ phase = "next" /\ pos >= Len(sequence)
    /\ phase' = "done"
    /\ UNCHANGED <<sequence, forced, pos, objects, defined, unresolved,
                   scanDefined, scanUnresolved, picked, pending, lazy, error>>
Finish ==
    /\ phase = "next" /\ pos > Len(sequence)
    /\ phase' = "done"
    /\ UNCHANGED <<sequence, forced, pos, objects, defined, unresolved,
                   scanDefined, scanUnresolved, picked, pending, lazy, error>>

OrderedNext ==
    \/ LinkObject \/ BeginWhole \/ BeginScan \/ ScanMember \/ EndScan
    \/ LinkMember \/ EndArchive \/ Finish

Stopped == phase \in {"done", "failed"} /\ UNCHANGED ordVars

OrderedSpec == OrderedInit /\ [][OrderedNext \/ Stopped]_ordVars

-----------------------------------------------------------------------------
(* Types.  The one type invariant of the module.                           *)
TypeOK ==
    /\ sequence \in Seq(Ref)
    /\ forced \in SUBSET Names
    /\ phase \in Phases
    /\ pos \in Nat \ {0}
    /\ objects \in Seq([unit : Units, lazy : BOOLEAN])
    /\ defined \in SUBSET Names
    /\ unresolved \in SUBSET Names
    /\ scanDefined \in SUBSET Names
    /\ scanUnresolved \in SUBSET Names
    /\ picked \in Seq(Nat)
    /\ pending \in Seq(Units)
    /\ lazy \in BOOLEAN
    /\ error \in Errors
    /\ phase = "scan" => pos \in DOMAIN sequence
    /\ phase = "failed" <=> error # "none"

Linked == {objects[k].unit : k \in DOMAIN objects}

(* The names the objects linked before the k-th leave asked for.           *)
DefinedBefore(k) == UNION {Defs(objects[i].unit) : i \in 1 .. k - 1}
AskedBefore(k)   ==
    (forced \cup UNION {StrongUndefs(objects[i].unit) : i \in 1 .. k - 1})
      \ DefinedBefore(k)

(* A name is never at once defined and unresolved, neither in the caller's *)
(* sets nor in the scan's copies: otherwise an archive scan could extract  *)
(* a second definition of a symbol the link already has.                   *)
NeverBothDefinedAndUnresolved ==
    /\ defined \cap unresolved = {}
    /\ phase = "scan" => scanDefined \cap scanUnresolved = {}

(* The two sets kept up to date one object at a time are exactly what the  *)
(* linked objects say: the names they define, and the names -u or a strong *)
(* reference asks for that none of them defines, whatever the order.       *)
BookkeepingIsExact ==
    /\ defined = DefinedBefore(Len(objects) + 1)
    /\ unresolved = AskedBefore(Len(objects) + 1)

(* extract_indexed_archive_members and its caller each fold the extracted  *)
(* members into their own sets, with different code: when the last member  *)
(* is linked both have reached the same state.                             *)
ScanAgreesWithCaller ==
    (phase = "members" /\ lazy /\ pending = <<>>) =>
        /\ defined = scanDefined
        /\ unresolved = scanUnresolved

(* A scan never extracts a member that is already linked, though each scan *)
(* starts with no memory of the earlier ones: not in a later repetition of *)
(* a group, nor when the archive is named again, nor after --whole-archive.*)
NeverExtractedTwice ==
    \A j \in DOMAIN objects : objects[j].lazy =>
        \A i \in 1 .. j - 1 : objects[i].unit # objects[j].unit

(* Nothing is extracted without need: an extracted member defines a name   *)
(* that -u or a strong reference of an object linked before it asks for,   *)
(* and that nothing linked before it defines.                              *)
ExtractedOnlyOnDemand ==
    \A j \in DOMAIN objects : objects[j].lazy =>
        Defs(objects[j].unit) \cap AskedBefore(j) # {}

(* When the members of one scan are linked, no index entry that tells the  *)
(* truth names a symbol still asked for: one visit exhausts the archive.   *)
(* (A stale entry may: the scan notices staleness only in an entry that    *)
(* makes it extract a member, not in a further entry of that member.)      *)
ScannedArchiveIsExhausted ==
    (phase = "members" /\ lazy /\ pending = <<>>) =>
        \A i \in DOMAIN Input.index :
            Input.index[i].name \in Defs(Input.members[Input.index[i].member])
                => Input.index[i].name \notin unresolved

-----------------------------------------------------------------------------
(* The units the inputs name outright: objects and whole archives.         *)
NamedOutright(ref) == ~HasArchiveMagic(ref.path) \/ ref.whole
Roots == UNION {Range(Content[sequence[i].path].members) :
                  i \in {j \in DOMAIN sequence : NamedOutright(sequence[j])}}

Closure == INSTANCE LinkClosure WITH
             roots <- Roots, seeds <- forced, linked <- Linked,
             finished <- phase = "done"

(* The loop over the inputs implements the closure the link promises:      *)
(* every step links a root, extracts a needed unit, ends with all roots    *)
(* linked, or changes nothing the promise speaks of.                       *)
ImplementsClosure == Closure!ClosureSpec
=============================================================================
