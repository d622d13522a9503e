-------------------------- MODULE LinkInputs_proofs --------------------------
(***************************************************************************)
(* link_files from its arguments to its list of objects, for every file    *)
(* system, argument list and set of forced names.  First the loop of       *)
(* OrderedInputs: its safety properties hold for every input sequence, and *)
(* it implements LinkClosure.  Then the input sequence in front of it: what*)
(* is shown of the loop holds behind the loader too, and the repetitions of*)
(* a group are enough to exhaust its archives.                             *)
(***************************************************************************)
EXTENDS LinkInputs, DivisionFacts, FiniteSetTheorems, SequenceTheorems

(* The units linked so far, and the units the scan has picked that are not *)
(* linked yet.                                                             *)
LinkedUnits == [k \in DOMAIN objects |-> objects[k].unit]
Coming == IF phase = "scan" THEN [k \in DOMAIN picked |-> Input.members[picked[k]]]
                            ELSE pending

DefsIn(s) == UNION {Defs(s[i]) : i \in DOMAIN s}
AsksIn(s) == UNION {StrongUndefs(s[i]) : i \in DOMAIN s}

ScanUnderway == phase = "scan" \/ (phase = "members" /\ lazy)

(* Inside an archive the input is one of the sequence.                     *)
PlaceInv ==
    /\ phase \in {"scan", "members"} => pos \in DOMAIN sequence
    /\ \A i \in DOMAIN sequence : Content[sequence[i].path].kind # "unreadable"
    /\ phase = "scan" => \A k \in DOMAIN picked : picked[k] \in DOMAIN Input.members

(* The two sets are what the linked units say.                             *)
SetsInv ==
    /\ defined = DefsIn(LinkedUnits)
    /\ unresolved = (forced \cup AsksIn(LinkedUnits)) \ defined

(* The scan's sets are what the caller's will be when the picked members   *)
(* are linked.                                                             *)
ScanInv ==
    ScanUnderway =>
        /\ scanDefined = defined \cup DefsIn(Coming)
        /\ scanUnresolved = (forced \cup AsksIn(LinkedUnits) \cup AsksIn(Coming))
                              \ scanDefined

(* Each picked member was asked for by what comes before it.               *)
DemandInv ==
    ScanUnderway =>
        \A j \in DOMAIN Coming :
            \E n \in Defs(Coming[j]) :
                /\ n \notin defined
                /\ \A i \in 1 .. j - 1 : n \notin Defs(Coming[i])
                /\ \/ n \in forced \cup AsksIn(LinkedUnits)
                   \/ \E i \in 1 .. j - 1 : n \in StrongUndefs(Coming[i])

(* What the scan has picked it has defined, and once it has ended no index *)
(* entry asks for more.                                                    *)
PickedInv ==
    /\ ScanUnderway =>
         \A m \in Range(picked) : Defs(Input.members[m]) \subseteq scanDefined
    /\ (phase = "members" /\ lazy) => Asking(Input, scanUnresolved, picked) = {}

Inv == TypeOK /\ PlaceInv /\ SetsInv /\ ScanInv /\ DemandInv /\ PickedInv
       /\ ExtractedOnlyOnDemand

-----------------------------------------------------------------------------
(* The names a unit defines or asks for are symbol names.                  *)
LEMMA UnitNames ==
    ASSUME NEW u \in Units
    PROVE  Defs(u) \in SUBSET Names /\ StrongUndefs(u) \in SUBSET Names
  <1>1. Symbols[u] \in SUBSET Symbol
    BY FilesAssumption
  <1>2. \A s \in Symbols[u] : s.name \in Names
    BY <1>1 DEF Symbol
  <1> QED
    BY <1>2 DEF Defs, StrongUndefs

(* What a file holds has the types the actions rely on.                    *)
LEMMA FileTypes ==
    ASSUME NEW p \in Paths
    PROVE  /\ Content[p].members \in Seq(Units)
           /\ \A i \in DOMAIN Content[p].index :
                 /\ Content[p].index[i].name \in Names
                 /\ Content[p].index[i].member \in DOMAIN Content[p].members
           /\ (~HasArchiveMagic(p) /\ Content[p].kind # "unreadable")
                 => Content[p].members[1] \in Units
  <1>1. Content[p].members \in Seq(Units) /\ Content[p].kind \in Kinds
    BY FilesAssumption
  <1>2. (~HasArchiveMagic(p) /\ Content[p].kind # "unreadable")
            => Content[p].members[1] \in Units
    BY <1>1, ObjectAssumption DEF HasArchiveMagic, Kinds
  <1> QED
    BY <1>1, <1>2, IndexAssumption

(* One unit more defines and asks for its own names more.                  *)
LEMMA NamesOfAppend ==
    ASSUME NEW s \in Seq(Units), NEW u \in Units
    PROVE  /\ DefsIn(Append(s, u)) = DefsIn(s) \cup Defs(u)
           /\ AsksIn(Append(s, u)) = AsksIn(s) \cup StrongUndefs(u)
  <1> DEFINE t == Append(s, u)
  <1>1. /\ DOMAIN t = DOMAIN s \cup {Len(s) + 1}
        /\ \A i \in DOMAIN s : t[i] = s[i]
        /\ t[Len(s) + 1] = u
    OBVIOUS
  <1> HIDE DEF t
  <1>2. DefsIn(t) = DefsIn(s) \cup Defs(u)
    BY <1>1, Zenon DEF DefsIn
  <1>3. AsksIn(t) = AsksIn(s) \cup StrongUndefs(u)
    BY <1>1, Zenon DEF AsksIn
  <1> QED
    BY <1>2, <1>3 DEF t

(* Taking the first unit off leaves the names of the others.               *)
LEMMA NamesOfTail ==
    ASSUME NEW s \in Seq(Units), s # <<>>
    PROVE  /\ DefsIn(s) = Defs(Head(s)) \cup DefsIn(Tail(s))
           /\ AsksIn(s) = StrongUndefs(Head(s)) \cup AsksIn(Tail(s))
  <1> DEFINE t == Tail(s)
  <1>1. /\ Head(s) = s[1] /\ 1 \in DOMAIN s
        /\ \A i \in DOMAIN t : i + 1 \in DOMAIN s /\ t[i] = s[i + 1]
        /\ \A i \in DOMAIN s : i = 1 \/ (i - 1 \in DOMAIN t /\ t[i - 1] = s[i])
    OBVIOUS
  <1> HIDE DEF t
  <1>2. ASSUME NEW n PROVE (n \in DefsIn(s)) <=> (n \in Defs(Head(s)) \cup DefsIn(t))
    BY <1>1 DEF DefsIn
  <1>3. ASSUME NEW n PROVE (n \in AsksIn(s)) <=> (n \in StrongUndefs(Head(s)) \cup AsksIn(t))
    BY <1>1 DEF AsksIn
  <1> QED
    BY <1>2, <1>3 DEF t

LEMMA NamesOfNone ==
    DefsIn(<<>>) = {} /\ AsksIn(<<>>) = {}
  BY DEF DefsIn, AsksIn

(* A function on 1 .. n is a sequence.                                     *)
LEMMA FunctionSeq ==
    ASSUME NEW S, NEW n \in Nat, NEW f \in [1 .. n -> S]
    PROVE  f \in Seq(S) /\ Len(f) = n
  <1>1. f \in Seq(S)
    BY SeqDef
  <1>2. DOMAIN f = 1 .. n /\ DOMAIN f = 1 .. Len(f) /\ Len(f) \in Nat
    BY <1>1, LenProperties
  <1> QED
    BY <1>1, <1>2

(* Recording an object appends its unit to the units linked.               *)
LEMMA LinkedUnitsAfter ==
    ASSUME TypeOK, NEW u \in Units, NEW l \in BOOLEAN, Record(u, l)
    PROVE  /\ LinkedUnits \in Seq(Units)
           /\ LinkedUnits' = Append(LinkedUnits, u)
           /\ objects' \in Seq([unit : Units, lazy : BOOLEAN])
  <1>1. objects \in Seq([unit : Units, lazy : BOOLEAN])
    BY DEF TypeOK
  <1>2. objects' = Append(objects, [unit |-> u, lazy |-> l])
    BY DEF Record
  <1>3. LinkedUnits \in Seq(Units) /\ Len(LinkedUnits) = Len(objects)
    <2>1. Len(objects) \in Nat /\ DOMAIN objects = 1 .. Len(objects)
      BY <1>1
    <2>2. \A k \in DOMAIN objects : objects[k] \in [unit : Units, lazy : BOOLEAN]
      BY <1>1, <2>1, ElementOfSeq
    <2>3. \A k \in DOMAIN objects : objects[k].unit \in Units
      BY <2>2
    <2>4. LinkedUnits \in [1 .. Len(objects) -> Units]
      BY <2>1, <2>3 DEF LinkedUnits
    <2> QED
      BY <2>1, <2>4, FunctionSeq
  <1>4. objects' \in Seq([unit : Units, lazy : BOOLEAN])
    BY <1>1, <1>2
  <1>5. LinkedUnits' = Append(LinkedUnits, u)
    BY <1>1, <1>2, <1>3 DEF LinkedUnits
  <1> QED
    BY <1>3, <1>4, <1>5

(* An object recorded keeps the sets exact.                                *)
LEMMA RecordKeepsSets ==
    ASSUME TypeOK, SetsInv, NEW u \in Units, NEW l \in BOOLEAN, Record(u, l),
           UNCHANGED forced
    PROVE  /\ SetsInv'
           /\ defined' \in SUBSET Names /\ unresolved' \in SUBSET Names
           /\ AsksIn(LinkedUnits)' = AsksIn(LinkedUnits) \cup StrongUndefs(u)
  <1>1. /\ DefsIn(LinkedUnits)' = DefsIn(LinkedUnits) \cup Defs(u)
        /\ AsksIn(LinkedUnits)' = AsksIn(LinkedUnits) \cup StrongUndefs(u)
    <2>1. LinkedUnits \in Seq(Units) /\ LinkedUnits' = Append(LinkedUnits, u)
      BY LinkedUnitsAfter
    <2>2. /\ DefsIn(LinkedUnits)' = DefsIn(Append(LinkedUnits, u))
          /\ AsksIn(LinkedUnits)' = AsksIn(Append(LinkedUnits, u))
      BY <2>1 DEF DefsIn, AsksIn
    <2> QED
      BY <2>1, <2>2, NamesOfAppend
  <1>2. /\ defined' = defined \cup Defs(u)
        /\ unresolved' = (unresolved \cup (StrongUndefs(u) \ defined)) \ Defs(u)
    BY DEF Record, DefinedAfter, UnresolvedAfter
  <1>3. SetsInv'
    BY <1>1, <1>2 DEF SetsInv
  <1>4. defined' \in SUBSET Names /\ unresolved' \in SUBSET Names
    BY <1>2, UnitNames DEF TypeOK
  <1> QED
    BY <1>1, <1>3, <1>4

(* The prefixes ExtractedOnlyOnDemand speaks of, in terms of the sets.     *)
LEMMA BeforeTheNext ==
    ASSUME TypeOK, SetsInv
    PROVE  /\ AskedBefore(Len(objects) + 1) = unresolved
           /\ DefinedBefore(Len(objects) + 1) = defined
  <1>1. objects \in Seq([unit : Units, lazy : BOOLEAN])
    BY DEF TypeOK
  <1>2. DOMAIN LinkedUnits = 1 .. (Len(objects) + 1) - 1
        /\ \A i \in DOMAIN LinkedUnits : LinkedUnits[i] = objects[i].unit
    BY <1>1 DEF LinkedUnits
  <1>3. DefsIn(LinkedUnits) = DefinedBefore(Len(objects) + 1)
    BY <1>2, Zenon DEF DefsIn, DefinedBefore
  <1>4. AsksIn(LinkedUnits) =
          UNION {StrongUndefs(objects[i].unit) : i \in 1 .. (Len(objects) + 1) - 1}
    BY <1>2, Zenon DEF AsksIn
  <1> QED
    BY <1>3, <1>4 DEF SetsInv, AskedBefore

(* Recording an object keeps ExtractedOnlyOnDemand, if an extracted one    *)
(* defines an unresolved name.                                             *)
LEMMA RecordKeepsDemand ==
    ASSUME TypeOK, SetsInv, ExtractedOnlyOnDemand,
           NEW u \in Units, NEW l \in BOOLEAN, Record(u, l), UNCHANGED forced,
           l => Defs(u) \cap unresolved # {}
    PROVE  ExtractedOnlyOnDemand'
  <1>1. objects \in Seq([unit : Units, lazy : BOOLEAN])
    BY DEF TypeOK
  <1>2. objects' = Append(objects, [unit |-> u, lazy |-> l])
    BY DEF Record
  <1>3. /\ DOMAIN objects' = 1 .. Len(objects) + 1
        /\ \A i \in 1 .. Len(objects) : objects'[i] = objects[i]
        /\ objects'[Len(objects) + 1] = [unit |-> u, lazy |-> l]
    BY <1>1, <1>2
  <1>4. ASSUME NEW k \in 1 .. Len(objects) + 1
        PROVE  AskedBefore(k)' = AskedBefore(k)
    <2>1. \A i \in 1 .. k - 1 : objects'[i] = objects[i]
      BY <1>1, <1>3
    <2>2. DefinedBefore(k)' = DefinedBefore(k)
      BY <2>1 DEF DefinedBefore
    <2> QED
      BY <2>1, <2>2 DEF AskedBefore
  <1>5. ASSUME NEW j \in DOMAIN objects', objects'[j].lazy
        PROVE  Defs(objects'[j].unit) \cap AskedBefore(j)' # {}
    <2>1. CASE j = Len(objects) + 1
      <3>1. objects'[j].unit = u /\ l
        BY <1>3, <1>5, <2>1
      <3>2. AskedBefore(j)' = unresolved
        BY <1>1, <1>4, <2>1, BeforeTheNext
      <3> QED
        BY <3>1, <3>2
    <2>2. CASE j \in 1 .. Len(objects)
      <3>1. j \in DOMAIN objects /\ objects'[j] = objects[j]
        BY <1>1, <1>3, <2>2
      <3>2. AskedBefore(j)' = AskedBefore(j)
        BY <1>1, <1>4, <2>2
      <3> QED
        BY <1>5, <3>1, <3>2 DEF ExtractedOnlyOnDemand
    <2> QED
      BY <1>1, <1>3, <2>1, <2>2
  <1> QED
    BY <1>5 DEF ExtractedOnlyOnDemand

-----------------------------------------------------------------------------
(* Where the program stands at an input, the input's file is well typed.   *)
LEMMA InputTypes ==
    ASSUME TypeOK, PlaceInv, pos \in DOMAIN sequence
    PROVE  /\ sequence[pos].path \in Paths
           /\ Content[sequence[pos].path].kind # "unreadable"
           /\ Input.members \in Seq(Units)
           /\ \A i \in DOMAIN Input.index :
                 /\ Input.index[i].name \in Names
                 /\ Input.index[i].member \in DOMAIN Input.members
           /\ ~HasArchiveMagic(sequence[pos].path) => Input.members[1] \in Units
  <1>1. sequence[pos] \in Ref
    BY DEF TypeOK
  <1>2. sequence[pos].path \in Paths
    BY <1>1 DEF Ref
  <1>3. Content[sequence[pos].path].kind # "unreadable"
    BY DEF PlaceInv
  <1> QED
    BY <1>2, <1>3, FileTypes DEF Input

(* Before the loop over the inputs has done anything.                      *)
Untouched ==
    /\ sequence \in Seq(Ref)
    /\ \A i \in DOMAIN sequence : Content[sequence[i].path].kind # "unreadable"
    /\ forced \in SUBSET Names
    /\ phase = "next" /\ pos = 1
    /\ objects = <<>> /\ defined = {} /\ unresolved = forced
    /\ scanDefined = {} /\ scanUnresolved = {} /\ picked = <<>>
    /\ pending = <<>> /\ lazy = FALSE
    /\ error = "none"

(* The invariant holds before the loop over the inputs.                    *)
LEMMA UntouchedInv == Untouched => Inv
  <1> SUFFICES ASSUME Untouched PROVE Inv
    OBVIOUS
  <1>1. objects = <<>> /\ LinkedUnits = <<>>
    BY DEF Untouched, LinkedUnits
  <1>2. TypeOK
    <2>1. /\ objects \in Seq([unit : Units, lazy : BOOLEAN])
          /\ picked \in Seq(Nat) /\ pending \in Seq(Units)
      BY EmptySeq DEF Untouched
    <2>2. /\ sequence \in Seq(Ref) /\ forced \in SUBSET Names /\ unresolved \in SUBSET Names
          /\ defined = {} /\ scanDefined = {} /\ scanUnresolved = {}
          /\ phase = "next" /\ error = "none" /\ lazy = FALSE
      BY DEF Untouched
    <2>3. pos \in Nat \ {0}
      BY DEF Untouched
    <2>4. /\ phase \in Phases /\ error \in Errors /\ lazy \in BOOLEAN
          /\ (phase = "scan" => pos \in DOMAIN sequence)
          /\ (phase = "failed" <=> error # "none")
      BY <2>2 DEF Phases, Errors
    <2> QED
      BY <2>1, <2>2, <2>3, <2>4, Zenon DEF TypeOK
  <1>3. PlaceInv
    BY DEF Untouched, PlaceInv
  <1>4. SetsInv
    BY <1>1, NamesOfNone DEF Untouched, SetsInv
  <1>5. ScanInv /\ DemandInv /\ PickedInv
    BY DEF Untouched, ScanInv, DemandInv, PickedInv, ScanUnderway
  <1>6. ExtractedOnlyOnDemand
    BY <1>1 DEF ExtractedOnlyOnDemand
  <1> QED
    BY <1>2, <1>3, <1>4, <1>5, <1>6 DEF Inv

(* The loop starts untouched.                                              *)
LEMMA InitUntouched == OrderedInit => Untouched
  BY SequencesAssumption, ForcedAssumption DEF OrderedInit, Start, Untouched

LEMMA InvInit == OrderedInit => Inv
  BY InitUntouched, UntouchedInv

(* What depends on the linked objects only is untouched by a step that     *)
(* links nothing.                                                          *)
LEMMA NothingLinked ==
    ASSUME SetsInv, ExtractedOnlyOnDemand,
           UNCHANGED <<objects, defined, unresolved, forced>>
    PROVE  /\ SetsInv' /\ ExtractedOnlyOnDemand'
           /\ AsksIn(LinkedUnits)' = AsksIn(LinkedUnits)
  <1>1. LinkedUnits' = LinkedUnits
    BY DEF LinkedUnits
  <1>2. DefsIn(LinkedUnits)' = DefsIn(LinkedUnits)
        /\ AsksIn(LinkedUnits)' = AsksIn(LinkedUnits)
    BY <1>1 DEF DefsIn, AsksIn
  <1>3. SetsInv'
    BY <1>2 DEF SetsInv
  <1>4. ExtractedOnlyOnDemand'
    BY DEF ExtractedOnlyOnDemand, AskedBefore, DefinedBefore
  <1> QED
    BY <1>2, <1>3, <1>4

(* A step that links nothing and leaves the archives keeps the invariant.  *)
LEMMA OutsideArchives ==
    ASSUME Inv, TypeOK', phase' \notin {"scan", "members"},
           UNCHANGED <<sequence, forced, objects, defined, unresolved>>
    PROVE  Inv'
  <1>1. SetsInv' /\ ExtractedOnlyOnDemand'
    BY NothingLinked DEF Inv
  <1>2. PlaceInv'
    BY DEF Inv, PlaceInv
  <1>3. ~ScanUnderway'
    BY DEF ScanUnderway
  <1>4. ScanInv' /\ DemandInv' /\ PickedInv'
    BY <1>3 DEF ScanInv, DemandInv, PickedInv
  <1> QED
    BY <1>1, <1>2, <1>4 DEF Inv

LEMMA FailStep ==
    ASSUME Inv, NEW reason \in Errors \ {"none"}, Fail(reason)
    PROVE  Inv'
  <1>1. TypeOK'
    BY DEF Inv, TypeOK, Fail, Phases
  <1> QED
    BY <1>1, OutsideArchives DEF Fail

LEMMA LinkObjectStep == Inv /\ LinkObject => Inv'
  <1> SUFFICES ASSUME Inv, LinkObject PROVE Inv'
    OBVIOUS
  <1> USE DEF Inv
  <1> DEFINE u == Input.members[1]
  <1>1. u \in Units
    BY InputTypes DEF LinkObject, AtInput
  <1>2. CASE Refused(u)
    <2>1. Fail(Refusal(u)) /\ Refusal(u) \in Errors \ {"none"}
      BY <1>2 DEF LinkObject, Refusal, Errors
    <2> QED
      BY <2>1, FailStep
  <1>3. CASE ~Refused(u)
    <2>1. /\ Record(u, FALSE) /\ pos' = pos + 1 /\ phase = "next"
          /\ UNCHANGED <<sequence, forced, phase, scanDefined, scanUnresolved,
                         picked, pending, lazy, error>>
      BY <1>3 DEF LinkObject, AtInput
    <2>2. SetsInv' /\ defined' \in SUBSET Names /\ unresolved' \in SUBSET Names
      BY <1>1, <2>1, RecordKeepsSets
    <2>3. ExtractedOnlyOnDemand'
      BY <1>1, <2>1, RecordKeepsDemand
    <2>4. objects' \in Seq([unit : Units, lazy : BOOLEAN])
      BY <1>1, <2>1, LinkedUnitsAfter
    <2>5. TypeOK'
      <3>1. pos' \in Nat \ {0}
        BY <2>1 DEF TypeOK
      <3> QED
        BY <2>1, <2>2, <2>4, <3>1, Zenon DEF TypeOK
    <2>6. PlaceInv'
      BY <2>1 DEF PlaceInv
    <2>7. ScanInv' /\ DemandInv' /\ PickedInv'
      BY <2>1 DEF ScanInv, DemandInv, PickedInv, ScanUnderway
    <2> QED
      BY <2>2, <2>3, <2>5, <2>6, <2>7
  <1> QED
    BY <1>2, <1>3

LEMMA BeginWholeStep == Inv /\ BeginWhole => Inv'
  <1> SUFFICES ASSUME Inv, BeginWhole PROVE Inv'
    OBVIOUS
  <1> USE DEF Inv
  <1>1. CASE Input.kind = "badarchive"
    <2>1. Fail("InvalidArchive")
      BY <1>1 DEF BeginWhole
    <2> QED
      BY <2>1, FailStep DEF Errors
  <1>2. CASE Input.kind # "badarchive"
    <2>1. /\ phase' = "members" /\ pending' = Input.members /\ lazy' = FALSE
          /\ phase = "next" /\ pos \in DOMAIN sequence
          /\ UNCHANGED <<sequence, forced, pos, objects, defined, unresolved,
                         scanDefined, scanUnresolved, picked, error>>
      BY <1>2 DEF BeginWhole, AtInput
    <2>2. Input.members \in Seq(Units)
      BY <2>1, InputTypes
    <2>3. TypeOK'
      BY <2>1, <2>2 DEF TypeOK, Phases
    <2>4. PlaceInv'
      BY <2>1 DEF PlaceInv
    <2>5. SetsInv' /\ ExtractedOnlyOnDemand'
      BY <2>1, NothingLinked
    <2>6. ScanInv' /\ DemandInv' /\ PickedInv'
      BY <2>1 DEF ScanInv, DemandInv, PickedInv, ScanUnderway
    <2> QED
      BY <2>3, <2>4, <2>5, <2>6
  <1> QED
    BY <1>1, <1>2

LEMMA BeginScanStep == Inv /\ BeginScan => Inv'
  <1> SUFFICES ASSUME Inv, BeginScan PROVE Inv'
    OBVIOUS
  <1> USE DEF Inv
  <1>1. CASE Input.kind \in DOMAIN ScanErrors
    <2>1. Fail(ScanErrors[Input.kind])
      BY <1>1 DEF BeginScan
    <2>2. ScanErrors[Input.kind] \in Errors \ {"none"}
      BY <1>1 DEF ScanErrors, Errors
    <2> QED
      BY <2>1, <2>2, FailStep
  <1>2. CASE Input.kind \notin DOMAIN ScanErrors
    <2>1. /\ phase' = "scan" /\ scanDefined' = defined
          /\ scanUnresolved' = unresolved \ defined /\ picked' = <<>>
          /\ phase = "next" /\ pos \in DOMAIN sequence
          /\ UNCHANGED <<sequence, forced, pos, objects, defined, unresolved,
                         pending, lazy, error>>
      BY <1>2 DEF BeginScan, AtInput
    <2>2. TypeOK'
      BY <2>1 DEF TypeOK, Phases
    <2>3. PlaceInv'
      BY <2>1 DEF PlaceInv
    <2>4. SetsInv' /\ ExtractedOnlyOnDemand' /\ AsksIn(LinkedUnits)' = AsksIn(LinkedUnits)
      BY <2>1, NothingLinked
    <2>5. Coming' = <<>>
      BY <2>1 DEF Coming
    <2>6. DefsIn(Coming)' = {} /\ AsksIn(Coming)' = {}
      BY <2>5, NamesOfNone DEF DefsIn, AsksIn
    <2>7. ScanInv'
      BY <2>1, <2>4, <2>6 DEF ScanInv, SetsInv
    <2>8. DemandInv'
      BY <2>5 DEF DemandInv
    <2>9. PickedInv'
      BY <2>1 DEF PickedInv, Range
    <2> QED
      BY <2>2, <2>3, <2>4, <2>7, <2>8, <2>9
  <1> QED
    BY <1>1, <1>2

(* The step that extracts: the member picked defines the name its entry    *)
(* asks with, and nothing linked or picked before it does.                 *)
LEMMA ScanMemberStep == Inv /\ ScanMember => Inv'
  <1> SUFFICES ASSUME Inv, ScanMember PROVE Inv'
    OBVIOUS
  <1> USE DEF Inv
  <1>0. /\ phase = "scan" /\ pos \in DOMAIN sequence
        /\ picked \in Seq(Nat) /\ Input.members \in Seq(Units)
    BY InputTypes DEF ScanMember, TypeOK
  <1>1. PICK i \in Asking(Input, scanUnresolved, picked) :
          LET m == Input.index[i].member
              w == Input.members[m]
          IN IF Refused(w) THEN Fail(Refusal(w))
             ELSE IF Input.index[i].name \notin Defs(w) THEN Fail("StaleIndexEntry")
             ELSE /\ scanDefined' = DefinedAfter(scanDefined, w)
                  /\ scanUnresolved' = ScanUnresolvedAfter(scanDefined, scanUnresolved, w)
                  /\ picked' = Append(picked, m)
                  /\ UNCHANGED <<sequence, forced, phase, pos, objects, defined,
                                 unresolved, pending, lazy, error>>
    BY DEF ScanMember
  <1> DEFINE m == Input.index[i].member
             u == Input.members[m]
             name == Input.index[i].name
  <1>2. /\ m \in DOMAIN Input.members /\ u \in Units /\ m \in Nat
        /\ name \in scanUnresolved
    <2>1. i \in DOMAIN Input.index /\ name \in scanUnresolved
      BY <1>1 DEF Asking
    <2>2. m \in DOMAIN Input.members
      BY <1>0, <2>1, InputTypes
    <2> QED
      BY <1>0, <2>1, <2>2
  <1>3. CASE Refused(u)
    <2>1. Fail(Refusal(u)) /\ Refusal(u) \in Errors \ {"none"}
      BY <1>1, <1>3 DEF Refusal, Errors
    <2> QED
      BY <2>1, FailStep
  <1>4. CASE ~Refused(u) /\ name \notin Defs(u)
    <2>1. Fail("StaleIndexEntry")
      BY <1>1, <1>4
    <2> QED
      BY <2>1, FailStep DEF Errors
  <1>5. CASE ~Refused(u) /\ name \in Defs(u)
    <2>1. /\ scanDefined' = scanDefined \cup Defs(u)
          /\ scanUnresolved' = (scanUnresolved \ Defs(u)) \cup
                               (StrongUndefs(u) \ (scanDefined \cup Defs(u)))
          /\ picked' = Append(picked, m)
          /\ UNCHANGED <<sequence, forced, phase, pos, objects, defined,
                         unresolved, pending, lazy, error>>
      BY <1>1, <1>5 DEF DefinedAfter, ScanUnresolvedAfter
    <2> HIDE DEF m, u, name
    <2>2. /\ picked' \in Seq(Nat) /\ Len(picked') = Len(picked) + 1
          /\ DOMAIN picked = 1 .. Len(picked) /\ Len(picked) \in Nat
          /\ DOMAIN picked' = 1 .. Len(picked) + 1
          /\ \A k \in 1 .. Len(picked) : picked'[k] = picked[k]
          /\ picked'[Len(picked) + 1] = m
      BY <1>0, <1>2, <2>1
    <2>3. TypeOK'
      <3>1. scanDefined' \in SUBSET Names /\ scanUnresolved' \in SUBSET Names
        BY <1>2, <2>1, UnitNames DEF TypeOK
      <3> QED
        BY <2>1, <2>2, <3>1, Zenon DEF TypeOK
    <2>4. PlaceInv'
      <3>1. Input' = Input
        BY <2>1 DEF Input
      <3>2. \A k \in 1 .. Len(picked) : picked[k] \in DOMAIN Input.members
        BY <1>0, <2>2 DEF PlaceInv
      <3>3. \A k \in DOMAIN picked' : picked'[k] \in DOMAIN Input.members
        BY <1>2, <2>2, <3>2
      <3> QED
        BY <2>1, <3>1, <3>3 DEF PlaceInv
    <2>5. SetsInv' /\ ExtractedOnlyOnDemand' /\ AsksIn(LinkedUnits)' = AsksIn(LinkedUnits)
      BY <2>1, NothingLinked
    <2>6. Coming \in Seq(Units) /\ Coming' = Append(Coming, u) /\ Len(Coming) = Len(picked)
      <3>1. Coming = [k \in 1 .. Len(picked) |-> Input.members[picked[k]]]
        BY <1>0, <2>2 DEF Coming
      <3>2. \A k \in 1 .. Len(picked) : Input.members[picked[k]] \in Units
        BY <1>0, <2>2 DEF PlaceInv
      <3>3. Coming \in [1 .. Len(picked) -> Units]
        BY <3>1, <3>2
      <3>4. Coming \in Seq(Units) /\ Len(Coming) = Len(picked)
        BY <2>2, <3>3, FunctionSeq
      <3>5. Coming' = [k \in 1 .. Len(picked) + 1 |-> Input.members[picked'[k]]]
        BY <1>0, <2>1, <2>2 DEF Coming, Input
      <3>6. Input.members[picked'[Len(picked) + 1]] = u
        BY <2>2 DEF u
      <3>7. Coming' \in Seq(Units) /\ Len(Coming') = Len(picked) + 1
        <4>1. \A k \in 1 .. Len(picked) + 1 : Input.members[picked'[k]] \in Units
          BY <1>2, <2>2, <3>2, <3>6
        <4>2. Coming' \in [1 .. Len(picked) + 1 -> Units]
          BY <3>5, <4>1
        <4>3. Len(picked) + 1 \in Nat
          BY <2>2
        <4> QED
          BY <4>2, <4>3, FunctionSeq
      <3>8. \A k \in 1 .. Len(picked) + 1 : Coming'[k] = Append(Coming, u)[k]
        BY <1>2, <2>2, <3>1, <3>4, <3>5, <3>6
      <3>9. Append(Coming, u) \in Seq(Units) /\ Len(Append(Coming, u)) = Len(picked) + 1
        BY <1>2, <3>4
      <3> QED
        BY <3>4, <3>7, <3>8, <3>9, SeqEqual
    <2>7. /\ DefsIn(Coming)' = DefsIn(Coming) \cup Defs(u)
          /\ AsksIn(Coming)' = AsksIn(Coming) \cup StrongUndefs(u)
      <3>1. DefsIn(Coming)' = DefsIn(Append(Coming, u))
            /\ AsksIn(Coming)' = AsksIn(Append(Coming, u))
        BY <2>6 DEF DefsIn, AsksIn
      <3> QED
        BY <1>2, <2>6, <3>1, NamesOfAppend
    <2>8. ScanUnderway /\ ScanUnderway'
      BY <1>0, <2>1 DEF ScanUnderway
    <2>9. ScanInv'
      BY <2>1, <2>5, <2>7, <2>8 DEF ScanInv
    <2>10. DemandInv'
      <3>1. /\ DOMAIN Coming' = 1 .. Len(Coming) + 1
            /\ \A k \in 1 .. Len(Coming) : Coming'[k] = Coming[k]
            /\ Coming'[Len(Coming) + 1] = u
            /\ DOMAIN Coming = 1 .. Len(Coming) /\ Len(Coming) \in Nat
        BY <1>2, <2>6
      <3>2. ASSUME NEW j \in 1 .. Len(Coming)
            PROVE  \E n \in Defs(Coming'[j]) :
                      /\ n \notin defined'
                      /\ \A k \in 1 .. j - 1 : n \notin Defs(Coming'[k])
                      /\ \/ n \in forced' \cup AsksIn(LinkedUnits)'
                         \/ \E k \in 1 .. j - 1 : n \in StrongUndefs(Coming'[k])
        <4>1. PICK n \in Defs(Coming[j]) :
                      /\ n \notin defined
                      /\ \A k \in 1 .. j - 1 : n \notin Defs(Coming[k])
                      /\ \/ n \in forced \cup AsksIn(LinkedUnits)
                         \/ \E k \in 1 .. j - 1 : n \in StrongUndefs(Coming[k])
          BY <2>8, <3>1 DEF DemandInv
        <4>2. \A k \in 1 .. j - 1 : Coming'[k] = Coming[k]
          BY <3>1
        <4> QED
          BY <2>1, <2>5, <3>1, <4>1, <4>2
      <3>3. /\ name \in Defs(u) /\ name \notin defined
            /\ \A k \in 1 .. Len(Coming) : name \notin Defs(Coming[k])
            /\ \/ name \in forced \cup AsksIn(LinkedUnits)
               \/ \E k \in 1 .. Len(Coming) : name \in StrongUndefs(Coming[k])
        <4>1. /\ name \notin scanDefined
              /\ name \in forced \cup AsksIn(LinkedUnits) \cup AsksIn(Coming)
              /\ scanDefined = defined \cup DefsIn(Coming)
          BY <1>2, <2>8 DEF ScanInv
        <4> QED
          BY <1>5, <3>1, <4>1 DEF DefsIn, AsksIn
      <3>4. \E n \in Defs(Coming'[Len(Coming) + 1]) :
               /\ n \notin defined'
               /\ \A k \in 1 .. (Len(Coming) + 1) - 1 : n \notin Defs(Coming'[k])
               /\ \/ n \in forced' \cup AsksIn(LinkedUnits)'
                  \/ \E k \in 1 .. (Len(Coming) + 1) - 1 : n \in StrongUndefs(Coming'[k])
        BY <2>1, <2>5, <3>1, <3>3
      <3> QED
        BY <3>1, <3>2, <3>4 DEF DemandInv
    <2>11. PickedInv'
      <3>1. Range(picked') = Range(picked) \cup {m}
        BY <2>2 DEF Range
      <3>2. \A k \in Range(picked') : Defs(Input.members[k]) \subseteq scanDefined'
        BY <2>1, <2>8, <3>1 DEF PickedInv, u
      <3> QED
        BY <1>0, <2>1, <3>2 DEF PickedInv, Input
    <2> QED
      BY <2>3, <2>4, <2>5, <2>9, <2>10, <2>11
  <1> QED
    BY <1>3, <1>4, <1>5

LEMMA EndScanStep == Inv /\ EndScan => Inv'
  <1> SUFFICES ASSUME Inv, EndScan PROVE Inv'
    OBVIOUS
  <1> USE DEF Inv
  <1>1. /\ phase = "scan" /\ phase' = "members" /\ lazy' = TRUE
        /\ Asking(Input, scanUnresolved, picked) = {}
        /\ pending' = [k \in DOMAIN picked |-> Input.members[picked[k]]]
        /\ UNCHANGED <<sequence, forced, pos, objects, defined, unresolved,
                       scanDefined, scanUnresolved, picked, error>>
    BY DEF EndScan
  <1>2. pos \in DOMAIN sequence /\ picked \in Seq(Nat) /\ Input.members \in Seq(Units)
    BY <1>1, InputTypes DEF TypeOK
  <1>3. pending' = Coming /\ Coming' = Coming /\ Input' = Input
    BY <1>1 DEF Coming, Input
  <1>4. pending' \in Seq(Units)
    <2>1. DOMAIN picked = 1 .. Len(picked) /\ Len(picked) \in Nat
      BY <1>2
    <2>2. \A k \in 1 .. Len(picked) : picked[k] \in DOMAIN Input.members
      BY <1>1, <2>1 DEF PlaceInv
    <2>3. \A k \in 1 .. Len(picked) : Input.members[picked[k]] \in Units
      BY <1>2, <2>2
    <2> QED
      BY <1>1, <2>1, <2>3, FunctionSeq
  <1>5. TypeOK'
    <2>1. phase' \in Phases /\ lazy' \in BOOLEAN
          /\ (phase' = "scan" => pos' \in DOMAIN sequence')
          /\ (phase' = "failed" <=> error' # "none")
      BY <1>1 DEF TypeOK, Phases
    <2> QED
      BY <1>1, <1>4, <2>1, Zenon DEF TypeOK
  <1>6. PlaceInv'
    BY <1>1, <1>2 DEF PlaceInv
  <1>7. SetsInv' /\ ExtractedOnlyOnDemand' /\ AsksIn(LinkedUnits)' = AsksIn(LinkedUnits)
    BY <1>1, NothingLinked
  <1>8. DefsIn(Coming)' = DefsIn(Coming) /\ AsksIn(Coming)' = AsksIn(Coming)
    BY <1>3 DEF DefsIn, AsksIn
  <1>9. ScanUnderway
    BY <1>1 DEF ScanUnderway
  <1>10. ScanInv'
    BY <1>1, <1>7, <1>8, <1>9 DEF ScanInv
  <1>11. DemandInv'
    BY <1>1, <1>3, <1>7, <1>9 DEF DemandInv
  <1>12. PickedInv'
    BY <1>1, <1>3, <1>9 DEF PickedInv, Asking
  <1> QED
    BY <1>5, <1>6, <1>7, <1>10, <1>11, <1>12

(* The next extracted member to link defines a name still asked for.       *)
LEMMA NextIsAskedFor ==
    ASSUME Inv, phase = "members", lazy, pending # <<>>
    PROVE  Defs(Head(pending)) \cap unresolved # {}
  <1>1. Coming = pending /\ ScanUnderway
    BY DEF Coming, ScanUnderway
  <1>2. pending \in Seq(Units)
    BY DEF Inv, TypeOK
  <1>3. 1 \in DOMAIN pending /\ Head(pending) = pending[1]
    BY <1>2
  <1>4. PICK n \in Defs(Coming[1]) :
          /\ n \notin defined
          /\ \/ n \in forced \cup AsksIn(LinkedUnits)
             \/ \E k \in 1 .. 1 - 1 : n \in StrongUndefs(Coming[k])
    BY <1>1, <1>3 DEF Inv, DemandInv
  <1>5. n \in forced \cup AsksIn(LinkedUnits)
    BY <1>4
  <1> QED
    BY <1>1, <1>3, <1>4, <1>5 DEF Inv, SetsInv

(* A member linked: what remains to come keeps its place in the order, and *)
(* the first of it was asked for by the objects already linked.            *)
LEMMA LinkMemberStep == Inv /\ LinkMember => Inv'
  <1> SUFFICES ASSUME Inv, LinkMember PROVE Inv'
    OBVIOUS
  <1> USE DEF Inv
  <1> DEFINE u == Head(pending)
  <1>1. /\ phase = "members" /\ pending # <<>> /\ pending \in Seq(Units)
        /\ lazy \in BOOLEAN
    BY DEF LinkMember, TypeOK
  <1>2. u \in Units
    BY <1>1
  <1>3. CASE Refused(u)
    <2>1. Fail(Refusal(u)) /\ Refusal(u) \in Errors \ {"none"}
      BY <1>3 DEF LinkMember, Refusal, Errors
    <2> QED
      BY <2>1, FailStep
  <1>4. CASE ~Refused(u)
    <2>1. /\ Record(u, lazy) /\ pending' = Tail(pending)
          /\ UNCHANGED <<sequence, forced, phase, pos, scanDefined,
                         scanUnresolved, picked, lazy, error>>
      BY <1>4 DEF LinkMember
    <2>2. /\ Coming = pending /\ Coming' = Tail(pending)
          /\ (ScanUnderway <=> lazy) /\ (ScanUnderway' <=> lazy)
      BY <1>1, <2>1 DEF Coming, ScanUnderway
    <2>3. /\ SetsInv' /\ defined' \in SUBSET Names /\ unresolved' \in SUBSET Names
          /\ AsksIn(LinkedUnits)' = AsksIn(LinkedUnits) \cup StrongUndefs(u)
      BY <1>1, <1>2, <2>1, RecordKeepsSets
    <2>4. defined' = defined \cup Defs(u)
      BY <2>1 DEF Record, DefinedAfter
    <2>5. TypeOK'
      <3>1. objects' \in Seq([unit : Units, lazy : BOOLEAN])
        BY <1>1, <1>2, <2>1, LinkedUnitsAfter
      <3>2. pending' \in Seq(Units)
        BY <1>1, <2>1
      <3> QED
        BY <2>1, <2>3, <3>1, <3>2, Zenon DEF TypeOK
    <2>6. PlaceInv'
      BY <1>1, <2>1 DEF PlaceInv
    <2>7. ScanInv'
      <3>1. /\ DefsIn(Coming) = Defs(u) \cup DefsIn(Tail(pending))
            /\ AsksIn(Coming) = StrongUndefs(u) \cup AsksIn(Tail(pending))
        BY <1>1, <2>2, NamesOfTail
      <3>2. DefsIn(Coming)' = DefsIn(Tail(pending))
            /\ AsksIn(Coming)' = AsksIn(Tail(pending))
        BY <2>2 DEF DefsIn, AsksIn
      <3> QED
        BY <2>1, <2>2, <2>3, <2>4, <3>1, <3>2 DEF ScanInv
    <2>8. /\ Len(pending) \in Nat \ {0} /\ DOMAIN pending = 1 .. Len(pending)
          /\ DOMAIN Coming' = 1 .. Len(pending) - 1 /\ u = Coming[1]
          /\ \A k \in 1 .. Len(pending) - 1 : Coming'[k] = Coming[k + 1]
      BY <1>1, <2>2
    <2>9. DemandInv'
      <3> SUFFICES ASSUME lazy, NEW j \in 1 .. Len(pending) - 1
                   PROVE  \E n \in Defs(Coming'[j]) :
                            /\ n \notin defined'
                            /\ \A k \in 1 .. j - 1 : n \notin Defs(Coming'[k])
                            /\ \/ n \in forced' \cup AsksIn(LinkedUnits)'
                               \/ \E k \in 1 .. j - 1 : n \in StrongUndefs(Coming'[k])
        BY <2>2, <2>8 DEF DemandInv
      <3>1. j + 1 \in DOMAIN Coming
        BY <2>2, <2>8
      <3>2. PICK n \in Defs(Coming[j + 1]) :
              /\ n \notin defined
              /\ \A k \in 1 .. (j + 1) - 1 : n \notin Defs(Coming[k])
              /\ \/ n \in forced \cup AsksIn(LinkedUnits)
                 \/ \E k \in 1 .. (j + 1) - 1 : n \in StrongUndefs(Coming[k])
        BY <2>2, <3>1 DEF DemandInv
      <3>3. n \in Defs(Coming'[j])
        BY <2>8, <3>2
      <3>4. n \notin defined'
        BY <2>4, <2>8, <3>2
      <3>5. \A k \in 1 .. j - 1 : n \notin Defs(Coming'[k])
        BY <2>8, <3>2
      <3>6. \/ n \in forced' \cup AsksIn(LinkedUnits)'
            \/ \E k \in 1 .. j - 1 : n \in StrongUndefs(Coming'[k])
        <4>1. CASE n \in forced \cup AsksIn(LinkedUnits)
          BY <2>1, <2>3, <4>1
        <4>2. CASE \E k \in 1 .. (j + 1) - 1 : n \in StrongUndefs(Coming[k])
          <5>1. PICK k \in 1 .. j : n \in StrongUndefs(Coming[k])
            BY <4>2
          <5>2. CASE k = 1
            BY <2>3, <2>8, <5>1, <5>2
          <5>3. CASE k # 1
            <6>1. k - 1 \in 1 .. j - 1 /\ Coming'[k - 1] = Coming[k]
              BY <2>8, <5>3
            <6> QED
              BY <5>1, <6>1
          <5> QED
            BY <5>2, <5>3
        <4> QED
          BY <3>2, <4>1, <4>2
      <3> QED
        BY <3>3, <3>4, <3>5, <3>6
    <2>10. PickedInv'
      BY <1>1, <2>1, <2>2 DEF PickedInv, Input, Asking
    <2>11. ExtractedOnlyOnDemand'
      <3>1. ASSUME lazy PROVE Defs(u) \cap unresolved # {}
        BY <1>1, <3>1, NextIsAskedFor
      <3> QED
        BY <1>1, <1>2, <2>1, <3>1, RecordKeepsDemand
    <2> QED
      BY <2>3, <2>5, <2>6, <2>7, <2>9, <2>10, <2>11
  <1> QED
    BY <1>3, <1>4

LEMMA EndArchiveStep == Inv /\ EndArchive => Inv'
  <1> SUFFICES ASSUME Inv, EndArchive PROVE Inv'
    OBVIOUS
  <1>1. TypeOK'
    BY DEF Inv, TypeOK, EndArchive, Phases
  <1> QED
    BY <1>1, OutsideArchives DEF EndArchive

LEMMA FinishStep == Inv /\ Finish => Inv'
  <1> SUFFICES ASSUME Inv, Finish PROVE Inv'
    OBVIOUS
  <1>1. TypeOK'
    BY DEF Inv, TypeOK, Finish, Phases
  <1> QED
    BY <1>1, OutsideArchives DEF Finish

LEMMA StutterStep == Inv /\ UNCHANGED ordVars => Inv'
  <1> SUFFICES ASSUME Inv, UNCHANGED ordVars PROVE Inv'
    OBVIOUS
  <1> USE DEF Inv, ordVars
  <1>1. TypeOK' /\ PlaceInv'
    BY DEF TypeOK, PlaceInv, Input
  <1>2. SetsInv' /\ ExtractedOnlyOnDemand' /\ AsksIn(LinkedUnits)' = AsksIn(LinkedUnits)
    BY NothingLinked
  <1>3. Input' = Input
    BY DEF Input
  <1>4. Coming' = Coming /\ (ScanUnderway' <=> ScanUnderway)
    BY <1>3 DEF Coming, ScanUnderway
  <1>5. DefsIn(Coming)' = DefsIn(Coming) /\ AsksIn(Coming)' = AsksIn(Coming)
    BY <1>4 DEF DefsIn, AsksIn
  <1>6. ScanInv' /\ DemandInv' /\ PickedInv'
    BY <1>2, <1>3, <1>4, <1>5 DEF ScanInv, DemandInv, PickedInv, Asking
  <1> QED
    BY <1>1, <1>2, <1>6

(* Every step keeps the invariant.                                         *)
LEMMA InvStep == Inv /\ [OrderedNext \/ Stopped]_ordVars => Inv'
  <1> SUFFICES ASSUME Inv, [OrderedNext \/ Stopped]_ordVars PROVE Inv'
    OBVIOUS
  <1>1. CASE LinkObject
    BY <1>1, LinkObjectStep
  <1>2. CASE BeginWhole
    BY <1>2, BeginWholeStep
  <1>3. CASE BeginScan
    BY <1>3, BeginScanStep
  <1>4. CASE ScanMember
    BY <1>4, ScanMemberStep
  <1>5. CASE EndScan
    BY <1>5, EndScanStep
  <1>6. CASE LinkMember
    BY <1>6, LinkMemberStep
  <1>7. CASE EndArchive
    BY <1>7, EndArchiveStep
  <1>8. CASE Finish
    BY <1>8, FinishStep
  <1>9. CASE Stopped \/ UNCHANGED ordVars
    BY <1>9, StutterStep DEF Stopped
  <1> QED
    BY <1>1, <1>2, <1>3, <1>4, <1>5, <1>6, <1>7, <1>8, <1>9 DEF OrderedNext

LEMMA Invariance == OrderedSpec => []Inv
  BY InvInit, InvStep, PTL DEF OrderedSpec

(* What the invariant says when the last member of a scan is linked.       *)
LEMMA InvScanAgrees == Inv => ScanAgreesWithCaller
  <1> SUFFICES ASSUME Inv, phase = "members", lazy, pending = <<>>
               PROVE  defined = scanDefined /\ unresolved = scanUnresolved
    BY DEF ScanAgreesWithCaller
  <1>1. Coming = <<>> /\ ScanUnderway
    BY DEF Coming, ScanUnderway
  <1>2. DefsIn(Coming) = {} /\ AsksIn(Coming) = {}
    BY <1>1, NamesOfNone
  <1> QED
    BY <1>1, <1>2 DEF Inv, ScanInv, SetsInv

LEMMA InvExhausts == Inv => ScannedArchiveIsExhausted
  <1> SUFFICES ASSUME Inv,
                      phase = "members", lazy, pending = <<>>,
                      NEW i \in DOMAIN Input.index,
                      Input.index[i].name \in
                          Defs(Input.members[Input.index[i].member]),
                      Input.index[i].name \in unresolved
               PROVE  FALSE
    BY DEF ScannedArchiveIsExhausted
  <1>1. unresolved = scanUnresolved /\ defined = scanDefined /\ ScanUnderway
    BY InvScanAgrees DEF ScanAgreesWithCaller, ScanUnderway
  <1>2. i \notin Asking(Input, scanUnresolved, picked)
    BY DEF Inv, PickedInv
  <1>3. Input.index[i].member \in Range(picked)
    BY <1>1, <1>2 DEF Asking
  <1>4. Input.index[i].name \in scanDefined
    BY <1>1, <1>3 DEF Inv, PickedInv
  <1> QED
    BY <1>1, <1>4 DEF Inv, SetsInv

-----------------------------------------------------------------------------
(* The state of prepare_ordered_link_inputs and of the index scan always   *)
(* has the declared types.                                                 *)
THEOREM TypesHold == OrderedSpec => []TypeOK
  <1>1. Inv => TypeOK
    BY DEF Inv
  <1> QED
    BY <1>1, Invariance, PTL

(* The caller's two sets are at every moment what the linked objects say,  *)
(* in whatever order and through whatever archives they came in.           *)
THEOREM SetsAreExact == OrderedSpec => []BookkeepingIsExact
  <1>1. Inv => BookkeepingIsExact
    BY BeforeTheNext DEF Inv, BookkeepingIsExact
  <1> QED
    BY <1>1, Invariance, PTL

(* No name is ever both defined and asked for, in the caller or the scan.  *)
THEOREM NoNameInBothSets == OrderedSpec => []NeverBothDefinedAndUnresolved
  <1>1. Inv => NeverBothDefinedAndUnresolved
    BY DEF Inv, NeverBothDefinedAndUnresolved, SetsInv, ScanInv, ScanUnderway
  <1> QED
    BY <1>1, Invariance, PTL

(* The two foldings of an archive's members, extract_indexed_archive_members *)
(* and update_symbol_state, end in the same sets.                          *)
THEOREM ScanAndCallerAgree == OrderedSpec => []ScanAgreesWithCaller
  BY InvScanAgrees, Invariance, PTL

(* Archive members come in on demand only.                                 *)
THEOREM OnlyOnDemand == OrderedSpec => []ExtractedOnlyOnDemand
  <1>1. Inv => ExtractedOnlyOnDemand
    BY DEF Inv
  <1> QED
    BY <1>1, Invariance, PTL

(* No scan extracts an object that is linked already: it would define a    *)
(* name asked for, and its names are defined.                              *)
THEOREM NoSecondExtraction == OrderedSpec => []NeverExtractedTwice
  <1>1. ExtractedOnlyOnDemand => NeverExtractedTwice
    <2> SUFFICES ASSUME ExtractedOnlyOnDemand, NEW j \in DOMAIN objects, objects[j].lazy,
                        NEW i \in 1 .. j - 1, objects[i].unit = objects[j].unit
                 PROVE  FALSE
      BY DEF NeverExtractedTwice
    <2>1. PICK n : n \in Defs(objects[j].unit) /\ n \in AskedBefore(j)
      BY DEF ExtractedOnlyOnDemand
    <2>2. n \in DefinedBefore(j)
      BY <2>1 DEF DefinedBefore
    <2> QED
      BY <2>1, <2>2 DEF AskedBefore
  <1> QED
    BY <1>1, OnlyOnDemand, PTL

(* One visit of an archive leaves no truthful index entry of it that names *)
(* a symbol still asked for.                                               *)
THEOREM OneScanExhausts == OrderedSpec => []ScannedArchiveIsExhausted
  BY InvExhausts, Invariance, PTL

-----------------------------------------------------------------------------
(* The loop implements LinkClosure: what is named outright by the inputs   *)
(* behind is linked; inside a whole archive, so are its members that no    *)
(* longer wait.                                                            *)
RootsInv ==
    /\ \A i \in DOMAIN sequence :
         (i < pos /\ NamedOutright(sequence[i])) =>
             Range(Content[sequence[i].path].members) \subseteq Linked
    /\ (phase \in {"scan", "members"}) => pos \in DOMAIN sequence
    /\ phase = "scan" => ~NamedOutright(sequence[pos])
    /\ (phase = "members" /\ lazy) => ~NamedOutright(sequence[pos])
    /\ (phase = "members" /\ ~lazy) =>
         /\ NamedOutright(sequence[pos])
         /\ Range(Input.members) \subseteq Linked \cup Range(pending)
         /\ Range(pending) \subseteq Range(Input.members)
    /\ phase = "done" => pos > Len(sequence)

(* Recording an object adds its unit to the linked ones.                   *)
LEMMA LinkedAfter ==
    ASSUME TypeOK, NEW u \in Units, NEW l \in BOOLEAN, Record(u, l)
    PROVE  Linked' = Linked \cup {u}
  <1>1. objects \in Seq([unit : Units, lazy : BOOLEAN])
        /\ objects' = Append(objects, [unit |-> u, lazy |-> l])
    BY DEF TypeOK, Record
  <1>2. /\ DOMAIN objects' = DOMAIN objects \cup {Len(objects) + 1}
        /\ \A k \in DOMAIN objects : objects'[k] = objects[k]
        /\ objects'[Len(objects) + 1].unit = u
    BY <1>1
  <1> QED
    BY <1>2, Zenon DEF Linked

LEMMA LinkedUnchanged ==
    ASSUME UNCHANGED objects
    PROVE  Linked' = Linked
  BY DEF Linked

(* The closure reads the same names off a unit.                            *)
LEMMA SameNames ==
    ASSUME NEW u
    PROVE  Closure!Defs(u) = Defs(u) /\ Closure!StrongUndefs(u) = StrongUndefs(u)
  BY DEF Closure!Defs, Closure!StrongUndefs, Defs, StrongUndefs

(* What the abstract link needs is the set of unresolved names.            *)
LEMMA NeededIsUnresolved ==
    ASSUME TypeOK, SetsInv
    PROVE  /\ Closure!Needed = unresolved
           /\ defined = UNION {Defs(u) : u \in Linked}
           /\ Linked \subseteq Units
  <1>1. objects \in Seq([unit : Units, lazy : BOOLEAN])
    BY DEF TypeOK
  <1>2. \A k \in DOMAIN objects : objects[k].unit \in Units
    <2>1. DOMAIN objects = 1 .. Len(objects)
      BY <1>1
    <2>2. \A k \in DOMAIN objects : objects[k] \in [unit : Units, lazy : BOOLEAN]
      BY <1>1, <2>1, ElementOfSeq
    <2> QED
      BY <2>2
  <1>3. Linked = {LinkedUnits[k] : k \in DOMAIN LinkedUnits} /\ Linked \subseteq Units
    BY <1>2, Zenon DEF Linked, LinkedUnits
  <1>4. UNION {Defs(u) : u \in Linked} = DefsIn(LinkedUnits)
    BY <1>3, Zenon DEF DefsIn
  <1>5. UNION {StrongUndefs(u) : u \in Linked} = AsksIn(LinkedUnits)
    BY <1>3, Zenon DEF AsksIn
  <1>6. Closure!Needed = (forced \cup AsksIn(LinkedUnits)) \ DefsIn(LinkedUnits)
    <2>1. /\ UNION {Closure!Defs(u) : u \in Linked} = DefsIn(LinkedUnits)
          /\ UNION {Closure!StrongUndefs(u) : u \in Linked} = AsksIn(LinkedUnits)
      BY <1>4, <1>5, SameNames
    <2> QED
      BY <2>1 DEF Closure!Needed
  <1> QED
    BY <1>3, <1>4, <1>6 DEF SetsInv

-----------------------------------------------------------------------------
(* Nothing is behind yet when the loop starts.                             *)
LEMMA UntouchedRoots == Untouched => RootsInv
  <1> SUFFICES ASSUME Untouched PROVE RootsInv
    OBVIOUS
  <1>1. sequence \in Seq(Ref) /\ pos = 1 /\ phase = "next"
    BY DEF Untouched
  <1>2. \A i \in DOMAIN sequence : ~(i < pos)
    BY <1>1
  <1> QED
    BY <1>1, <1>2 DEF RootsInv

LEMMA RootsInvInit == OrderedInit => RootsInv
  BY InitUntouched, UntouchedRoots

(* Where nothing is unlinked, what is behind stays linked.                 *)
LEMMA RootsInvStep ==
    Inv /\ RootsInv /\ [OrderedNext \/ Stopped]_ordVars => RootsInv'
  <1> SUFFICES ASSUME Inv, RootsInv, [OrderedNext \/ Stopped]_ordVars
               PROVE  RootsInv'
    OBVIOUS
  <1>0. TypeOK /\ PlaceInv /\ sequence \in Seq(Ref) /\ pos \in Nat \ {0}
        /\ pending \in Seq(Units) /\ lazy \in BOOLEAN
    BY DEF Inv, TypeOK
  <1>f. ASSUME NEW reason, Fail(reason) PROVE RootsInv'
    BY <1>f, LinkedUnchanged DEF Fail, RootsInv
  <1>1. CASE LinkObject
    <2> DEFINE u == Input.members[1]
    <2>1. CASE Refused(u)
      BY <1>1, <1>f, <2>1 DEF LinkObject
    <2>2. CASE ~Refused(u)
      <3>1. /\ Record(u, FALSE) /\ pos' = pos + 1 /\ phase' = "next"
            /\ UNCHANGED sequence /\ pos \in DOMAIN sequence /\ u \in Units
        BY <1>0, <1>1, <2>2, InputTypes DEF LinkObject, AtInput
      <3>2. Linked' = Linked \cup {u}
        BY <1>0, <3>1, LinkedAfter
      <3>3. Range(Content[sequence[pos].path].members) \subseteq {u}
        <4>1. sequence[pos].path \in Paths /\ Content[sequence[pos].path].kind = "object"
          BY <1>0, <1>1, <3>1, InputTypes, FilesAssumption
             DEF LinkObject, HasArchiveMagic, Kinds
        <4>2. Input.members \in Seq(Units) /\ Len(Input.members) = 1
          BY <1>0, <3>1, <4>1, InputTypes, ObjectAssumption DEF Input
        <4>3. DOMAIN Input.members = {1}
          BY <4>2
        <4> QED
          BY <4>3 DEF Range, Input
      <3>4. ASSUME NEW i \in DOMAIN sequence, i < pos + 1, NamedOutright(sequence[i])
            PROVE  Range(Content[sequence[i].path].members) \subseteq Linked'
        <4>1. CASE i = pos
          BY <3>2, <3>3, <4>1
        <4>2. CASE i < pos
          BY <3>2, <3>4, <4>2 DEF RootsInv
        <4> QED
          BY <1>0, <3>4, <4>1, <4>2
      <3> QED
        BY <3>1, <3>4 DEF RootsInv, NamedOutright
    <2> QED
      BY <2>1, <2>2
  <1>2. CASE BeginWhole
    <2>1. CASE Input.kind = "badarchive"
      BY <1>2, <1>f, <2>1 DEF BeginWhole
    <2>2. CASE Input.kind # "badarchive"
      <3>1. /\ phase' = "members" /\ pending' = Input.members /\ lazy' = FALSE
            /\ pos \in DOMAIN sequence
            /\ UNCHANGED <<sequence, objects, pos>>
        BY <1>2, <2>2 DEF BeginWhole, AtInput
      <3>3. NamedOutright(sequence[pos])
        BY <1>2 DEF BeginWhole, Whole, NamedOutright
      <3>2. Input' = Input /\ Linked' = Linked
        BY <3>1, LinkedUnchanged DEF Input
      <3> QED
        BY <3>1, <3>2, <3>3 DEF RootsInv
    <2> QED
      BY <2>1, <2>2
  <1>3. CASE BeginScan
    <2>1. CASE Input.kind \in DOMAIN ScanErrors
      BY <1>3, <1>f, <2>1 DEF BeginScan
    <2>2. CASE Input.kind \notin DOMAIN ScanErrors
      <3>1. /\ phase' = "scan" /\ pos \in DOMAIN sequence
            /\ ~NamedOutright(sequence[pos])
            /\ UNCHANGED <<sequence, objects, pos>>
        BY <1>3, <2>2 DEF BeginScan, AtInput, Whole, NamedOutright
      <3>2. Linked' = Linked
        BY <3>1, LinkedUnchanged
      <3> QED
        BY <3>1, <3>2 DEF RootsInv
    <2> QED
      BY <2>1, <2>2
  <1>4. CASE ScanMember
    <2>1. phase = "scan" /\ UNCHANGED <<sequence, objects, pos>>
          /\ phase' \in {"scan", "failed"}
      BY <1>4 DEF ScanMember, Fail
    <2> QED
      BY <2>1, LinkedUnchanged DEF RootsInv
  <1>5. CASE EndScan
    BY <1>5, LinkedUnchanged DEF EndScan, RootsInv
  <1>6. CASE LinkMember
    <2> DEFINE u == Head(pending)
    <2>1. CASE Refused(u)
      BY <1>6, <1>f, <2>1 DEF LinkMember
    <2>2. CASE ~Refused(u)
      <3>1. /\ phase = "members" /\ pending # <<>> /\ u \in Units
            /\ Record(u, lazy) /\ pending' = Tail(pending)
            /\ UNCHANGED <<sequence, phase, pos, lazy>>
        BY <1>0, <1>6, <2>2 DEF LinkMember
      <3>2. Linked' = Linked \cup {u}
        BY <1>0, <3>1, LinkedAfter
      <3>3. Range(pending) = {u} \cup Range(pending')
        <4>1. /\ u = pending[1] /\ 1 \in DOMAIN pending
              /\ \A i \in DOMAIN pending' : i + 1 \in DOMAIN pending /\ pending'[i] = pending[i + 1]
              /\ \A i \in DOMAIN pending :
                    i = 1 \/ (i - 1 \in DOMAIN pending' /\ pending'[i - 1] = pending[i])
          BY <1>0, <3>1
        <4>2. ASSUME NEW x PROVE x \in Range(pending) <=> x \in {u} \cup Range(pending')
          BY <4>1 DEF Range
        <4> QED
          BY <4>2
      <3>4. Input' = Input
        BY <3>1 DEF Input
      <3> QED
        BY <3>1, <3>2, <3>3, <3>4 DEF RootsInv
    <2> QED
      BY <2>1, <2>2
  <1>7. CASE EndArchive
    <2>1. /\ phase = "members" /\ pending = <<>> /\ phase' = "next" /\ pos' = pos + 1
          /\ UNCHANGED <<sequence, objects>>
      BY <1>7 DEF EndArchive
    <2>2. Range(pending) = {}
      BY <2>1 DEF Range
    <2>3. NamedOutright(sequence[pos]) =>
            Range(Content[sequence[pos].path].members) \subseteq Linked
      BY <2>1, <2>2 DEF RootsInv, Input
    <2>4. \A i \in DOMAIN sequence : i < pos + 1 => (i < pos \/ i = pos)
      BY <1>0
    <2> QED
      BY <2>1, <2>3, <2>4, LinkedUnchanged DEF RootsInv
  <1>8. CASE Finish
    BY <1>8, LinkedUnchanged DEF Finish, RootsInv
  <1>9. CASE Stopped \/ UNCHANGED ordVars
    <2>1. UNCHANGED ordVars
      BY <1>9 DEF Stopped
    <2> QED
      BY <2>1, LinkedUnchanged DEF ordVars, RootsInv, Input
  <1> QED
    BY <1>1, <1>2, <1>3, <1>4, <1>5, <1>6, <1>7, <1>8, <1>9 DEF OrderedNext

-----------------------------------------------------------------------------
(* The roots are units.                                                    *)
LEMMA RootsAreUnits ==
    ASSUME sequence \in Seq(Ref)
    PROVE  Roots \subseteq Units
  <1>1. ASSUME NEW i \in DOMAIN sequence
        PROVE  Range(Content[sequence[i].path].members) \subseteq Units
    <2>1. sequence[i] \in Ref
      OBVIOUS
    <2>2. Content[sequence[i].path].members \in Seq(Units)
      BY <2>1, FileTypes DEF Ref
    <2> QED
      BY <2>2 DEF Range
  <1> QED
    BY <1>1, Zenon DEF Roots

(* The states before the loop are initial states of the closure.           *)
LEMMA UntouchedClosure == Untouched => Closure!ClosureInit
  <1> SUFFICES ASSUME Untouched PROVE Closure!ClosureInit
    OBVIOUS
  <1>1. phase = "next" /\ objects = <<>> /\ forced \in SUBSET Names
    BY DEF Untouched
  <1>2. Roots \subseteq Units
    BY RootsAreUnits DEF Untouched
  <1>3. Linked = {}
    BY <1>1 DEF Linked
  <1> QED
    BY <1>1, <1>2, <1>3 DEF Closure!ClosureInit

(* A member of an input named outright is a root.                          *)
LEMMA MemberIsRoot ==
    ASSUME pos \in DOMAIN sequence, NamedOutright(sequence[pos]),
           NEW u \in Range(Input.members)
    PROVE  u \in Roots
  BY Zenon DEF Roots, Input

(* A step that links nothing and does not finish is a stutter of the       *)
(* closure.                                                                *)
LEMMA ClosureStutters ==
    ASSUME UNCHANGED <<sequence, forced, objects>>, (phase = "done") <=> (phase' = "done")
    PROVE  UNCHANGED Closure!closureVars
  <1>1. Roots' = Roots /\ Linked' = Linked
    BY DEF Roots, Linked
  <1> QED
    BY <1>1 DEF Closure!closureVars

(* Every step links a root, extracts a needed unit, finishes with the roots*)
(* linked, or stutters.                                                    *)
LEMMA ClosureStep ==
    Inv /\ RootsInv /\ [OrderedNext \/ Stopped]_ordVars
        => [Closure!ClosureNext]_Closure!closureVars
  <1> SUFFICES ASSUME Inv, RootsInv, [OrderedNext \/ Stopped]_ordVars
               PROVE  Closure!ClosureNext \/ UNCHANGED Closure!closureVars
    OBVIOUS
  <1>0. TypeOK /\ PlaceInv /\ SetsInv /\ pending \in Seq(Units) /\ lazy \in BOOLEAN
        /\ sequence \in Seq(Ref)
    BY DEF Inv, TypeOK
  <1>a. ASSUME NEW u \in Units, NEW l \in BOOLEAN, Record(u, l), u \in Roots,
               UNCHANGED <<sequence, forced>>, phase # "done", phase' # "done"
        PROVE  Closure!ClosureNext
    <2>1. Linked' = Linked \cup {u}
      BY <1>0, <1>a, LinkedAfter
    <2>2. Roots' = Roots
      BY <1>a DEF Roots
    <2>3. Closure!AddRoot
      BY <1>a, <2>1, <2>2 DEF Closure!AddRoot
    <2> QED
      BY <1>a, <2>3 DEF Closure!ClosureNext
  <1>1. CASE LinkObject
    <2> DEFINE u == Input.members[1]
    <2>1. CASE Refused(u)
      BY <1>1, <2>1, ClosureStutters DEF LinkObject, AtInput, Fail
    <2>2. CASE ~Refused(u)
      <3>1. /\ Record(u, FALSE) /\ phase = "next" /\ phase' = "next"
            /\ UNCHANGED <<sequence, forced>>
            /\ pos \in DOMAIN sequence /\ NamedOutright(sequence[pos])
        BY <1>1, <2>2 DEF LinkObject, AtInput, NamedOutright
      <3>2. u \in Units /\ u \in Range(Input.members)
        <4>1. sequence[pos].path \in Paths /\ Content[sequence[pos].path].kind = "object"
          BY <1>0, <1>1, <3>1, InputTypes, FilesAssumption
             DEF LinkObject, HasArchiveMagic, Kinds
        <4>2. Input.members \in Seq(Units) /\ Len(Input.members) = 1
          BY <1>0, <3>1, <4>1, InputTypes, ObjectAssumption DEF Input
        <4>3. 1 \in DOMAIN Input.members /\ u \in Units
          BY <4>2
        <4> QED
          BY <4>3 DEF Range
      <3>3. u \in Roots
        BY <3>1, <3>2, MemberIsRoot
      <3> HIDE DEF u
      <3> QED
        BY <1>a, <3>1, <3>2, <3>3
    <2> QED
      BY <2>1, <2>2
  <1>2. CASE LinkMember
    <2> DEFINE u == Head(pending)
    <2>0. phase = "members" /\ pending # <<>> /\ pos \in DOMAIN sequence
          /\ u \in Units /\ u \in Range(pending)
      <3>1. phase = "members" /\ pending # <<>> /\ pos \in DOMAIN sequence
        BY <1>2 DEF LinkMember, RootsInv
      <3>2. 1 \in DOMAIN pending /\ u = pending[1] /\ u \in Units
        BY <1>0, <3>1
      <3> QED
        BY <3>1, <3>2 DEF Range
    <2>1. CASE Refused(u)
      BY <1>2, <2>0, <2>1, ClosureStutters DEF LinkMember, Fail
    <2>2. CASE ~Refused(u) /\ ~lazy
      <3>1. Record(u, lazy) /\ UNCHANGED <<sequence, forced, phase>>
        BY <1>2, <2>2 DEF LinkMember
      <3>2. u \in Roots
        BY <2>0, <2>2, MemberIsRoot DEF RootsInv
      <3> HIDE DEF u
      <3> QED
        BY <1>0, <1>a, <2>0, <3>1, <3>2
    <2>3. CASE ~Refused(u) /\ lazy
      <3>1. Record(u, lazy) /\ UNCHANGED <<sequence, forced, phase>>
        BY <1>2, <2>3 DEF LinkMember
      <3>2. Linked' = Linked \cup {u} /\ Roots' = Roots
        BY <1>0, <2>0, <3>1, LinkedAfter DEF Roots
      <3>3. PICK n : n \in Defs(u) /\ n \in unresolved
        BY <2>0, <2>3, NextIsAskedFor
      <3>4. u \notin Linked
        <4>1. n \notin defined
          BY <1>0, <3>3 DEF SetsInv
        <4>2. defined = UNION {Defs(w) : w \in Linked}
          BY <1>0, NeededIsUnresolved
        <4> QED
          BY <3>3, <4>1, <4>2
      <3>5. Defs(u) \cap Closure!Needed # {}
        BY <1>0, <3>3, NeededIsUnresolved
      <3> HIDE DEF u
      <3>6. Closure!Extract
        BY <2>0, <3>1, <3>2, <3>4, <3>5, SameNames DEF Closure!Extract
      <3> QED
        BY <2>0, <3>6 DEF Closure!ClosureNext
    <2> QED
      BY <1>0, <2>1, <2>2, <2>3
  <1>3. CASE Finish
    <2>1. /\ phase = "next" /\ phase' = "done" /\ pos > Len(sequence)
          /\ UNCHANGED <<sequence, forced, objects>>
      BY <1>3 DEF Finish
    <2>2. \A i \in DOMAIN sequence : i < pos
      BY <1>0, <2>1 DEF TypeOK
    <2>3. Roots \subseteq Linked
      <3>1. \A i \in {j \in DOMAIN sequence : NamedOutright(sequence[j])} :
               Range(Content[sequence[i].path].members) \subseteq Linked
        BY <2>2 DEF RootsInv
      <3> QED
        BY <3>1, Zenon DEF Roots
    <2>4. Roots' = Roots /\ Linked' = Linked
      BY <2>1 DEF Roots, Linked
    <2>5. Closure!Close
      BY <2>1, <2>3, <2>4 DEF Closure!Close
    <2> QED
      BY <2>1, <2>5 DEF Closure!ClosureNext
  <1>4. CASE BeginWhole \/ BeginScan
    BY <1>4, ClosureStutters DEF BeginWhole, BeginScan, AtInput, Fail
  <1>5. CASE ScanMember
    <2>1. /\ phase = "scan" /\ phase' \in {"scan", "failed"}
          /\ UNCHANGED <<sequence, forced, objects>>
      BY <1>5 DEF ScanMember, Fail
    <2> QED
      BY <2>1, ClosureStutters
  <1>6. CASE EndScan \/ EndArchive
    BY <1>6, ClosureStutters DEF EndScan, EndArchive
  <1>7. CASE Stopped \/ UNCHANGED ordVars
    BY <1>7, ClosureStutters DEF Stopped, ordVars
  <1> QED
    BY <1>1, <1>2, <1>3, <1>4, <1>5, <1>6, <1>7 DEF OrderedNext

(* prepare_ordered_link_inputs links the roots and members that were needed*)
(* when they came in, nothing else, and ends with every root linked.       *)
THEOREM LinksTheClosure == OrderedSpec => ImplementsClosure
  <1>1. OrderedInit => Closure!ClosureInit
    BY InitUntouched, UntouchedClosure
  <1>2. OrderedSpec => []RootsInv
    BY RootsInvInit, RootsInvStep, Invariance, PTL DEF OrderedSpec
  <1> QED
    BY <1>1, <1>2, ClosureStep, Invariance, PTL
       DEF OrderedSpec, ImplementsClosure, Closure!ClosureSpec

-------------------------------------------------------------------------------
(* The loader: from the argument list to the input sequence.               *)

LazyRef(ref) == HasArchiveMagic(ref.path) /\ ~ref.whole

(* The units of the members of a group's lazy archives.                    *)
UnitsOf(archives) ==
    UNION {Range(Content[archives[j].path].members) : j \in DOMAIN archives}

(* The lazy archives of a group have no more units than it has turns.      *)
Counted(archives, turns) ==
    /\ archives \in Seq(Ref) /\ turns \in Nat
    /\ \A j \in DOMAIN archives : LazyRef(archives[j])
    /\ IsFiniteSet(UnitsOf(archives))
    /\ Cardinality(UnitsOf(archives)) <= turns

(* Where the repetitions of a group begin in the loaded sequence.          *)
Base(s) == s.first + s.size - 1

(* What the loader has put at the place s of the sequence l: the inputs of *)
(* the group, then its lazy archives in every turn.                        *)
SpanIn(s, l) ==
    /\ Counted(s.archives, s.turns)
    /\ s.first \in Nat \ {0} /\ s.size \in Nat \ {0}
    /\ s.last = Base(s) + s.turns * Len(s.archives)
    /\ s.last <= Len(l)
    /\ \A i \in s.first .. s.last :
          LazyRef(l[i]) => \E j \in DOMAIN s.archives : l[i] = s.archives[j]
    /\ \A r \in 0 .. s.turns - 1, j \in DOMAIN s.archives :
          l[Base(s) + r * Len(s.archives) + j] = s.archives[j]

Readable(l) == \A i \in DOMAIN l : Content[l[i].path].kind # "unreadable"

LoadInv ==
    /\ loaded \in Seq(Ref) /\ Readable(loaded)
    /\ files \in Seq(Paths) /\ whole \in BOOLEAN /\ stateStack \in Seq(BOOLEAN)
    /\ groupInputs \in Seq(Ref) /\ Readable(groupInputs)
    /\ Counted(archiveInputs, memberCount)
    /\ \A i \in DOMAIN groupInputs :
          LazyRef(groupInputs[i]) =>
              \E j \in DOMAIN archiveInputs : groupInputs[i] = archiveInputs[j]
    /\ \A g \in DOMAIN groupSpans : SpanIn(groupSpans[g], loaded)

(* The loop waits for the loader, and then runs on what it has loaded.     *)
HandInv ==
    /\ handed \in BOOLEAN
    /\ ~handed => Untouched /\ sequence = <<>>
    /\ handed => loading = "loaded" /\ sequence = StartupInput \o loaded

(* A member waiting to be linked belongs to the archive being visited, and *)
(* the first one picked was asked for by a truthful index entry.           *)
Truthful(in, k) == in.index[k].name \in Defs(in.members[in.index[k].member])
VisitInv ==
    /\ (phase = "members" /\ lazy) => Range(pending) \subseteq Range(Input.members)
    /\ (phase = "scan" /\ picked # <<>>) =>
          \E k \in DOMAIN Input.index :
             Truthful(Input, k) /\ Input.index[k].name \in unresolved

(* No truthful index entry of the archive asks for a member.               *)
Exhausted(ref) ==
    \A k \in DOMAIN Content[ref.path].index :
        Truthful(Content[ref.path], k) =>
            Content[ref.path].index[k].name \notin unresolved
AllExhausted(s) == \A j \in DOMAIN s.archives : Exhausted(s.archives[j])

(* How many units of the group are linked.                                 *)
Taken(s) == Cardinality(UnitsOf(s.archives) \cap Linked)

(* The loop stands after j archives of the turn r.                         *)
AtTurn(s, r, j) == pos = Len(StartupInput) + Base(s) + r * Len(s.archives) + j + 1

(* After r turns the group is exhausted, or each turn has linked a unit at *)
(* least; and if this turn has linked none yet, what it has visited is     *)
(* exhausted.                                                              *)
Progress(s, r, j) ==
    \/ AllExhausted(s)
    \/ Taken(s) >= r + 1
    \/ Taken(s) >= r /\ \A i \in 1 .. j : Exhausted(s.archives[i])

(* The same while the members of the next archive are linked.              *)
ProgressInside(s, r, j) ==
    \/ Taken(s) >= r + 1
    \/ Taken(s) >= r /\ pending # <<>>
    \/ pending = <<>> /\ Progress(s, r, j)

TurnsOf(s) ==
    \A r \in 0 .. s.turns - 1 :
        /\ \A j \in 0 .. Len(s.archives) :
             (AtTurn(s, r, j) /\ phase = "next") => Progress(s, r, j)
        /\ \A j \in 0 .. Len(s.archives) - 1 :
             AtTurn(s, r, j) =>
                /\ phase = "scan" => Progress(s, r, j)
                /\ phase = "members" => ProgressInside(s, r, j)

TurnsInv == handed => \A s \in Range(groupSpans) : TurnsOf(s)

-----------------------------------------------------------------------------
(* The loader.                                                             *)

(* The element of a repetition that a turn and a place in the turn name.   *)
LEMMA RemainderIsPlace ==
    ASSUME NEW n \in Nat \ {0}, NEW r \in Nat, NEW j \in 1 .. n,
           NEW k \in Nat, k = r * n + j
    PROVE  ((k - 1) % n) + 1 = j
  OBVIOUS

LEMMA ProductIsNatural ==
    ASSUME NEW a \in Nat, NEW b \in Nat
    PROVE  a * b \in Nat
  OBVIOUS

LEMMA OneTurnMore ==
    ASSUME NEW n \in Nat, NEW r \in Nat \ {0}
    PROVE  /\ (r - 1) * n + n = r * n
           /\ (r - 1) * n \in Nat /\ r * n \in Nat
  <1>1. r - 1 \in Nat /\ r \in Nat
    OBVIOUS
  <1>2. (r - 1) * n \in Nat /\ r * n \in Nat
    BY <1>1, ProductIsNatural
  <1>3. (r - 1) * n + n = r * n
    OBVIOUS
  <1> QED
    BY <1>2, <1>3

LEMMA TurnFits ==
    ASSUME NEW n \in Nat, NEW t \in Nat, NEW r \in 0 .. t - 1, NEW j \in 1 .. n
    PROVE  r * n + j \in 1 .. t * n
  <1>1. r * n \in Nat /\ t * n \in Nat
    OBVIOUS
  <1>2. (t - 1 - r) * n \in Nat
    OBVIOUS
  <1>3. (t - 1 - r) * n = t * n - n - r * n
    OBVIOUS
  <1> QED
    BY <1>1, <1>2, <1>3

(* What a sequence repeated is, place by place.                            *)
LEMMA RepeatedIs ==
    ASSUME NEW S, NEW s \in Seq(S), NEW t \in Nat
    PROVE  /\ Repeated(s, t) \in Seq(S)
           /\ Len(Repeated(s, t)) = t * Len(s)
           /\ \A k \in 1 .. t * Len(s) : \E j \in DOMAIN s : Repeated(s, t)[k] = s[j]
           /\ \A r \in 0 .. t - 1, j \in DOMAIN s :
                 /\ r * Len(s) + j \in 1 .. t * Len(s)
                 /\ Repeated(s, t)[r * Len(s) + j] = s[j]
  <1> DEFINE f == Repeated(s, t)
  <1>0. PICK n \in Nat : n = Len(s)
    OBVIOUS
  <1>1. DOMAIN s = 1 .. n /\ t * n \in Nat
    BY <1>0
  <1>2. f = [k \in 1 .. t * n |-> s[((k - 1) % n) + 1]]
    BY <1>0 DEF Repeated
  <1>3. ASSUME NEW k \in 1 .. t * n PROVE ((k - 1) % n) + 1 \in 1 .. n
    <2>1. n # 0
      BY <1>1, <1>3
    <2> QED
      BY <1>1, <2>1
  <1> HIDE DEF f
  <1>4. ASSUME NEW k \in 1 .. t * n PROVE \E j \in DOMAIN s : f[k] = s[j]
    BY <1>1, <1>2, <1>3
  <1>5. f \in [1 .. t * n -> S]
    <2>1. ASSUME NEW k \in 1 .. t * n PROVE s[((k - 1) % n) + 1] \in S
      BY <1>1, <1>3
    <2> QED
      BY <1>2, <2>1
  <1>6. f \in Seq(S) /\ Len(f) = t * n
    BY <1>1, <1>5, FunctionSeq
  <1>7. ASSUME NEW r \in 0 .. t - 1, NEW j \in 1 .. n
        PROVE  r * n + j \in 1 .. t * n /\ f[r * n + j] = s[j]
    <2>1. j \in 1 .. n /\ n \in Nat \ {0} /\ r \in Nat
      BY <1>1
    <2>2. r * n + j \in 1 .. t * n
      BY <2>1, TurnFits
    <2>3. PICK k \in 1 .. t * n : k = r * n + j
      BY <2>2
    <2>4. k \in Nat
      OBVIOUS
    <2>5. ((k - 1) % n) + 1 = j
      BY <2>1, <2>3, <2>4, RemainderIsPlace
    <2>6. f[k] = s[j]
      BY <1>2, <2>5
    <2> QED
      BY <2>3, <2>6
  <1> QED
    BY <1>0, <1>1, <1>4, <1>6, <1>7 DEF f

(* A group keeps its place when the loaded sequence grows.                 *)
LEMMA SpanStays ==
    ASSUME NEW l \in Seq(Ref), NEW m \in Seq(Ref), NEW s, SpanIn(s, l)
    PROVE  SpanIn(s, l \o m)
  <1> DEFINE lm == l \o m
  <1>1. Len(lm) = Len(l) + Len(m) /\ Len(l) \in Nat /\ Len(m) \in Nat
        /\ \A i \in 1 .. Len(l) : lm[i] = l[i]
    OBVIOUS
  <1> HIDE DEF lm
  <1>2. /\ s.first \in Nat \ {0} /\ s.size \in Nat \ {0} /\ s.turns \in Nat
        /\ s.archives \in Seq(Ref) /\ s.last = Base(s) + s.turns * Len(s.archives)
        /\ s.last <= Len(l) /\ Base(s) \in Nat
    BY DEF SpanIn, Counted, Base
  <1>3. /\ Len(s.archives) \in Nat /\ DOMAIN s.archives = 1 .. Len(s.archives)
        /\ s.turns * Len(s.archives) \in Nat /\ s.last \in Nat
    <2>1. Len(s.archives) \in Nat /\ DOMAIN s.archives = 1 .. Len(s.archives)
      BY <1>2
    <2>2. s.turns * Len(s.archives) \in Nat
      BY <1>2, <2>1, ProductIsNatural
    <2> QED
      BY <1>2, <2>1, <2>2
  <1>4. ASSUME NEW i \in s.first .. s.last PROVE lm[i] = l[i]
    <2>1. i \in 1 .. Len(l)
      BY <1>1, <1>2, <1>3
    <2> QED
      BY <1>1, <2>1
  <1>5. ASSUME NEW r \in 0 .. s.turns - 1, NEW j \in DOMAIN s.archives
        PROVE  lm[Base(s) + r * Len(s.archives) + j] = l[Base(s) + r * Len(s.archives) + j]
    <2>1. r * Len(s.archives) + j \in 1 .. s.turns * Len(s.archives)
      BY <1>2, <1>3, TurnFits
    <2>2. r * Len(s.archives) \in Nat /\ j \in Nat
      BY <1>3, ProductIsNatural
    <2> DEFINE all == s.turns * Len(s.archives)
               done == r * Len(s.archives)
    <2>3. /\ done \in Nat /\ all \in Nat /\ done + j \in 1 .. all
          /\ Base(s) + all <= Len(l) /\ Base(s) \in Nat
      BY <1>2, <1>3, <2>1, <2>2
    <2> HIDE DEF all, done
    <2>4. Base(s) + done + j \in 1 .. Len(l)
      BY <1>1, <2>2, <2>3
    <2> QED
      BY <1>1, <2>4 DEF done
  <1>6. s.last <= Len(lm)
    BY <1>1, <1>2, <1>3
  <1> QED
    BY <1>2, <1>4, <1>5, <1>6, Zenon DEF SpanIn, lm

(* One archive more has no more units than it has members.                 *)
LEMMA UnitsOfAppend ==
    ASSUME NEW archives \in Seq(Ref), NEW ref \in Ref
    PROVE  UnitsOf(Append(archives, ref)) =
               UnitsOf(archives) \cup Range(Content[ref.path].members)
  <1> DEFINE t == Append(archives, ref)
  <1>1. /\ DOMAIN t = DOMAIN archives \cup {Len(archives) + 1}
        /\ \A i \in DOMAIN archives : t[i] = archives[i]
        /\ t[Len(archives) + 1] = ref
    OBVIOUS
  <1> HIDE DEF t
  <1>2. ASSUME NEW u
        PROVE  u \in UnitsOf(t) <=> u \in UnitsOf(archives) \cup Range(Content[ref.path].members)
    BY <1>1 DEF UnitsOf
  <1> QED
    BY <1>2 DEF t

LEMMA RangeIsBounded ==
    ASSUME NEW S, NEW s \in Seq(S)
    PROVE  IsFiniteSet(Range(s)) /\ Cardinality(Range(s)) <= Len(s)
           /\ Cardinality(Range(s)) \in Nat
  <1>1. Len(s) \in Nat /\ DOMAIN s = 1 .. Len(s)
    OBVIOUS
  <1>2. IsFiniteSet(DOMAIN s) /\ Cardinality(DOMAIN s) = Len(s)
    BY <1>1, FS_Interval
  <1>3. s \in Surjection(DOMAIN s, Range(s))
    <2>1. s \in [DOMAIN s -> Range(s)]
      BY <1>1 DEF Range
    <2> QED
      BY <2>1, Zenon DEF Surjection, Range
  <1> QED
    BY <1>2, <1>3, FS_Surjection, FS_CardinalityType

LEMMA CountedAppend ==
    ASSUME NEW archives, NEW n, Counted(archives, n), NEW ref \in Ref, LazyRef(ref)
    PROVE  Counted(Append(archives, ref), n + Len(Content[ref.path].members))
  <1> DEFINE members == Content[ref.path].members
  <1>1. /\ archives \in Seq(Ref) /\ n \in Nat
        /\ IsFiniteSet(UnitsOf(archives)) /\ Cardinality(UnitsOf(archives)) <= n
    BY DEF Counted
  <1>2. members \in Seq(Units) /\ Len(members) \in Nat
    BY FileTypes DEF Ref
  <1>3. /\ IsFiniteSet(Range(members)) /\ Cardinality(Range(members)) <= Len(members)
        /\ Cardinality(Range(members)) \in Nat /\ Cardinality(UnitsOf(archives)) \in Nat
    BY <1>1, <1>2, RangeIsBounded, FS_CardinalityType
  <1>4. IsFiniteSet(UnitsOf(archives) \cap Range(members))
        /\ Cardinality(UnitsOf(archives) \cap Range(members)) \in Nat
    BY <1>1, FS_Intersection, FS_CardinalityType
  <1> DEFINE both == UnitsOf(archives) \cup Range(members)
  <1>5. /\ IsFiniteSet(both)
        /\ Cardinality(both) = Cardinality(UnitsOf(archives)) + Cardinality(Range(members))
                               - Cardinality(UnitsOf(archives) \cap Range(members))
    BY <1>1, <1>3, FS_Union
  <1>6. UnitsOf(Append(archives, ref)) = both
    BY <1>1, UnitsOfAppend
  <1>7. \A j \in DOMAIN Append(archives, ref) : LazyRef(Append(archives, ref)[j])
    BY <1>1 DEF Counted
  <1>8. Cardinality(both) <= n + Len(members) /\ n + Len(members) \in Nat
    BY <1>1, <1>2, <1>3, <1>4, <1>5
  <1>9. Append(archives, ref) \in Seq(Ref)
    BY <1>1
  <1> HIDE DEF both, members
  <1>10. Counted(Append(archives, ref), n + Len(members))
    BY <1>5, <1>6, <1>7, <1>8, <1>9, Zenon DEF Counted
  <1> QED
    BY <1>10 DEF members

LEMMA NothingCounted == Counted(<<>>, 0)
  <1>1. UnitsOf(<<>>) = {}
    BY DEF UnitsOf
  <1> QED
    BY <1>1, FS_EmptySet, EmptySeq DEF Counted

(* The state the loader starts in, whatever the arguments.                 *)
LEMMA LoadStartsWell ==
    ASSUME NEW c, NEW a, NEW refusal, LoadStarts(c, a, refusal)
    PROVE  LoadInv
  <1>1. /\ loaded = <<>> /\ files = <<>> /\ whole = FALSE /\ stateStack = <<>>
        /\ groupInputs = <<>> /\ archiveInputs = <<>> /\ memberCount = 0
        /\ groupSpans = <<>>
    BY DEF LoadStarts
  <1>2. /\ loaded \in Seq(Ref) /\ files \in Seq(Paths) /\ stateStack \in Seq(BOOLEAN)
        /\ groupInputs \in Seq(Ref) /\ whole \in BOOLEAN
    BY <1>1, EmptySeq
  <1> QED
    BY <1>1, <1>2, NothingCounted DEF LoadInv, Readable

(* A step that touches no input.                                           *)
LEMMA LoadUntouched ==
    ASSUME LoadInv, whole' \in BOOLEAN, stateStack' \in Seq(BOOLEAN),
           UNCHANGED <<files, loaded, groupSpans, groupInputs, archiveInputs, memberCount>>
    PROVE  LoadInv'
  BY DEF LoadInv, Readable

(* The file being read becomes a well typed input, if it can be read.      *)
LEMMA NewInputIsRef ==
    ASSUME LoadInv, Reading(Paths)
    PROVE  /\ Token \in Paths
           /\ NewInput(Token) \in Ref
           /\ NewInput(Token).path = Token
           /\ LazyRef(NewInput(Token)) <=> Rescanned(Token)
           /\ Append(files, Token) \in Seq(Paths)
  <1>1. Token \in Paths /\ Len(files) + 1 \in Nat /\ whole \in BOOLEAN
    BY DEF Reading, LoadInv
  <1>2. NewInput(Token) \in Ref /\ NewInput(Token).path = Token
    BY <1>1 DEF NewInput, Ref
  <1>3. LazyRef(NewInput(Token)) <=> Rescanned(Token)
    BY DEF LazyRef, NewInput, Rescanned
  <1> QED
    BY <1>1, <1>2, <1>3 DEF LoadInv

(* A readable input appended leaves the sequence readable.                 *)
LEMMA ReadableAppend ==
    ASSUME NEW l \in Seq(Ref), Readable(l), NEW ref \in Ref,
           Content[ref.path].kind # "unreadable"
    PROVE  Append(l, ref) \in Seq(Ref) /\ Readable(Append(l, ref))
  BY DEF Readable

LEMMA ReadableConcat ==
    ASSUME NEW l \in Seq(Ref), Readable(l), NEW m \in Seq(Ref), Readable(m)
    PROVE  l \o m \in Seq(Ref) /\ Readable(l \o m)
  BY DEF Readable

LEMMA ReadInputStep == LoadInv /\ ReadInput => LoadInv'
  <1> SUFFICES ASSUME LoadInv, ReadInput PROVE LoadInv'
    OBVIOUS
  <1>1. CASE Content[Token].kind = "unreadable"
    <2>1. UNCHANGED <<whole, stateStack, files, loaded, groupSpans, groupInputs,
                      archiveInputs, memberCount>>
      BY <1>1 DEF ReadInput, Refuse
    <2> QED
      BY <2>1, LoadUntouched DEF LoadInv
  <1>2. CASE Content[Token].kind # "unreadable"
    <2> DEFINE ref == NewInput(Token)
    <2>1. /\ ref \in Ref /\ ref.path = Token /\ Append(files, Token) \in Seq(Paths)
      BY NewInputIsRef DEF ReadInput
    <2>2. /\ files' = Append(files, Token) /\ loaded' = Append(loaded, ref)
          /\ UNCHANGED <<whole, stateStack, groupSpans, groupInputs, archiveInputs, memberCount>>
      BY <1>2 DEF ReadInput, groupVars
    <2> HIDE DEF ref
    <2>3. loaded' \in Seq(Ref) /\ Readable(loaded')
      BY <1>2, <2>1, <2>2, ReadableAppend DEF LoadInv
    <2>4. ASSUME NEW g \in DOMAIN groupSpans PROVE SpanIn(groupSpans[g], loaded')
      <3>1. loaded' = loaded \o <<ref>> /\ <<ref>> \in Seq(Ref)
        BY <2>1, <2>2 DEF LoadInv
      <3> QED
        BY <3>1, SpanStays DEF LoadInv
    <2> QED
      BY <2>1, <2>2, <2>3, <2>4 DEF LoadInv, Readable
  <1> QED
    BY <1>1, <1>2

LEMMA ReadGroupInputStep == LoadInv /\ ReadGroupInput => LoadInv'
  <1> SUFFICES ASSUME LoadInv, ReadGroupInput PROVE LoadInv'
    OBVIOUS
  <1>1. CASE Content[Token].kind = "unreadable"
             \/ (Rescanned(Token) /\ Content[Token].kind = "badarchive")
    <2>1. UNCHANGED <<whole, stateStack, files, loaded, groupSpans, groupInputs,
                      archiveInputs, memberCount>>
      BY <1>1 DEF ReadGroupInput, Refuse
    <2> QED
      BY <2>1, LoadUntouched DEF LoadInv
  <1>2. CASE ~(Content[Token].kind = "unreadable"
               \/ (Rescanned(Token) /\ Content[Token].kind = "badarchive"))
    <2> DEFINE ref == NewInput(Token)
    <2>1. /\ ref \in Ref /\ ref.path = Token /\ Append(files, Token) \in Seq(Paths)
          /\ LazyRef(ref) <=> Rescanned(Token)
      BY NewInputIsRef DEF ReadGroupInput
    <2>2. /\ files' = Append(files, Token) /\ groupInputs' = Append(groupInputs, ref)
          /\ archiveInputs' = IF Rescanned(Token) THEN Append(archiveInputs, ref)
                              ELSE archiveInputs
          /\ memberCount' = IF Rescanned(Token)
                            THEN memberCount + Len(Content[Token].members)
                            ELSE memberCount
          /\ UNCHANGED <<whole, stateStack, groupSpans, loaded>>
      BY <1>2 DEF ReadGroupInput
    <2> HIDE DEF ref
    <2>3. groupInputs' \in Seq(Ref) /\ Readable(groupInputs')
      BY <1>2, <2>1, <2>2, ReadableAppend DEF LoadInv
    <2>4. Counted(archiveInputs', memberCount')
      BY <2>1, <2>2, CountedAppend DEF LoadInv
    <2>5. ASSUME NEW i \in DOMAIN groupInputs', LazyRef(groupInputs'[i])
          PROVE  \E j \in DOMAIN archiveInputs' : groupInputs'[i] = archiveInputs'[j]
      <3>0. groupInputs \in Seq(Ref) /\ archiveInputs \in Seq(Ref)
        BY DEF LoadInv, Counted
      <3>1. CASE i \in DOMAIN groupInputs
        <4>1. groupInputs'[i] = groupInputs[i]
          BY <2>2, <3>0, <3>1
        <4>2. PICK j \in DOMAIN archiveInputs : groupInputs[i] = archiveInputs[j]
          BY <2>5, <3>1, <4>1 DEF LoadInv
        <4>3. j \in DOMAIN archiveInputs' /\ archiveInputs'[j] = archiveInputs[j]
          BY <2>2, <3>0
        <4> QED
          BY <4>1, <4>2, <4>3
      <3>2. CASE i \notin DOMAIN groupInputs
        <4>1. i = Len(groupInputs) + 1 /\ groupInputs'[i] = ref
          BY <2>2, <2>5, <3>0, <3>2
        <4>2. archiveInputs' = Append(archiveInputs, ref)
          BY <2>1, <2>2, <2>5, <4>1
        <4> QED
          BY <3>0, <4>1, <4>2
      <3> QED
        BY <3>1, <3>2
    <2> QED
      BY <2>1, <2>2, <2>3, <2>4, <2>5 DEF LoadInv, Readable
  <1> QED
    BY <1>1, <1>2

(* A sequence with two others after it.                                    *)
LEMMA ThreeParts ==
    ASSUME NEW S, NEW l \in Seq(S), NEW g \in Seq(S), NEW a \in Seq(S)
    PROVE  /\ Len((l \o g) \o a) = Len(l) + Len(g) + Len(a)
           /\ \A i \in 1 .. Len(g) : ((l \o g) \o a)[Len(l) + i] = g[i]
           /\ \A k \in 1 .. Len(a) : ((l \o g) \o a)[Len(l) + Len(g) + k] = a[k]
  <1>1. /\ l \o g \in Seq(S) /\ Len(l \o g) = Len(l) + Len(g)
        /\ \A i \in 1 .. Len(g) : (l \o g)[Len(l) + i] = g[i]
    OBVIOUS
  <1> DEFINE lg == l \o g
  <1> HIDE DEF lg
  <1>3. /\ lg \in Seq(S) /\ Len(lg) = Len(l) + Len(g)
        /\ \A i \in 1 .. Len(g) : lg[Len(l) + i] = g[i]
    BY <1>1 DEF lg
  <1>4. /\ lg \o a \in Seq(S) /\ Len(lg \o a) = Len(lg) + Len(a)
        /\ \A i \in 1 .. Len(lg) : (lg \o a)[i] = lg[i]
        /\ \A k \in 1 .. Len(a) : (lg \o a)[Len(lg) + k] = a[k]
    <2>1. lg \in Seq(S) /\ Len(lg) \in Nat /\ Len(a) \in Nat
      BY <1>3
    <2>2. /\ lg \o a \in Seq(S) /\ Len(lg \o a) = Len(lg) + Len(a)
          /\ \A i \in 1 .. Len(lg) + Len(a) : (lg \o a)[i] =
                IF i <= Len(lg) THEN lg[i] ELSE a[i - Len(lg)]
      BY <2>1, ConcatProperties
    <2> QED
      BY <2>1, <2>2
  <1>5. \A i \in 1 .. Len(g) : Len(l) + i \in 1 .. Len(lg)
    BY <1>3
  <1> QED
    BY <1>3, <1>4, <1>5 DEF lg

LEMMA EndGroupStep == LoadInv /\ EndGroup => LoadInv'
  <1> SUFFICES ASSUME LoadInv, EndGroup PROVE LoadInv'
    OBVIOUS
  <1>1. CASE ~inGroup \/ groupInputs = <<>>
    <2>1. UNCHANGED <<whole, stateStack, files, loaded, groupSpans, groupInputs,
                      archiveInputs, memberCount>>
      BY <1>1 DEF EndGroup, Refuse
    <2> QED
      BY <2>1, LoadUntouched DEF LoadInv
  <1>2. CASE inGroup /\ groupInputs # <<>>
    <2> DEFINE again == Repetitions(archiveInputs, memberCount)
               added == groupInputs \o again
               s == [first |-> Len(loaded) + 1, last |-> Len(loaded'),
                     size |-> Len(groupInputs),
                     archives |-> archiveInputs, turns |-> memberCount]
               n == Len(archiveInputs)
    <2>1. /\ loaded' = (loaded \o groupInputs) \o again
          /\ groupSpans' = Append(groupSpans, s)
          /\ UNCHANGED <<whole, stateStack, files, groupInputs, archiveInputs, memberCount>>
      BY <1>2 DEF EndGroup
    <2>2. /\ loaded \in Seq(Ref) /\ groupInputs \in Seq(Ref) /\ archiveInputs \in Seq(Ref)
          /\ memberCount \in Nat /\ Len(groupInputs) \in Nat \ {0} /\ n \in Nat
          /\ Readable(loaded) /\ Readable(groupInputs)
          /\ Counted(archiveInputs, memberCount)
          /\ DOMAIN archiveInputs = 1 .. n
      BY <1>2 DEF LoadInv, Counted
    <2>3. /\ again \in Seq(Ref) /\ Len(again) = memberCount * n
          /\ memberCount * n \in Nat
          /\ \A k \in 1 .. memberCount * n : \E j \in DOMAIN archiveInputs : again[k] = archiveInputs[j]
          /\ \A r \in 0 .. memberCount - 1, j \in DOMAIN archiveInputs :
                /\ r * n + j \in 1 .. memberCount * n
                /\ again[r * n + j] = archiveInputs[j]
      BY <2>2, RepeatedIs, ProductIsNatural DEF Repetitions
    <2> HIDE DEF again
    <2>4. added \in Seq(Ref) /\ loaded' = loaded \o added /\ loaded' \in Seq(Ref)
      <3>1. /\ (loaded \o groupInputs) \o again = loaded \o (groupInputs \o again)
            /\ groupInputs \o again \in Seq(Ref)
            /\ (loaded \o groupInputs) \o again \in Seq(Ref)
        <4>1. loaded \in Seq(Ref) /\ groupInputs \in Seq(Ref) /\ again \in Seq(Ref)
          BY <2>2, <2>3
        <4>2. (loaded \o groupInputs) \o again = loaded \o (groupInputs \o again)
          BY <4>1, ConcatAssociative
        <4> QED
          BY <4>1, <4>2
      <3> QED
        BY <2>1, <3>1
    <2>5. Readable(again)
      <3>1. ASSUME NEW k \in DOMAIN again PROVE Content[again[k].path].kind # "unreadable"
        <4>1. PICK j \in DOMAIN archiveInputs : again[k] = archiveInputs[j]
          BY <2>3
        <4> QED
          BY <2>2, <4>1 DEF Counted, LazyRef, HasArchiveMagic
      <3> QED
        BY <3>1 DEF Readable
    <2>6. Readable(loaded')
      BY <2>1, <2>2, <2>3, <2>5, ReadableConcat
    <2>7. SpanIn(s, loaded')
      <3> DEFINE all == memberCount * n
                 before == Len(loaded) + Len(groupInputs)
      <3>1. /\ Len(loaded) \in Nat /\ before \in Nat /\ all \in Nat
            /\ Len(loaded') = before + all
            /\ \A i \in 1 .. Len(groupInputs) : loaded'[Len(loaded) + i] = groupInputs[i]
            /\ \A k \in 1 .. all : loaded'[before + k] = again[k]
        <4> HIDE DEF all, n
        <4>1. Len(again) = all /\ all \in Nat /\ again \in Seq(Ref)
          BY <2>3 DEF all
        <4>2. Len(loaded) \in Nat /\ before \in Nat
          BY <2>2
        <4>3. /\ Len(loaded') = Len(loaded) + Len(groupInputs) + Len(again)
              /\ \A i \in 1 .. Len(groupInputs) : loaded'[Len(loaded) + i] = groupInputs[i]
              /\ \A k \in 1 .. Len(again) : loaded'[Len(loaded) + Len(groupInputs) + k] = again[k]
          <5> DEFINE l3 == (loaded \o groupInputs) \o again
          <5>1. /\ Len(l3) = Len(loaded) + Len(groupInputs) + Len(again)
                /\ \A i \in 1 .. Len(groupInputs) : l3[Len(loaded) + i] = groupInputs[i]
                /\ \A k \in 1 .. Len(again) : l3[Len(loaded) + Len(groupInputs) + k] = again[k]
            <6>1. loaded \in Seq(Ref) /\ groupInputs \in Seq(Ref) /\ again \in Seq(Ref)
              BY <2>2, <4>1
            <6> QED
              BY <6>1, ThreeParts
          <5>2. loaded' = l3
            BY <2>1
          <5> HIDE DEF l3
          <5> QED
            BY <5>1, <5>2
        <4> QED
          BY <4>1, <4>2, <4>3
      <3>2. /\ s.first = Len(loaded) + 1 /\ s.last = Len(loaded') /\ s.size = Len(groupInputs)
            /\ s.archives = archiveInputs /\ s.turns = memberCount
        OBVIOUS
      <3>3. Base(s) = before
        BY <2>2, <3>1 DEF Base
      <3> HIDE DEF s, all, before
      <3>4. ASSUME NEW i \in s.first .. s.last, LazyRef(loaded'[i])
            PROVE  \E j \in DOMAIN archiveInputs : loaded'[i] = archiveInputs[j]
        <4>1. CASE i <= before
          <5>1. i - Len(loaded) \in 1 .. Len(groupInputs)
                /\ i = Len(loaded) + (i - Len(loaded))
            BY <2>2, <3>1, <3>2, <4>1 DEF before
          <5>2. loaded'[i] = groupInputs[i - Len(loaded)]
            BY <3>1, <5>1
          <5> QED
            BY <2>2, <3>4, <5>1, <5>2 DEF LoadInv
        <4>2. CASE i > before
          <5>1. i - before \in 1 .. all /\ i = before + (i - before)
            BY <3>1, <3>2, <4>2
          <5>2. loaded'[i] = again[i - before]
            BY <3>1, <5>1
          <5> QED
            BY <2>3, <5>1, <5>2 DEF all
        <4> QED
          BY <3>1, <3>2, <4>1, <4>2
      <3>5. ASSUME NEW r \in 0 .. memberCount - 1, NEW j \in DOMAIN archiveInputs
            PROVE  loaded'[before + r * n + j] = archiveInputs[j]
        <4> DEFINE k == r * n + j
        <4>1. k \in 1 .. all /\ again[k] = archiveInputs[j]
          BY <2>3 DEF all
        <4>2. r * n \in Nat /\ j \in Nat
          BY <2>2, ProductIsNatural
        <4>3. before + r * n + j = before + k
          BY <3>1, <4>2
        <4> HIDE DEF k
        <4> QED
          BY <3>1, <4>1, <4>3
      <3>6. s.last = Base(s) + s.turns * Len(s.archives)
        BY <3>1, <3>2, <3>3 DEF all
      <3>7. /\ s.first \in Nat \ {0} /\ s.size \in Nat \ {0} /\ s.last <= Len(loaded')
            /\ Counted(s.archives, s.turns)
        BY <2>2, <2>4, <3>1, <3>2
      <3> QED
        BY <3>2, <3>3, <3>4, <3>5, <3>6, <3>7, Zenon DEF SpanIn
    <2> HIDE DEF s
    <2>8. ASSUME NEW g \in DOMAIN groupSpans PROVE SpanIn(groupSpans[g], loaded')
      BY <2>2, <2>4, SpanStays DEF LoadInv
    <2>9. ASSUME NEW g \in DOMAIN groupSpans' PROVE SpanIn(groupSpans'[g], loaded')
      BY <2>1, <2>7, <2>8, <2>9
    <2> QED
      BY <2>1, <2>4, <2>6, <2>9 DEF LoadInv, Readable
  <1> QED
    BY <1>1, <1>2

LEMMA LoadStep == LoadInv /\ LoadNext => LoadInv'
  <1> SUFFICES ASSUME LoadInv, LoadNext PROVE LoadInv'
    OBVIOUS
  <1>0. whole \in BOOLEAN /\ stateStack \in Seq(BOOLEAN)
    BY DEF LoadInv
  <1> USE DEF Refuse, groupVars, outputVars, fixedVars, loadVars
  <1>1. CASE PushState
    BY <1>0, <1>1, LoadUntouched DEF PushState
  <1>2. CASE PopState
    <2>1. CASE stateStack = <<>>
      BY <1>0, <1>2, <2>1, LoadUntouched DEF PopState
    <2>2. CASE stateStack # <<>>
      <3>1. Last(stateStack) \in BOOLEAN /\ Front(stateStack) \in Seq(BOOLEAN)
        BY <1>0, <2>2 DEF Last, Front
      <3> QED
        BY <1>2, <2>2, <3>1, LoadUntouched DEF PopState
    <2> QED
      BY <2>1, <2>2
  <1>3. CASE SetWhole
    BY <1>0, <1>3, LoadUntouched DEF SetWhole
  <1>4. CASE StartGroup
    <2>1. CASE inGroup
      BY <1>0, <1>4, <2>1, LoadUntouched DEF StartGroup
    <2>2. CASE ~inGroup
      <3>1. /\ groupInputs' = <<>> /\ archiveInputs' = <<>> /\ memberCount' = 0
            /\ UNCHANGED <<whole, stateStack, files, loaded, groupSpans>>
        BY <1>4, <2>2 DEF StartGroup
      <3> QED
        BY <3>1, NothingCounted, EmptySeq DEF LoadInv, Readable
    <2> QED
      BY <2>1, <2>2
  <1>5. CASE ReadInput
    BY <1>5, ReadInputStep
  <1>6. CASE ReadGroupInput
    BY <1>6, ReadGroupInputStep
  <1>7. CASE EndGroup
    BY <1>7, EndGroupStep
  <1>8. CASE EndArguments
    BY <1>0, <1>8, LoadUntouched DEF EndArguments
  <1> QED
    BY <1>1, <1>2, <1>3, <1>4, <1>5, <1>6, <1>7, <1>8 DEF LoadNext

-----------------------------------------------------------------------------
(* The loop over the inputs.                                               *)

(* What VisitInv says of a visit is set up by the scan's first turn and    *)
(* kept to its end.                                                        *)
LEMMA VisitStep ==
    Inv /\ VisitInv /\ [OrderedNext \/ Stopped]_ordVars => VisitInv'
  <1> SUFFICES ASSUME Inv, VisitInv, [OrderedNext \/ Stopped]_ordVars PROVE VisitInv'
    OBVIOUS
  <1>0. TypeOK /\ PlaceInv /\ SetsInv /\ ScanInv
    BY DEF Inv
  <1>f. ASSUME phase' \notin {"scan", "members"} PROVE VisitInv'
    BY <1>f DEF VisitInv
  <1>1. CASE LinkObject \/ EndArchive \/ Finish
    BY <1>1, <1>f DEF LinkObject, AtInput, EndArchive, Finish, Fail
  <1>2. CASE BeginWhole \/ BeginScan
    BY <1>2 DEF BeginWhole, BeginScan, VisitInv, Fail
  <1>3. CASE ScanMember
    <2>1. phase = "scan" /\ pos \in DOMAIN sequence
      BY <1>0, <1>3 DEF ScanMember, TypeOK
    <2>2. CASE phase' = "failed"
      BY <1>f, <2>2
    <2>3. CASE phase' # "failed"
      <3>1. PICK i \in Asking(Input, scanUnresolved, picked) :
              /\ Truthful(Input, i)
              /\ UNCHANGED <<sequence, pos, unresolved, phase>>
        BY <1>3, <2>3 DEF ScanMember, Fail, Truthful
      <3>2. Input' = Input
        BY <3>1 DEF Input
      <3>3. CASE picked # <<>>
        BY <2>1, <3>1, <3>2, <3>3 DEF VisitInv
      <3>4. CASE picked = <<>>
        <4>1. Coming = <<>> /\ ScanUnderway
          BY <2>1, <3>4 DEF Coming, ScanUnderway
        <4>2. DefsIn(Coming) = {} /\ AsksIn(Coming) = {}
          BY <4>1, NamesOfNone
        <4>3. scanUnresolved = unresolved
          BY <1>0, <4>1, <4>2 DEF ScanInv, SetsInv
        <4>4. i \in DOMAIN Input.index /\ Input.index[i].name \in unresolved
          BY <3>1, <4>3 DEF Asking
        <4> QED
          BY <2>1, <3>1, <3>2, <4>4 DEF VisitInv
      <3> QED
        BY <3>3, <3>4
    <2> QED
      BY <2>2, <2>3
  <1>4. CASE EndScan
    <2>1. /\ phase = "scan" /\ phase' = "members"
          /\ pending' = [k \in DOMAIN picked |-> Input.members[picked[k]]]
          /\ UNCHANGED <<sequence, pos>>
      BY <1>4 DEF EndScan
    <2>2. Input' = Input
      BY <2>1 DEF Input
    <2>3. \A k \in DOMAIN picked : picked[k] \in DOMAIN Input.members
      BY <1>0, <2>1 DEF PlaceInv
    <2>4. Range(pending') \subseteq Range(Input.members)
      BY <2>1, <2>3 DEF Range
    <2> QED
      BY <2>1, <2>2, <2>4 DEF VisitInv
  <1>5. CASE LinkMember
    <2>1. CASE phase' = "failed"
      BY <1>f, <2>1
    <2>2. CASE phase' # "failed"
      <3>1. /\ phase = "members" /\ pending \in Seq(Units) /\ pending # <<>>
            /\ pending' = Tail(pending) /\ UNCHANGED <<sequence, pos, phase, lazy>>
        BY <1>0, <1>5, <2>2 DEF LinkMember, Fail, TypeOK
      <3>2. Range(pending') \subseteq Range(pending)
        <4>1. \A i \in DOMAIN pending' : i + 1 \in DOMAIN pending /\ pending'[i] = pending[i + 1]
          BY <3>1
        <4> QED
          BY <4>1 DEF Range
      <3>3. Input' = Input
        BY <3>1 DEF Input
      <3> QED
        BY <3>1, <3>2, <3>3 DEF VisitInv
    <2> QED
      BY <2>1, <2>2
  <1>6. CASE Stopped \/ UNCHANGED ordVars
    BY <1>6 DEF Stopped, ordVars, VisitInv, Input
  <1> QED
    BY <1>1, <1>2, <1>3, <1>4, <1>5, <1>6 DEF OrderedNext

(* The next extracted member is not linked yet.                            *)
LEMMA NextIsNew ==
    ASSUME Inv, phase = "members", lazy, pending # <<>>
    PROVE  Head(pending) \notin Linked
  <1>1. PICK n \in Defs(Head(pending)) : n \in unresolved
    BY NextIsAskedFor
  <1>2. defined = UNION {Defs(u) : u \in Linked} /\ n \notin defined
    BY <1>1, NeededIsUnresolved DEF Inv, SetsInv
  <1> QED
    BY <1>1, <1>2

(* What is linked of a group never becomes less, and one unit of it more is*)
(* one more.                                                               *)
LEMMA TakenGrows ==
    ASSUME NEW s, Counted(s.archives, s.turns), Linked \subseteq Linked'
    PROVE  /\ Taken(s) \in Nat /\ Taken(s)' \in Nat /\ Taken(s)' >= Taken(s)
           /\ \A u \in UnitsOf(s.archives) :
                 (u \notin Linked /\ u \in Linked') => Taken(s)' >= Taken(s) + 1
  <1> DEFINE before == UnitsOf(s.archives) \cap Linked
             after  == UnitsOf(s.archives) \cap Linked'
  <1>1. IsFiniteSet(UnitsOf(s.archives))
    BY DEF Counted
  <1>2. IsFiniteSet(before) /\ IsFiniteSet(after)
    BY <1>1, FS_Intersection
  <1>3. before \subseteq after
    OBVIOUS
  <1>4. Taken(s) = Cardinality(before) /\ Taken(s)' = Cardinality(after)
    BY DEF Taken
  <1> HIDE DEF before, after
  <1>5. /\ Cardinality(before) \in Nat /\ Cardinality(after) \in Nat
        /\ Cardinality(before) <= Cardinality(after)
        /\ Cardinality(before) = Cardinality(after) => before = after
    BY <1>2, <1>3, FS_Subset, FS_CardinalityType
  <1>6. ASSUME NEW u \in UnitsOf(s.archives), u \notin Linked, u \in Linked'
        PROVE  before # after
    BY <1>6 DEF before, after
  <1> QED
    BY <1>4, <1>5, <1>6

(* A step that links nothing changes nothing the turns speak of.           *)
LEMMA ProgressStays ==
    ASSUME UNCHANGED <<objects, unresolved>>, NEW s, NEW r, NEW j
    PROVE  /\ Progress(s, r, j)' <=> Progress(s, r, j)
           /\ Taken(s)' = Taken(s)
  <1>1. Taken(s)' = Taken(s)
    BY LinkedUnchanged DEF Taken
  <1>2. ASSUME NEW ref PROVE Exhausted(ref)' <=> Exhausted(ref)
    BY DEF Exhausted
  <1>3. AllExhausted(s)' <=> AllExhausted(s)
    BY <1>2 DEF AllExhausted
  <1> QED
    BY <1>1, <1>2, <1>3 DEF Progress

(* The scan just ended has exhausted the archive.                          *)
LEMMA VisitedIsExhausted ==
    ASSUME Inv, phase = "members", lazy, pending = <<>>
    PROVE  Exhausted(sequence[pos])
  <1>1. ScannedArchiveIsExhausted
    BY InvScanAgrees, InvExhausts
  <1> QED
    BY <1>1 DEF ScannedArchiveIsExhausted, Exhausted, Truthful, Input

(* The archives of a group, turn by turn, as the loop meets them.          *)
Placed(s) ==
    /\ Counted(s.archives, s.turns) /\ Base(s) \in Nat \ {0}
    /\ \A r \in 0 .. s.turns - 1, j \in 0 .. Len(s.archives) - 1 :
          AtTurn(s, r, j) =>
             pos \in DOMAIN sequence /\ sequence[pos] = s.archives[j + 1]

(* No visit skips an archive of the group: the step that reaches the place *)
(* after the archive j of a turn ends the visit of that archive.           *)
LEMMA TurnArrives ==
    ASSUME Inv, RootsInv, NEW s, Placed(s), TurnsOf(s),
           [OrderedNext \/ Stopped]_ordVars, UNCHANGED crt,
           NEW r \in 0 .. s.turns - 1, NEW j \in 1 .. Len(s.archives),
           AtTurn(s, r, j)', phase' = "next"
    PROVE  Progress(s, r, j)'
  <1>0. /\ s.archives \in Seq(Ref) /\ Len(s.archives) \in Nat /\ s.turns \in Nat
        /\ \A i \in DOMAIN s.archives : LazyRef(s.archives[i])
        /\ DOMAIN s.archives = 1 .. Len(s.archives)
    BY DEF Placed, Counted
  <1>1. TypeOK /\ pos \in Nat \ {0} /\ lazy \in BOOLEAN
    BY DEF Inv, TypeOK
  <1>2. r * Len(s.archives) \in Nat /\ Base(s) \in Nat
    BY <1>0, ProductIsNatural DEF Placed
  <1>3. Len(StartupInput) \in Nat /\ StartupInput' = StartupInput
    BY DEF StartupInput
  <1>4. CASE pos' = pos /\ phase = "next" /\ UNCHANGED <<objects, unresolved>>
    <2>1. AtTurn(s, r, j)
      BY <1>3, <1>4 DEF AtTurn, Base
    <2>2. Progress(s, r, j)
      BY <1>0, <1>4, <2>1 DEF TurnsOf
    <2> QED
      BY <1>4, <2>2, ProgressStays
  <1>5. CASE pos' = pos + 1
    <2>1. AtTurn(s, r, j - 1) /\ j - 1 \in 0 .. Len(s.archives) - 1
      <3> DEFINE done == r * Len(s.archives)
      <3>1. /\ done \in Nat /\ pos' = Len(StartupInput) + Base(s) + done + j + 1
            /\ Base(s) \in Nat /\ Len(StartupInput) \in Nat
        BY <1>2, <1>3 DEF AtTurn, Base
      <3> HIDE DEF done
      <3>2. pos = Len(StartupInput) + Base(s) + done + (j - 1) + 1
        BY <1>0, <1>1, <1>5, <3>1
      <3> QED
        BY <1>0, <3>2 DEF AtTurn, done
    <2>2. pos \in DOMAIN sequence /\ sequence[pos] = s.archives[j] /\ LazyRef(sequence[pos])
      <3>1. (j - 1) + 1 = j /\ j \in DOMAIN s.archives
        BY <1>0
      <3> QED
        BY <1>0, <2>1, <3>1 DEF Placed
    <2>3. /\ phase = "members" /\ pending = <<>> /\ UNCHANGED <<objects, unresolved>>
      <3>1. ~NamedOutright(sequence[pos]) /\ HasArchiveMagic(sequence[pos].path)
        BY <2>2 DEF LazyRef, NamedOutright
      <3>2. ~LinkObject
        BY <3>1 DEF LinkObject
      <3>3. EndArchive
        BY <1>1, <1>5, <3>2 DEF OrderedNext, BeginWhole, BeginScan, ScanMember, EndScan,
             LinkMember, Finish, Stopped, ordVars, Fail
      <3> QED
        BY <3>3 DEF EndArchive
    <2>4. lazy
      BY <1>1, <2>2, <2>3 DEF RootsInv, LazyRef, NamedOutright
    <2>5. Exhausted(s.archives[j])
      BY <2>2, <2>3, <2>4, VisitedIsExhausted
    <2>6. ProgressInside(s, r, j - 1)
      BY <2>1, <2>3 DEF TurnsOf
    <2>7. Taken(s) >= r + 1 \/ Progress(s, r, j - 1)
      BY <2>3, <2>6 DEF ProgressInside
    <2>8. \A i \in 1 .. j : i \in 1 .. j - 1 \/ i = j
      BY <1>0
    <2>9. Progress(s, r, j)
      BY <2>5, <2>7, <2>8, Zenon DEF Progress
    <2> QED
      BY <2>3, <2>9, ProgressStays
  <1>6. \/ pos' = pos + 1
        \/ pos' = pos /\ phase = "next" /\ UNCHANGED <<objects, unresolved>>
    BY <1>1 DEF OrderedNext, LinkObject, BeginWhole, BeginScan, ScanMember, EndScan,
         LinkMember, EndArchive, Finish, Stopped, ordVars, Fail
  <1> QED
    BY <1>4, <1>5, <1>6

(* Turn after turn, the loop makes the progress of the group.              *)
LEMMA TurnsStep ==
    ASSUME Inv, RootsInv, VisitInv, NEW s, Placed(s), TurnsOf(s),
           [OrderedNext \/ Stopped]_ordVars, UNCHANGED crt
    PROVE  TurnsOf(s)'
  <1>0. /\ s.archives \in Seq(Ref) /\ Len(s.archives) \in Nat /\ s.turns \in Nat
        /\ \A i \in DOMAIN s.archives : LazyRef(s.archives[i])
        /\ DOMAIN s.archives = 1 .. Len(s.archives)
        /\ Counted(s.archives, s.turns)
    BY DEF Placed, Counted
  <1>1. TypeOK /\ pos \in Nat \ {0} /\ lazy \in BOOLEAN /\ pending \in Seq(Units)
    BY DEF Inv, TypeOK
  <1>2. StartupInput' = StartupInput
    BY DEF StartupInput
  <1>3. ASSUME NEW r \in 0 .. s.turns - 1, NEW j \in 0 .. Len(s.archives),
               AtTurn(s, r, j)', phase' = "next"
        PROVE  Progress(s, r, j)'
    <2>1. CASE j # 0
      <3>1. j \in 1 .. Len(s.archives)
        BY <1>0, <2>1
      <3> QED
        BY <1>3, <3>1, TurnArrives
    <2>2. CASE j = 0 /\ Len(s.archives) = 0
      BY <1>0, <2>2 DEF Progress, AllExhausted
    <2>3. CASE j = 0 /\ r = 0
      <3>1. Taken(s)' \in Nat
        <4>1. IsFiniteSet(UnitsOf(s.archives) \cap Linked')
          BY <1>0, FS_Intersection DEF Counted
        <4> QED
          BY <4>1, FS_CardinalityType DEF Taken
      <3> QED
        BY <2>3, <3>1 DEF Progress
    <2>4. CASE j = 0 /\ r # 0 /\ Len(s.archives) # 0
      <3> DEFINE n == Len(s.archives)
      <3>1. r - 1 \in 0 .. s.turns - 1 /\ n \in 1 .. Len(s.archives)
        BY <1>0, <2>4
      <3>2. /\ (r - 1) * n + n = r * n
            /\ (r - 1) * n \in Nat /\ r * n \in Nat
        <4>1. r \in Nat \ {0} /\ n \in Nat
          BY <1>0, <2>4
        <4> HIDE DEF n
        <4> QED
          BY <4>1, OneTurnMore
      <3>3. AtTurn(s, r - 1, n)'
        <4>1. pos' = Len(StartupInput)' + Base(s) + r * n + 0 + 1
          BY <1>3, <2>4 DEF AtTurn, Base
        <4>2. Len(StartupInput)' \in Nat /\ Base(s) \in Nat
          BY DEF StartupInput, Placed
        <4>3. n \in Nat
          BY <1>0
        <4> DEFINE x == (r - 1) * n
                   y == r * n
        <4>4. x + n = y /\ x \in Nat /\ y \in Nat
              /\ pos' = Len(StartupInput)' + Base(s) + y + 0 + 1
          BY <3>2, <4>1
        <4> HIDE DEF x, y, n
        <4>5. pos' = Len(StartupInput)' + Base(s) + x + n + 1
          BY <4>2, <4>3, <4>4
        <4> QED
          BY <4>5 DEF AtTurn, Base, x, n
      <3>4. Progress(s, r - 1, n)'
        BY <1>3, <3>1, <3>3, TurnArrives
      <3>5. CASE AllExhausted(s)' \/ Taken(s)' >= (r - 1) + 1
        <4>1. Taken(s)' >= (r - 1) + 1 => Taken(s)' >= r
          OBVIOUS
        <4>2. AllExhausted(s)' \/ (Taken(s)' >= r /\ \A i \in 1 .. 0 : Exhausted(s.archives[i])')
          BY <3>5, <4>1
        <4> QED
          BY <2>4, <4>2 DEF Progress
      <3>6. CASE \A i \in 1 .. n : Exhausted(s.archives[i])'
        BY <1>0, <3>6 DEF Progress, AllExhausted
      <3> QED
        BY <3>4, <3>5, <3>6 DEF Progress
    <2> QED
      BY <2>1, <2>2, <2>3, <2>4
  <1>4. ASSUME NEW r \in 0 .. s.turns - 1, NEW j \in 0 .. Len(s.archives) - 1,
               AtTurn(s, r, j)'
        PROVE  /\ phase' = "scan" => Progress(s, r, j)'
               /\ phase' = "members" => ProgressInside(s, r, j)'
    <2>0. j \in 0 .. Len(s.archives)
      BY <1>0
    <2>1. ASSUME pos' = pos
          PROVE  /\ AtTurn(s, r, j) /\ sequence[pos] = s.archives[j + 1]
                 /\ LazyRef(sequence[pos])
                 /\ Range(Input.members) \subseteq UnitsOf(s.archives)
      <3>1. AtTurn(s, r, j)
        BY <1>2, <1>4, <2>1 DEF AtTurn, Base
      <3>2. sequence[pos] = s.archives[j + 1] /\ j + 1 \in DOMAIN s.archives
        BY <1>0, <3>1 DEF Placed
      <3>3. Range(Input.members) \subseteq UnitsOf(s.archives)
        BY <3>2 DEF Input, UnitsOf
      <3> QED
        BY <1>0, <3>1, <3>2, <3>3
    <2>2. CASE BeginScan
      <3>1. CASE phase' = "failed"
        BY <3>1
      <3>2. CASE phase' # "failed"
        <4>1. /\ phase = "next" /\ phase' = "scan" /\ pos' = pos
              /\ UNCHANGED <<objects, unresolved>>
          BY <2>2, <3>2 DEF BeginScan, AtInput, Fail
        <4>2. Progress(s, r, j)
          BY <2>0, <2>1, <4>1 DEF TurnsOf
        <4> QED
          BY <4>1, <4>2, ProgressStays
      <3> QED
        BY <3>1, <3>2
    <2>3. CASE ScanMember
      <3>1. CASE phase' = "failed"
        BY <3>1
      <3>2. CASE phase' # "failed"
        <4>1. /\ phase = "scan" /\ phase' = "scan" /\ pos' = pos
              /\ UNCHANGED <<objects, unresolved>>
          BY <2>3, <3>2 DEF ScanMember, Fail
        <4>2. Progress(s, r, j)
          BY <2>1, <4>1 DEF TurnsOf
        <4> QED
          BY <4>1, <4>2, ProgressStays
      <3> QED
        BY <3>1, <3>2
    <2>4. CASE EndScan
      <3>1. /\ phase = "scan" /\ phase' = "members" /\ pos' = pos
            /\ pending' = [k \in DOMAIN picked |-> Input.members[picked[k]]]
            /\ UNCHANGED <<objects, unresolved>>
        BY <2>4 DEF EndScan
      <3>2. Progress(s, r, j)
        BY <2>1, <3>1 DEF TurnsOf
      <3>3. Progress(s, r, j)' /\ Taken(s)' = Taken(s)
        BY <3>1, <3>2, ProgressStays
      <3>4. CASE picked = <<>>
        <4>1. pending' = <<>>
          BY <3>1, <3>4
        <4> QED
          BY <3>1, <3>3, <4>1 DEF ProgressInside
      <3>5. CASE picked # <<>>
        <4>1. ~Exhausted(sequence[pos])
          BY <3>1, <3>5 DEF VisitInv, Exhausted, Input
        <4>2. ~AllExhausted(s)
          BY <1>0, <2>1, <3>1, <4>1 DEF AllExhausted
        <4>3. Taken(s)' >= r + 1 \/ Taken(s)' >= r
          BY <3>2, <3>3, <4>2 DEF Progress
        <4>4. pending' # <<>>
          <5>1. picked \in Seq(Nat)
            BY <1>1 DEF TypeOK
          <5>2. DOMAIN pending' = DOMAIN picked /\ 1 \in DOMAIN picked
            BY <3>1, <3>5, <5>1
          <5> QED
            BY <5>2
        <4> QED
          BY <3>1, <4>3, <4>4 DEF ProgressInside
      <3> QED
        BY <3>4, <3>5
    <2>5. CASE LinkMember
      <3>1. CASE phase' = "failed"
        BY <3>1
      <3>2. CASE phase' # "failed"
        <4>1. /\ phase = "members" /\ phase' = "members" /\ pos' = pos
              /\ pending # <<>> /\ Record(Head(pending), lazy)
          BY <2>5, <3>2 DEF LinkMember, Fail
        <4>2. Head(pending) \in Units /\ Head(pending) \in Range(pending)
          <5>1. Head(pending) = pending[1] /\ 1 \in DOMAIN pending /\ pending[1] \in Units
            BY <1>1, <4>1
          <5> QED
            BY <5>1 DEF Range
        <4>3. Linked' = Linked \cup {Head(pending)}
          BY <1>1, <4>1, <4>2, LinkedAfter
        <4>4. lazy
          BY <1>1, <2>1, <4>1 DEF RootsInv, LazyRef, NamedOutright
        <4>5. Head(pending) \notin Linked /\ Head(pending) \in UnitsOf(s.archives)
          BY <2>1, <4>1, <4>2, <4>4, NextIsNew DEF VisitInv
        <4>6. /\ Taken(s) \in Nat /\ Taken(s)' \in Nat /\ Taken(s)' >= Taken(s) + 1
          BY <1>0, <4>3, <4>5, TakenGrows
        <4>7. ProgressInside(s, r, j)
          BY <2>1, <4>1 DEF TurnsOf
        <4>8. Taken(s) >= r + 1 \/ Taken(s) >= r
          BY <4>1, <4>7 DEF ProgressInside
        <4>9. Taken(s)' >= r + 1
          BY <4>6, <4>8
        <4> QED
          BY <4>1, <4>9 DEF ProgressInside
      <3> QED
        BY <3>1, <3>2
    <2>6. CASE BeginWhole
      <3>1. CASE phase' = "failed"
        BY <3>1
      <3>2. CASE phase' # "failed"
        BY <2>1, <2>6, <3>2 DEF BeginWhole, Whole, LazyRef, Fail
      <3> QED
        BY <3>1, <3>2
    <2>7. CASE LinkObject \/ EndArchive \/ Finish
      BY <2>7 DEF LinkObject, AtInput, EndArchive, Finish, Fail
    <2>8. CASE Stopped \/ UNCHANGED ordVars
      <3>1. UNCHANGED <<phase, pos, pending, objects, unresolved>>
        BY <2>8 DEF Stopped, ordVars
      <3>2. /\ phase = "scan" => Progress(s, r, j)
            /\ phase = "members" => ProgressInside(s, r, j)
        BY <2>1, <3>1 DEF TurnsOf
      <3>3. Progress(s, r, j)' <=> Progress(s, r, j)
        BY <3>1, ProgressStays
      <3>4. Taken(s)' = Taken(s)
        BY <3>1, ProgressStays
      <3> QED
        BY <3>1, <3>2, <3>3, <3>4 DEF ProgressInside
    <2> QED
      BY <2>2, <2>3, <2>4, <2>5, <2>6, <2>7, <2>8 DEF OrderedNext
  <1> QED
    BY <1>3, <1>4 DEF TurnsOf

-----------------------------------------------------------------------------
(* Loader and loop together.                                               *)
LinkInv == LoadInv /\ HandInv /\ Inv /\ RootsInv /\ VisitInv /\ TurnsInv

LEMMA StartupTypes ==
    /\ StartupInput \in Seq(Ref) /\ Len(StartupInput) \in Nat
    /\ Readable(StartupInput)
  <1>1. StartupRef \in Ref /\ StartupRef.path = CrtStartup
    BY CrtAssumption DEF StartupRef, Ref
  <1> QED
    BY <1>1, CrtAssumption, EmptySeq DEF StartupInput, Readable

LEMMA LinkInvInit ==
    ASSUME NEW c, NEW a, NEW refusal, LoadStarts(c, a, refusal),
           NEW seeds \in SUBSET Names, Start(<<>>, seeds), handed = FALSE
    PROVE  LinkInv
  <1>1. LoadInv
    BY LoadStartsWell
  <1>2. Untouched /\ sequence = <<>> /\ phase = "next"
    BY EmptySeq DEF Start, Untouched
  <1>3. Inv /\ RootsInv
    BY <1>2, UntouchedInv, UntouchedRoots
  <1>4. HandInv
    BY <1>2 DEF HandInv
  <1> QED
    BY <1>1, <1>2, <1>3, <1>4 DEF LinkInv, VisitInv, TurnsInv

(* The loop never touches its inputs.                                      *)
LEMMA InputsStay ==
    ASSUME [OrderedNext \/ Stopped]_ordVars
    PROVE  UNCHANGED <<sequence, forced>>
  BY DEF OrderedNext, LinkObject, BeginWhole, BeginScan, ScanMember, EndScan,
         LinkMember, EndArchive, Finish, Stopped, ordVars, Fail

(* Where the loaded sequence is handed to the loop, the archives of a group*)
(* stand turn by turn.                                                     *)
LEMMA SpanIsPlaced ==
    ASSUME LoadInv, HandInv, handed, NEW s \in Range(groupSpans)
    PROVE  Placed(s)
  <1>1. SpanIn(s, loaded)
    BY DEF LoadInv, Range
  <1>2. /\ Counted(s.archives, s.turns) /\ Base(s) \in Nat \ {0}
        /\ s.turns \in Nat /\ Len(s.archives) \in Nat
        /\ DOMAIN s.archives = 1 .. Len(s.archives)
        /\ s.last = Base(s) + s.turns * Len(s.archives) /\ s.last <= Len(loaded)
        /\ \A r \in 0 .. s.turns - 1, j \in DOMAIN s.archives :
              loaded[Base(s) + r * Len(s.archives) + j] = s.archives[j]
    BY <1>1 DEF SpanIn, Counted, Base
  <1>3. /\ loaded \in Seq(Ref) /\ sequence = StartupInput \o loaded
        /\ StartupInput \in Seq(Ref) /\ Len(StartupInput) \in Nat
    BY StartupTypes DEF LoadInv, HandInv
  <1>4. \A i \in 1 .. Len(loaded) :
          /\ Len(StartupInput) + i \in DOMAIN sequence
          /\ sequence[Len(StartupInput) + i] = loaded[i]
    BY <1>3
  <1>5. ASSUME NEW r \in 0 .. s.turns - 1, NEW j \in 0 .. Len(s.archives) - 1,
               AtTurn(s, r, j)
        PROVE  pos \in DOMAIN sequence /\ sequence[pos] = s.archives[j + 1]
    <2> DEFINE done == r * Len(s.archives)
               all == s.turns * Len(s.archives)
    <2>1. PICK k \in 1 .. Len(s.archives) : k = j + 1
      BY <1>2
    <2>2. k \in DOMAIN s.archives /\ r * Len(s.archives) + k \in 1 .. s.turns * Len(s.archives)
      BY <1>2, TurnFits
    <2>3. r * Len(s.archives) \in Nat /\ s.turns * Len(s.archives) \in Nat
      BY <1>2, ProductIsNatural
    <2>4. loaded[Base(s) + done + k] = s.archives[k]
      BY <1>2, <2>2
    <2>5. /\ done \in Nat /\ all \in Nat /\ done + k \in 1 .. all
          /\ s.last = Base(s) + all
          /\ pos = Len(StartupInput) + Base(s) + done + j + 1
      BY <1>2, <1>5, <2>2, <2>3 DEF AtTurn
    <2>0. /\ Base(s) \in Nat /\ Len(loaded) \in Nat /\ Len(StartupInput) \in Nat
           /\ s.last <= Len(loaded) /\ k \in Nat /\ k = j + 1
      BY <1>2, <1>3, <2>1
    <2> HIDE DEF done, all
    <2>9. s.last \in Nat
      BY <2>0, <2>5
    <2>8. PICK x \in Nat, y \in Nat, z \in Nat, w \in Nat :
              /\ x = Base(s) /\ y = Len(loaded) /\ z = Len(StartupInput) /\ w = s.last
      BY <2>0, <2>9, Zenon
    <2>6. Base(s) + done + k \in 1 .. Len(loaded)
      <3>1. w = x + all /\ w <= y
        BY <2>5, <2>0, <2>8
      <3>2. x + done + k \in 1 .. y
        BY <2>5, <3>1
      <3> QED
        BY <2>8, <3>2
    <2>7. pos = Len(StartupInput) + (Base(s) + done + k)
      <3>1. pos = z + x + done + j + 1 /\ k = j + 1
        BY <2>5, <2>0, <2>8
      <3>2. pos = z + (x + done + k)
        BY <2>5, <3>1
      <3> QED
        BY <2>8, <3>2
    <2> QED
      BY <1>4, <2>1, <2>4, <2>6, <2>7
  <1> QED
    BY <1>2, <1>5 DEF Placed

LEMMA LoadKeeps == LinkInv /\ Load => LinkInv'
  <1> SUFFICES ASSUME LinkInv, Load PROVE LinkInv'
    OBVIOUS
  <1>1. LoadNext /\ UNCHANGED <<ordVars, crt, handed>> /\ UNCHANGED ordVars
    BY DEF Load
  <1>2. loading = "reading"
    BY <1>1 DEF LoadNext, PushState, PopState, SetWhole, StartGroup, ReadInput,
       ReadGroupInput, EndGroup, EndArguments, Reading
  <1>3. ~handed /\ handed' = handed
    BY <1>1, <1>2 DEF LinkInv, HandInv
  <1>4. LoadInv'
    BY <1>1, LoadStep DEF LinkInv
  <1>5. Untouched' /\ sequence' = <<>>
    BY <1>1, <1>3 DEF LinkInv, HandInv, Untouched, ordVars
  <1>6. HandInv'
    BY <1>3, <1>5 DEF LinkInv, HandInv
  <1>7. Inv' /\ RootsInv' /\ VisitInv'
    BY <1>1, InvStep, RootsInvStep, VisitStep DEF LinkInv
  <1> QED
    BY <1>3, <1>4, <1>6, <1>7 DEF LinkInv, TurnsInv

LEMMA HandOverKeeps == LinkInv /\ HandOver => LinkInv'
  <1> SUFFICES ASSUME LinkInv, HandOver PROVE LinkInv'
    OBVIOUS
  <1>1. /\ loading = "loaded" /\ handed' = TRUE /\ sequence' = StartupInput \o loaded
        /\ UNCHANGED <<loadVars, crt>>
        /\ UNCHANGED <<forced, phase, pos, objects, defined, unresolved,
                       scanDefined, scanUnresolved, picked, pending, lazy, error>>
        /\ Untouched /\ LoadInv
    BY DEF HandOver, LinkInv, HandInv
  <1>2. UNCHANGED <<loaded, files, whole, stateStack, groupInputs, archiveInputs,
                    memberCount, groupSpans, loading>>
    BY <1>1 DEF loadVars
  <1>3. LoadInv'
    BY <1>1, <1>2, LoadUntouched DEF LoadInv
  <1>4. Untouched'
    <2>1. sequence' \in Seq(Ref) /\ Readable(sequence')
      BY <1>1, StartupTypes, ReadableConcat DEF LoadInv
    <2> QED
      BY <1>1, <2>1 DEF Untouched, Readable
  <1>5. Untouched' => Inv' /\ RootsInv'
    BY UntouchedInv, UntouchedRoots, PTL
  <1>6. StartupInput' = StartupInput
    BY <1>1 DEF StartupInput
  <1>7. HandInv'
    BY <1>1, <1>2, <1>6 DEF HandInv
  <1>8. pos' = 1 /\ phase' = "next"
    BY <1>4 DEF Untouched
  <1>9. ASSUME NEW s \in Range(groupSpans) PROVE TurnsOf(s)'
    <2>1. SpanIn(s, loaded)
      BY <1>1 DEF LoadInv, Range
    <2>2. Base(s) \in Nat \ {0} /\ s.turns \in Nat /\ Len(s.archives) \in Nat
      BY <2>1 DEF SpanIn, Counted, Base
    <2>3. ASSUME NEW r \in 0 .. s.turns - 1, NEW j \in 0 .. Len(s.archives)
          PROVE  ~AtTurn(s, r, j)'
      <3> DEFINE done == r * Len(s.archives)
      <3>1. done \in Nat /\ Len(StartupInput) \in Nat
        BY <2>2, StartupTypes, ProductIsNatural
      <3> HIDE DEF done
      <3>2. pos' # Len(StartupInput) + Base(s) + done + j + 1
        BY <1>8, <2>2, <3>1
      <3> QED
        BY <1>6, <3>2 DEF AtTurn, Base, done
    <2>4. \A j \in 0 .. Len(s.archives) - 1 : j \in 0 .. Len(s.archives)
      BY <2>2
    <2> QED
      BY <2>3, <2>4 DEF TurnsOf
  <1>10. TurnsInv'
    BY <1>2, <1>9 DEF TurnsInv
  <1> QED
    BY <1>3, <1>4, <1>5, <1>7, <1>8, <1>10 DEF LinkInv, VisitInv

LEMMA LinkKeeps ==
    LinkInv /\ handed /\ [OrderedNext \/ Stopped]_ordVars
            /\ UNCHANGED <<loadVars, crt, handed>> => LinkInv'
  <1> SUFFICES ASSUME LinkInv, handed, [OrderedNext \/ Stopped]_ordVars,
                      UNCHANGED <<loadVars, crt, handed>>
               PROVE  LinkInv'
    OBVIOUS
  <1>1. UNCHANGED <<loaded, files, whole, stateStack, groupInputs, archiveInputs,
                    memberCount, groupSpans, loading, crt, handed>>
    BY DEF loadVars
  <1>2. LoadInv'
    BY <1>1, LoadUntouched DEF LinkInv, LoadInv
  <1>3. UNCHANGED sequence /\ StartupInput' = StartupInput
    BY <1>1, InputsStay DEF StartupInput
  <1>4. HandInv'
    BY <1>1, <1>3 DEF LinkInv, HandInv
  <1>5. Inv' /\ RootsInv' /\ VisitInv'
    BY InvStep, RootsInvStep, VisitStep DEF LinkInv
  <1>6. ASSUME NEW s \in Range(groupSpans) PROVE TurnsOf(s)'
    <2>1. Placed(s) /\ TurnsOf(s)
      BY SpanIsPlaced DEF LinkInv, TurnsInv
    <2> QED
      BY <1>1, <2>1, TurnsStep DEF LinkInv
  <1>7. TurnsInv'
    BY <1>1, <1>6 DEF TurnsInv
  <1> QED
    BY <1>2, <1>4, <1>5, <1>7 DEF LinkInv

LEMMA LinkInvStep ==
    LinkInv /\ [LinkInputsNext \/ LinkInputsStopped]_linkInputsVars => LinkInv'
  <1> SUFFICES ASSUME LinkInv, [LinkInputsNext \/ LinkInputsStopped]_linkInputsVars
               PROVE  LinkInv'
    OBVIOUS
  <1>1. CASE Load
    BY <1>1, LoadKeeps
  <1>2. CASE HandOver
    BY <1>2, HandOverKeeps
  <1>3. CASE Link
    BY <1>3, LinkKeeps DEF Link
  <1>4. CASE LinkInputsStopped \/ UNCHANGED linkInputsVars
    <2>1. UNCHANGED <<loadVars, ordVars, crt, handed>>
      BY <1>4 DEF LinkInputsStopped, linkInputsVars
    <2>2. CASE handed
      BY <2>1, <2>2, LinkKeeps
    <2>3. CASE ~handed
      <3>1. UNCHANGED <<loaded, files, whole, stateStack, groupInputs, archiveInputs,
                        memberCount, groupSpans, loading>>
        BY <2>1 DEF loadVars
      <3>2. LoadInv'
        BY <3>1, LoadUntouched DEF LinkInv, LoadInv
      <3>3. Inv' /\ RootsInv' /\ VisitInv'
        BY <2>1, InvStep, RootsInvStep, VisitStep DEF LinkInv
      <3>4. HandInv' /\ ~handed'
        BY <2>1, <2>3 DEF LinkInv, HandInv, Untouched, ordVars
      <3> QED
        BY <3>2, <3>3, <3>4 DEF LinkInv, TurnsInv
    <2>4. handed \in BOOLEAN
      BY DEF LinkInv, HandInv
    <2> QED
      BY <2>2, <2>3, <2>4
  <1> QED
    BY <1>1, <1>2, <1>3, <1>4 DEF LinkInputsNext

LEMMA LinkInvariance == LinkInputsSpec => []LinkInv
  <1>1. LinkInputsInit => LinkInv
    BY ForcedAssumption, LinkInvInit DEF LinkInputsInit, LoadInit
  <1> QED
    BY <1>1, LinkInvStep, PTL DEF LinkInputsSpec

-----------------------------------------------------------------------------
(* Where every unit of a group is linked, nothing of it is asked for.      *)
LEMMA LinkedIsDefined ==
    ASSUME Inv, NEW s, Counted(s.archives, s.turns), Taken(s) >= s.turns,
           NEW u \in UnitsOf(s.archives)
    PROVE  Defs(u) \cap unresolved = {}
  <1> DEFINE all == UnitsOf(s.archives)
             some == all \cap Linked
  <1>1. IsFiniteSet(all) /\ Cardinality(all) <= s.turns /\ s.turns \in Nat
    BY DEF Counted
  <1>2. /\ Cardinality(some) <= Cardinality(all)
        /\ Cardinality(all) = Cardinality(some) => all = some
    BY <1>1, FS_Subset
  <1>3. Cardinality(all) \in Nat /\ Cardinality(some) \in Nat
    BY <1>1, FS_CardinalityType, FS_Intersection
  <1>4. Cardinality(some) >= s.turns
    BY DEF Taken
  <1> HIDE DEF all, some
  <1>5. all = some
    BY <1>1, <1>2, <1>3, <1>4
  <1>6. u \in Linked
    BY <1>5 DEF all, some
  <1>7. Defs(u) \subseteq defined
    BY <1>6, NeededIsUnresolved DEF Inv
  <1> QED
    BY <1>7 DEF Inv, SetsInv

(* Behind its last turn a group has linked all it has, or has been         *)
(* exhausted in some turn and stayed so.                                   *)
Behind(s) == pos = Len(StartupInput) + s.last + 1

LEMMA BehindTheTurns ==
    ASSUME LinkInv, handed, phase = "next", NEW s \in Range(groupSpans), Behind(s)
    PROVE  /\ SpanIn(s, loaded)
           /\ Taken(s) >= s.turns \/ AllExhausted(s)
  <1>1. SpanIn(s, loaded) /\ TurnsOf(s)
    BY DEF LinkInv, LoadInv, TurnsInv, Range
  <1>2. /\ s.turns \in Nat /\ s.archives \in Seq(Ref)
        /\ s.last = Base(s) + s.turns * Len(s.archives) /\ Base(s) \in Nat
        /\ IsFiniteSet(UnitsOf(s.archives))
    BY <1>1 DEF SpanIn, Counted, Base
  <1>3. Len(s.archives) \in Nat /\ DOMAIN s.archives = 1 .. Len(s.archives)
    BY <1>2
  <1>4. Taken(s) \in Nat
    BY <1>2, FS_Intersection, FS_CardinalityType DEF Taken
  <1>5. CASE s.turns = 0
    BY <1>1, <1>4, <1>5
  <1>6. CASE s.turns # 0
    <2> DEFINE n == Len(s.archives)
               done == (s.turns - 1) * n
               all == s.turns * n
    <2>1. s.turns - 1 \in 0 .. s.turns - 1 /\ n \in 0 .. n
      BY <1>2, <1>3, <1>6
    <2>2. done + n = all /\ done \in Nat /\ all \in Nat
      BY <1>2, <1>3, <1>6, OneTurnMore
    <2>3. s.last = Base(s) + all /\ n \in Nat /\ Base(s) \in Nat
      BY <1>2, <1>3
    <2>4. Len(StartupInput) \in Nat
      BY StartupTypes
    <2> HIDE DEF done, all, n
    <2>5. pos = Len(StartupInput) + Base(s) + done + n + 1
      BY <2>2, <2>3, <2>4 DEF Behind
    <2>6. AtTurn(s, s.turns - 1, n)
      BY <2>5 DEF AtTurn, done, n
    <2>7. Progress(s, s.turns - 1, n)
      BY <1>1, <2>1, <2>6 DEF TurnsOf, n
    <2>8. (\A i \in 1 .. n : Exhausted(s.archives[i])) => AllExhausted(s)
      BY <1>3 DEF AllExhausted, n
    <2> QED
      BY <1>1, <1>2, <1>4, <2>7, <2>8 DEF Progress
  <1> QED
    BY <1>5, <1>6

(* Behind the turns no truthful entry of theirs answers an open request.   *)
LEMMA TurnsAnswer ==
    ASSUME Inv, NEW s, SpanIn(s, loaded), Taken(s) >= s.turns \/ AllExhausted(s),
           NEW i \in s.first .. s.last, LazyRef(loaded[i]),
           NEW k \in DOMAIN Content[loaded[i].path].index,
           Truthful(Content[loaded[i].path], k)
    PROVE  Content[loaded[i].path].index[k].name \notin unresolved
  <1>1. SpanIn(s, loaded) /\ (Taken(s) >= s.turns \/ AllExhausted(s))
    OBVIOUS
  <1>2. PICK j \in DOMAIN s.archives : loaded[i] = s.archives[j]
    <2>1. \A m \in s.first .. s.last :
             LazyRef(loaded[m]) => \E j \in DOMAIN s.archives : loaded[m] = s.archives[j]
      BY <1>1 DEF SpanIn
    <2> QED
      BY <2>1, Zenon
  <1>3. s.archives[j] \in Ref
    BY <1>1, <1>2 DEF SpanIn, Counted
  <1> DEFINE in == Content[loaded[i].path]
             u == in.members[in.index[k].member]
  <1>4. in.index[k].member \in DOMAIN in.members
    BY <1>2, <1>3, FileTypes DEF Ref
  <1>5. u \in UnitsOf(s.archives)
    <2>1. u \in Range(in.members)
      BY <1>4 DEF Range
    <2> HIDE DEF u
    <2>2. u \in Range(Content[s.archives[j].path].members)
      BY <1>2, <2>1
    <2> QED
      BY <2>2 DEF UnitsOf
  <1>6. in.index[k].name \in Defs(u)
    BY DEF Truthful
  <1>7. CASE Taken(s) >= s.turns
    <2>0. Counted(s.archives, s.turns)
      BY <1>1 DEF SpanIn
    <2>1. Defs(u) \cap unresolved = {}
      BY <1>5, <1>7, <2>0, LinkedIsDefined
    <2> QED
      BY <1>6, <2>1
  <1>8. CASE AllExhausted(s)
    BY <1>2, <1>8 DEF AllExhausted, Exhausted
  <1> QED
    BY <1>1, <1>7, <1>8, Zenon

LEMMA LinkInvExhausts == LinkInv => GroupIsExhausted
  <1> SUFFICES ASSUME LinkInv, handed, phase = "next", NEW s \in Range(groupSpans),
                      Behind(s),
                      NEW i \in s.first .. s.last, LazyRef(loaded[i]),
                      NEW k \in DOMAIN Content[loaded[i].path].index,
                      Truthful(Content[loaded[i].path], k)
               PROVE  Content[loaded[i].path].index[k].name \notin unresolved
    BY DEF GroupIsExhausted, LazyRef, Truthful, Range, Behind
  <1>1. SpanIn(s, loaded) /\ (Taken(s) >= s.turns \/ AllExhausted(s))
    BY BehindTheTurns
  <1>2. Inv
    BY DEF LinkInv
  <1> QED
    BY <1>1, <1>2, TurnsAnswer

(* The repetitions the loader writes out for a group are enough, whatever  *)
(* the archives, however they need each other and whatever stands in front:*)
(* behind them no truthful index entry of the group's lazy archives names a*)
(* symbol still asked for.                                                 *)
THEOREM GroupsAreExhausted == LinkInputsSpec => []GroupIsExhausted
  BY LinkInvariance, LinkInvExhausts, PTL

(* The four properties of the loop hold on the sequences the loader writes,*)
(* which are not the sequences OrderedSpec starts with: they come one step *)
(* at a time, and the loop starts once they are there.                     *)
THEOREM LoadedLinksAreSound ==
    LinkInputsSpec => [](/\ BookkeepingIsExact /\ ScanAgreesWithCaller
                         /\ ExtractedOnlyOnDemand /\ ScannedArchiveIsExhausted)
  <1>1. LinkInv => BookkeepingIsExact /\ ExtractedOnlyOnDemand
    BY BeforeTheNext DEF LinkInv, Inv, BookkeepingIsExact
  <1>2. LinkInv => ScanAgreesWithCaller /\ ScannedArchiveIsExhausted
    BY InvScanAgrees, InvExhausts DEF LinkInv
  <1> QED
    BY <1>1, <1>2, LinkInvariance, PTL

(* The roots of the next state are units as those of this one are.         *)
RootsTyped == sequence \in Seq(Ref) => Roots \subseteq Units

LEMMA RootsAreUnitsAfter == sequence' \in Seq(Ref) => Roots' \subseteq Units
  <1>1. RootsTyped
    BY RootsAreUnits DEF RootsTyped
  <1>2. RootsTyped'
    BY <1>1, PTL
  <1> QED
    BY <1>2 DEF RootsTyped

(* What is linked behind the loader is the closure of what the loader has  *)
(* read: the loader reads the roots, and the loop adds them, extracts what *)
(* is needed, and ends with every root linked.                             *)
THEOREM LoadedLinksTheClosure == LinkInputsSpec => ImplementsClosure
  <1>1. LinkInputsInit => Closure!ClosureInit
    <2>1. LinkInputsInit => Untouched
      BY ForcedAssumption, EmptySeq DEF LinkInputsInit, Start, Untouched
    <2> QED
      BY <2>1, UntouchedClosure
  <1>2. LinkInv /\ [LinkInputsNext \/ LinkInputsStopped]_linkInputsVars
            => [Closure!ClosureNext]_Closure!closureVars
    <2> SUFFICES ASSUME LinkInv, [LinkInputsNext \/ LinkInputsStopped]_linkInputsVars
                 PROVE  Closure!ClosureNext \/ UNCHANGED Closure!closureVars
      OBVIOUS
    <2>1. CASE HandOver
      <3>1. Untouched /\ LoadInv
        BY <2>1 DEF HandOver, LinkInv, HandInv
      <3>4. sequence' \in Seq(Ref)
        BY <2>1, <3>1, StartupTypes DEF HandOver, LoadInv
      <3>5. Linked = {} /\ Linked' = Linked
        <4>1. objects = <<>> /\ objects' = objects
          BY <2>1, <3>1 DEF HandOver, Untouched
        <4> QED
          BY <4>1, LinkedUnchanged DEF Linked
      <3>6. phase = "next" /\ phase' = phase /\ forced' = forced
        BY <2>1, <3>1 DEF HandOver, Untouched
      <3> QED
        BY RootsAreUnitsAfter, <3>4, <3>5, <3>6 DEF Closure!ClosureNext, Closure!ReadRoots
    <2>2. CASE ~HandOver
      <3>1. [OrderedNext \/ Stopped]_ordVars
        BY <2>2 DEF LinkInputsNext, Load, Link, LinkInputsStopped, linkInputsVars
      <3> QED
        BY <3>1, ClosureStep DEF LinkInv
    <2> QED
      BY <2>1, <2>2
  <1> QED
    BY <1>1, <1>2, LinkInvariance, PTL
       DEF LinkInputsSpec, ImplementsClosure, Closure!ClosureSpec

-----------------------------------------------------------------------------
(* The command line read as a list of places: what the markers, pushes and *)
(* pops before a place say of it.                                          *)

(* How many of the arguments before the place i are in W.                  *)
Count(a, W, i) == Cardinality({j \in 1 .. i - 1 : a[j] \in W})

Depth(a, i) == Count(a, {"--push-state"}, i) - Count(a, {"--pop-state"}, i)

SetMarkers == {"--whole-archive", "--no-whole-archive"}

(* The markers in the scope of the place i, and what they say of it.       *)
Setters(a, i) == {k \in 1 .. i - 1 : /\ a[k] \in SetMarkers
                                     /\ \A j \in k + 1 .. i : Depth(a, j) >= Depth(a, k)}
WholeIn(a, i) ==
    LET set == Setters(a, i)
    IN set # {} /\ a[CHOOSE k \in set : \A j \in set : j <= k] = "--whole-archive"

(* The argument that names the file n.                                     *)
ArgumentIn(a, n) == CHOOSE i \in DOMAIN a :
                       /\ a[i] \in Paths
                       /\ Cardinality({j \in 1 .. i : a[j] \in Paths}) = n

(* The push that the entry d of the stack at the place i comes from.       *)
PushedAt(a, p, d, i) ==
    /\ p \in 1 .. i - 1 /\ a[p] = "--push-state" /\ Depth(a, p) = d - 1
    /\ \A j \in p + 1 .. i : Depth(a, j) >= d
StackIn(a, stack, i) ==
    /\ Len(stack) = Depth(a, i)
    /\ \A d \in 1 .. Len(stack) :
          \E p \in 1 .. i - 1 : PushedAt(a, p, d, i) /\ stack[d] = WholeIn(a, p)

-----------------------------------------------------------------------------
LEMMA CountNext ==
    ASSUME NEW a, NEW W, NEW i \in Nat \ {0}
    PROVE  /\ Count(a, W, i) \in Nat
           /\ Count(a, W, i + 1) = Count(a, W, i) + (IF a[i] \in W THEN 1 ELSE 0)
  <1> DEFINE at(n) == {j \in 1 .. n - 1 : a[j] \in W}
  <1>1. IsFiniteSet(1 .. i - 1)
    BY FS_Interval
  <1>2. IsFiniteSet(at(i)) /\ Cardinality(at(i)) \in Nat
    BY <1>1, FS_Subset, FS_CardinalityType
  <1>3. i \notin at(i) /\ (i + 1) - 1 = i
    OBVIOUS
  <1>4. a[i] \in W => at(i + 1) = at(i) \cup {i}
    OBVIOUS
  <1>5. a[i] \notin W => at(i + 1) = at(i)
    OBVIOUS
  <1>6. Count(a, W, i) = Cardinality(at(i)) /\ Count(a, W, i + 1) = Cardinality(at(i + 1))
    BY Zenon DEF Count
  <1> HIDE DEF at
  <1>7. Cardinality(at(i) \cup {i}) = Cardinality(at(i)) + 1
    BY <1>2, <1>3, FS_AddElement
  <1>8. CASE a[i] \in W
    BY <1>2, <1>4, <1>6, <1>7, <1>8
  <1>9. CASE a[i] \notin W
    BY <1>2, <1>5, <1>6, <1>9
  <1> QED
    BY <1>8, <1>9

LEMMA CountNone == ASSUME NEW a, NEW W PROVE Count(a, W, 1) = 0
  <1>1. {j \in 1 .. 1 - 1 : a[j] \in W} = {}
    OBVIOUS
  <1> QED
    BY <1>1, FS_EmptySet DEF Count

LEMMA CountGrows ==
    ASSUME NEW a, NEW W, NEW i \in Nat \ {0}, NEW k \in Nat \ {0}, i <= k
    PROVE  Count(a, W, i) <= Count(a, W, k)
  <1> DEFINE at(n) == {j \in 1 .. n - 1 : a[j] \in W}
  <1>1. at(i) \subseteq at(k)
    OBVIOUS
  <1>2. IsFiniteSet(1 .. k - 1)
    BY FS_Interval
  <1>3. IsFiniteSet(at(k))
    BY <1>2, FS_Subset
  <1> HIDE DEF at
  <1>4. Cardinality(at(i)) <= Cardinality(at(k))
    BY <1>1, <1>3, FS_Subset
  <1> QED
    BY <1>4 DEF Count, at

(* The file numbers name their arguments.                                  *)
LEMMA ArgumentIs ==
    ASSUME NEW a, DOMAIN a \subseteq Nat \ {0}, NEW i \in DOMAIN a, a[i] \in Paths
    PROVE  ArgumentIn(a, Count(a, Paths, i) + 1) = i
  <1> DEFINE n == Count(a, Paths, i) + 1
             upTo(k) == Cardinality({j \in 1 .. k : a[j] \in Paths})
  <1>1. ASSUME NEW k \in Nat \ {0}
        PROVE  upTo(k) = Count(a, Paths, k + 1)
    <2>1. (k + 1) - 1 = k
      OBVIOUS
    <2> QED
      BY <2>1, Zenon DEF Count
  <1> HIDE DEF upTo
  <1>2. upTo(i) = n
    BY <1>1, CountNext
  <1>3. ASSUME NEW k \in DOMAIN a, a[k] \in Paths, upTo(k) = n
        PROVE  k = i
    <2>1. i \in Nat \ {0} /\ k \in Nat \ {0} /\ i + 1 \in Nat \ {0} /\ k + 1 \in Nat \ {0}
      OBVIOUS
    <2>2. Count(a, Paths, k) = Count(a, Paths, i) /\ Count(a, Paths, i) \in Nat
          /\ Count(a, Paths, k + 1) = Count(a, Paths, k) + 1
          /\ Count(a, Paths, i + 1) = Count(a, Paths, i) + 1
      BY <1>1, <1>3, <2>1, CountNext
    <2>3. CASE k < i
      <3>1. Count(a, Paths, k + 1) <= Count(a, Paths, i)
        BY <2>1, <2>3, CountGrows
      <3> QED
        BY <2>2, <3>1
    <2>4. CASE i < k
      <3>1. Count(a, Paths, i + 1) <= Count(a, Paths, k)
        BY <2>1, <2>4, CountGrows
      <3> QED
        BY <2>2, <3>1
    <2> QED
      BY <2>1, <2>3, <2>4
  <1> HIDE DEF n
  <1>4. (CHOOSE k \in DOMAIN a : a[k] \in Paths /\ upTo(k) = n) = i
    BY <1>2, <1>3
  <1> QED
    BY <1>4, Zenon DEF ArgumentIn, upTo, n

LEMMA DepthNext ==
    ASSUME NEW a, NEW i \in Nat \ {0}
    PROVE  /\ Depth(a, i) \in Int
           /\ a[i] = "--push-state" => Depth(a, i + 1) = Depth(a, i) + 1
           /\ a[i] = "--pop-state" => Depth(a, i + 1) = Depth(a, i) - 1
           /\ a[i] \notin {"--push-state", "--pop-state"} => Depth(a, i + 1) = Depth(a, i)
  <1>1. /\ Count(a, {"--push-state"}, i) \in Nat
        /\ Count(a, {"--push-state"}, i + 1) =
              Count(a, {"--push-state"}, i) + (IF a[i] \in {"--push-state"} THEN 1 ELSE 0)
    BY CountNext
  <1>2. /\ Count(a, {"--pop-state"}, i) \in Nat
        /\ Count(a, {"--pop-state"}, i + 1) =
              Count(a, {"--pop-state"}, i) + (IF a[i] \in {"--pop-state"} THEN 1 ELSE 0)
    BY CountNext
  <1> QED
    BY <1>1, <1>2 DEF Depth

LEMMA WholeFollows ==
    ASSUME NEW a, NEW b, NEW i, NEW k, Setters(a, i) = Setters(a, k)
    PROVE  WholeIn(a, i) = WholeIn(a, k)
  BY DEF WholeIn

(* An argument that neither sets the state nor restores it leaves it.      *)
LEMMA WholeKept ==
    ASSUME NEW a, NEW i \in Nat \ {0}, a[i] \notin SetMarkers, a[i] # "--pop-state"
    PROVE  WholeIn(a, i + 1) = WholeIn(a, i)
  <1>1. ASSUME NEW j \in Nat \ {0} PROVE Depth(a, j) \in Int
    BY DepthNext
  <1>2. Depth(a, i + 1) >= Depth(a, i)
    BY <1>1, DepthNext
  <1>3. ASSUME NEW k PROVE k \in Setters(a, i + 1) <=> k \in Setters(a, i)
    <2>1. ASSUME k \in Setters(a, i + 1) PROVE k \in Setters(a, i)
      <3>1. k \in 1 .. i /\ a[k] \in SetMarkers
        BY <2>1 DEF Setters
      <3>2. k \in 1 .. i - 1
        BY <3>1
      <3>3. \A j \in k + 1 .. i : j \in k + 1 .. i + 1
        BY <3>1
      <3> QED
        BY <2>1, <3>1, <3>2, <3>3 DEF Setters
    <2>2. ASSUME k \in Setters(a, i) PROVE k \in Setters(a, i + 1)
      <3>1. k \in 1 .. i - 1 /\ a[k] \in SetMarkers /\ i \in k + 1 .. i
            /\ \A j \in k + 1 .. i : Depth(a, j) >= Depth(a, k)
        BY <2>2 DEF Setters
      <3>2. Depth(a, i + 1) >= Depth(a, k)
        <4>1. Depth(a, k) \in Int /\ Depth(a, i) \in Int /\ Depth(a, i + 1) \in Int
          BY <1>1, <3>1
        <4> QED
          BY <1>2, <3>1, <4>1
      <3>3. \A j \in k + 1 .. i + 1 : j \in k + 1 .. i \/ j = i + 1
        BY <3>1
      <3>4. k \in 1 .. (i + 1) - 1
        BY <3>1
      <3> QED
        BY <3>1, <3>2, <3>3, <3>4 DEF Setters
    <2> QED
      BY <2>1, <2>2
  <1>4. Setters(a, i + 1) = Setters(a, i)
    BY <1>3
  <1> QED
    BY <1>4, WholeFollows

LEMMA WholeIsSet ==
    ASSUME NEW a, NEW i \in Nat \ {0}, a[i] \in SetMarkers
    PROVE  WholeIn(a, i + 1) = (a[i] = "--whole-archive")
  <1> DEFINE set == Setters(a, i + 1)
  <1>0. Depth(a, i + 1) = Depth(a, i) /\ Depth(a, i) \in Int
    BY DepthNext DEF SetMarkers
  <1>1. i \in set
    <2>1. \A j \in i + 1 .. i + 1 : j = i + 1
      OBVIOUS
    <2> QED
      BY <1>0, <2>1 DEF Setters
  <1>2. \A k \in set : k \in Nat /\ k <= i
    BY DEF Setters
  <1> HIDE DEF set
  <1>3. (CHOOSE k \in set : \A j \in set : j <= k) = i
    <2>1. i \in set /\ \A j \in set : j <= i
      BY <1>1, <1>2
    <2>2. \A k \in set : (\A j \in set : j <= k) => k = i
      BY <1>1, <1>2
    <2> QED
      BY <2>1, <2>2
  <1>4. set # {}
    BY <1>1
  <1> QED
    BY <1>3, <1>4 DEF WholeIn, set

(* A pop restores what held at its push.                                   *)
LEMMA WholeRestored ==
    ASSUME NEW a, NEW i \in Nat \ {0}, a[i] = "--pop-state",
           NEW p, NEW d \in Nat, Depth(a, i) = d, PushedAt(a, p, d, i)
    PROVE  WholeIn(a, i + 1) = WholeIn(a, p)
  <1>1. ASSUME NEW j \in Nat \ {0} PROVE Depth(a, j) \in Int
    BY DepthNext
  <1>2. /\ p \in 1 .. i - 1 /\ p \in Nat \ {0} /\ a[p] = "--push-state" /\ Depth(a, p) = d - 1
        /\ \A j \in p + 1 .. i : Depth(a, j) >= d
        /\ Depth(a, i + 1) = d - 1
    BY DepthNext DEF PushedAt
  <1>3. ASSUME NEW k \in Setters(a, i + 1) PROVE k \in Setters(a, p)
    <2>1. /\ k \in 1 .. i /\ a[k] \in SetMarkers /\ Depth(a, k) \in Int
          /\ \A j \in k + 1 .. i + 1 : Depth(a, j) >= Depth(a, k)
      BY <1>1 DEF Setters
    <2>2. i + 1 \in k + 1 .. i + 1 /\ Depth(a, k) <= d - 1
      BY <1>2, <2>1
    <2>3. ~(k \in p + 1 .. i)
      BY <1>2, <2>1, <2>2
    <2>4. k # p
      BY <1>2, <2>1 DEF SetMarkers
    <2>5. k \in 1 .. p - 1
      BY <1>2, <2>1, <2>3, <2>4
    <2>6. \A j \in k + 1 .. p : j \in k + 1 .. i + 1
      BY <1>2, <2>1
    <2> QED
      BY <2>1, <2>5, <2>6 DEF Setters
  <1>4. ASSUME NEW k \in Setters(a, p) PROVE k \in Setters(a, i + 1)
    <2>1. /\ k \in 1 .. p - 1 /\ a[k] \in SetMarkers /\ Depth(a, k) \in Int
          /\ \A j \in k + 1 .. p : Depth(a, j) >= Depth(a, k)
      BY <1>1, <1>2 DEF Setters
    <2>2. Depth(a, k) <= d - 1
      BY <1>2, <2>1
    <2>3. ASSUME NEW j \in k + 1 .. i + 1 PROVE Depth(a, j) >= Depth(a, k)
      <3>1. j \in k + 1 .. p \/ j \in p + 1 .. i \/ j = i + 1
        BY <1>2, <2>1
      <3>2. Depth(a, j) \in Int
        BY <1>1, <2>1
      <3>3. CASE j \in p + 1 .. i
        BY <1>2, <2>1, <2>2, <3>2, <3>3
      <3>4. CASE j = i + 1
        BY <1>2, <2>1, <2>2, <3>4
      <3> QED
        BY <2>1, <3>1, <3>3, <3>4
    <2>4. k \in 1 .. (i + 1) - 1
      BY <1>2, <2>1
    <2> QED
      BY <2>1, <2>3, <2>4 DEF Setters
  <1>5. Setters(a, i + 1) = Setters(a, p)
    BY <1>3, <1>4
  <1> QED
    BY <1>5, WholeFollows
-----------------------------------------------------------------------------
(* The stack of saved states against the pushes still open.                *)
LEMMA StackAfterPush ==
    ASSUME NEW a, NEW i \in Nat \ {0}, a[i] = "--push-state",
           NEW stack \in Seq(BOOLEAN), StackIn(a, stack, i)
    PROVE  StackIn(a, Append(stack, WholeIn(a, i)), i + 1)
  <1> DEFINE w == WholeIn(a, i)
             t == Append(stack, w)
  <1>1. /\ Len(stack) \in Nat /\ Len(stack) = Depth(a, i)
        /\ Depth(a, i + 1) = Len(stack) + 1
        /\ w \in BOOLEAN
    BY DepthNext DEF StackIn, WholeIn
  <1> HIDE DEF w
  <1>2. /\ Len(t) = Len(stack) + 1 /\ t[Len(stack) + 1] = w
        /\ \A d \in 1 .. Len(stack) : t[d] = stack[d]
    BY <1>1
  <1> HIDE DEF t
  <1>3. ASSUME NEW d \in 1 .. Len(stack)
        PROVE  \E p \in 1 .. (i + 1) - 1 : PushedAt(a, p, d, i + 1) /\ t[d] = WholeIn(a, p)
    <2>1. PICK p \in 1 .. i - 1 : PushedAt(a, p, d, i) /\ stack[d] = WholeIn(a, p)
      BY DEF StackIn
    <2>2. \A j \in p + 1 .. i + 1 : j \in p + 1 .. i \/ j = i + 1
      OBVIOUS
    <2>3. PushedAt(a, p, d, i + 1)
      BY <1>1, <2>1, <2>2 DEF PushedAt
    <2>4. p \in 1 .. (i + 1) - 1
      OBVIOUS
    <2> QED
      BY <1>2, <2>1, <2>3, <2>4
  <1>4. PushedAt(a, i, Len(stack) + 1, i + 1) /\ i \in 1 .. (i + 1) - 1
    <2>1. \A j \in i + 1 .. i + 1 : j = i + 1
      OBVIOUS
    <2> QED
      BY <1>1, <2>1 DEF PushedAt
  <1>5. ASSUME NEW d \in 1 .. Len(t)
        PROVE  \E p \in 1 .. (i + 1) - 1 : PushedAt(a, p, d, i + 1) /\ t[d] = WholeIn(a, p)
    <2>1. d \in 1 .. Len(stack) \/ d = Len(stack) + 1
      BY <1>1, <1>2
    <2> QED
      BY <1>2, <1>3, <1>4, <2>1 DEF w
  <1>6. StackIn(a, t, i + 1)
    BY <1>1, <1>2, <1>5 DEF StackIn
  <1> QED
    BY <1>6 DEF t, w

LEMMA StackAfterPop ==
    ASSUME NEW a, NEW i \in Nat \ {0}, a[i] = "--pop-state",
           NEW stack \in Seq(BOOLEAN), stack # <<>>, StackIn(a, stack, i)
    PROVE  /\ StackIn(a, Front(stack), i + 1)
           /\ Last(stack) = WholeIn(a, i + 1)
  <1> DEFINE t == Front(stack)
             n == Len(stack)
  <1>1. /\ n \in Nat \ {0} /\ n = Depth(a, i)
        /\ Depth(a, i + 1) = n - 1
    BY DepthNext DEF StackIn
  <1>2. /\ Len(t) = n - 1 /\ Last(stack) = stack[n]
        /\ \A d \in 1 .. n - 1 : t[d] = stack[d]
    BY <1>1 DEF Front, Last
  <1> HIDE DEF t
  <1>3. ASSUME NEW d \in 1 .. n - 1
        PROVE  \E p \in 1 .. (i + 1) - 1 : PushedAt(a, p, d, i + 1) /\ t[d] = WholeIn(a, p)
    <2>1. PICK p \in 1 .. i - 1 : PushedAt(a, p, d, i) /\ stack[d] = WholeIn(a, p)
      BY DEF StackIn
    <2>2. \A j \in p + 1 .. i + 1 : j \in p + 1 .. i \/ j = i + 1
      OBVIOUS
    <2>3. PushedAt(a, p, d, i + 1)
      BY <1>1, <2>1, <2>2 DEF PushedAt
    <2>4. p \in 1 .. (i + 1) - 1
      OBVIOUS
    <2> QED
      BY <1>2, <2>1, <2>3, <2>4
  <1>4. StackIn(a, t, i + 1)
    BY <1>1, <1>2, <1>3 DEF StackIn
  <1>5. PICK p \in 1 .. i - 1 : PushedAt(a, p, n, i) /\ stack[n] = WholeIn(a, p)
    BY <1>1 DEF StackIn
  <1>6. WholeIn(a, i + 1) = WholeIn(a, p)
    BY <1>1, <1>5, WholeRestored
  <1> QED
    BY <1>2, <1>4, <1>5, <1>6 DEF t

LEMMA StackKept ==
    ASSUME NEW a, NEW i \in Nat \ {0}, a[i] \notin {"--push-state", "--pop-state"},
           NEW stack, StackIn(a, stack, i), Len(stack) \in Nat
    PROVE  StackIn(a, stack, i + 1)
  <1>1. Depth(a, i + 1) = Depth(a, i) /\ Depth(a, i) = Len(stack)
    BY DepthNext DEF StackIn
  <1>2. ASSUME NEW d \in 1 .. Len(stack)
        PROVE  \E p \in 1 .. (i + 1) - 1 : PushedAt(a, p, d, i + 1) /\ stack[d] = WholeIn(a, p)
    <2>1. PICK p \in 1 .. i - 1 : PushedAt(a, p, d, i) /\ stack[d] = WholeIn(a, p)
      BY DEF StackIn
    <2>2. \A j \in p + 1 .. i + 1 : j \in p + 1 .. i \/ j = i + 1
      OBVIOUS
    <2>3. PushedAt(a, p, d, i + 1)
      BY <1>1, <2>1, <2>2 DEF PushedAt
    <2>4. p \in 1 .. (i + 1) - 1
      OBVIOUS
    <2> QED
      BY <2>1, <2>3, <2>4
  <1> QED
    BY <1>1, <1>2 DEF StackIn

-----------------------------------------------------------------------------
(* The inputs of l are files up to n, each under the state of its argument.*)
ScopedIn(a, l, n) ==
    \A i \in DOMAIN l : /\ l[i].file \in 1 .. n
                        /\ ArgumentIn(a, l[i].file) \in Nat \ {0}
                        /\ l[i].whole = WholeIn(a, ArgumentIn(a, l[i].file))

(* The sequence l names the files 1 .. n in order, and only lazy archives  *)
(* more than once.                                                         *)
OrderedTo(l, n) ==
    /\ \A i \in DOMAIN l : l[i].file \in 1 .. n
    /\ \A m \in 1 .. n : \E i \in DOMAIN l : l[i].file = m
    /\ \A i \in DOMAIN l : \A m \in 1 .. l[i].file : \E j \in 1 .. i : l[j].file = m
    /\ \A i, j \in DOMAIN l : (i # j /\ l[i].file = l[j].file) => LazyRef(l[i])

LEMMA OrderedConcat ==
    ASSUME NEW l \in Seq(Ref), NEW n \in Nat, OrderedTo(l, n), NEW g \in Seq(Ref),
           \A k \in DOMAIN g : g[k].file = n + k
    PROVE  OrderedTo(l \o g, n + Len(g))
  <1> DEFINE s == l \o g
  <1>0. PICK x \in Nat, y \in Nat : x = Len(l) /\ y = Len(g)
    OBVIOUS
  <1>1. /\ DOMAIN l = 1 .. x /\ DOMAIN g = 1 .. y /\ DOMAIN s = 1 .. x + y
        /\ \A i \in 1 .. x : s[i] = l[i]
        /\ \A k \in 1 .. y : s[x + k] = g[k]
    BY <1>0
  <1> HIDE DEF s
  <1>2. \A i \in 1 .. x : s[i].file \in 1 .. n
    BY <1>1 DEF OrderedTo
  <1>3. \A k \in 1 .. y : s[x + k].file = n + k
    BY <1>1
  <1>4. \A i \in 1 .. x + y : i \in 1 .. x \/ (i - x \in 1 .. y /\ i = x + (i - x))
    OBVIOUS
  <1>5. ASSUME NEW i \in 1 .. x + y PROVE s[i].file \in 1 .. n + y
    <2>1. CASE i \in 1 .. x
      BY <1>2, <2>1
    <2>2. CASE i \notin 1 .. x
      <3>1. i - x \in 1 .. y /\ s[i].file = n + (i - x)
        BY <1>3, <1>4, <2>2
      <3> QED
        BY <3>1
    <2> QED
      BY <2>1, <2>2
  <1>6. ASSUME NEW m \in 1 .. n + y PROVE \E i \in 1 .. x + y : s[i].file = m
    <2>1. CASE m <= n
      <3>0. m \in 1 .. n
        BY <2>1
      <3>1. PICK i \in 1 .. x : l[i].file = m
        BY <1>1, <3>0 DEF OrderedTo
      <3> QED
        BY <1>1, <3>1
    <2>2. CASE m > n
      <3>1. m - n \in 1 .. y /\ x + (m - n) \in 1 .. x + y /\ n + (m - n) = m
        BY <2>2
      <3> QED
        BY <1>3, <3>1
    <2> QED
      BY <2>1, <2>2
  <1>7. ASSUME NEW i \in 1 .. x + y, NEW m \in 1 .. s[i].file
        PROVE  \E j \in 1 .. i : s[j].file = m
    <2>1. CASE i \in 1 .. x
      <3>1. PICK j \in 1 .. i : l[j].file = m
        BY <1>1, <2>1 DEF OrderedTo
      <3> QED
        BY <1>1, <2>1, <3>1
    <2>2. CASE i \notin 1 .. x
      <3>1. i - x \in 1 .. y /\ s[i].file = n + (i - x)
        BY <1>3, <1>4, <2>2
      <3>2. CASE m <= n
        <4>1. PICK j \in 1 .. x : l[j].file = m
          BY <1>1, <3>2 DEF OrderedTo
        <4> QED
          BY <1>1, <2>2, <4>1
      <3>3. CASE m > n
        <4>1. m \in Nat /\ m <= n + (i - x)
          BY <3>1
        <4>2. m - n \in 1 .. y /\ x + (m - n) \in 1 .. i /\ n + (m - n) = m
          BY <3>3, <3>1, <4>1
        <4> QED
          BY <1>3, <4>2
      <3> QED
        BY <3>2, <3>3
    <2> QED
      BY <2>1, <2>2
  <1>8. ASSUME NEW i \in 1 .. x + y, NEW j \in 1 .. x + y, i # j, s[i].file = s[j].file
        PROVE  LazyRef(s[i])
    <2>1. i \in 1 .. x /\ j \in 1 .. x
      <3>1. CASE i \notin 1 .. x /\ j \notin 1 .. x
        <4>1. i - x \in 1 .. y /\ s[i].file = n + (i - x)
          BY <1>3, <1>4, <3>1
        <4>2. j - x \in 1 .. y /\ s[j].file = n + (j - x)
          BY <1>3, <1>4, <3>1
        <4>3. n + (i - x) = n + (j - x)
          BY <1>8, <4>1, <4>2, Zenon
        <4>4. i - x \in Nat /\ j - x \in Nat /\ i \in Nat /\ j \in Nat
          BY <4>1, <4>2
        <4>5. i = j
          BY <4>3, <4>4
        <4> QED
          BY <1>8, <4>5, Zenon
      <3>2. CASE i \notin 1 .. x /\ j \in 1 .. x
        <4>1. i - x \in 1 .. y /\ s[i].file = n + (i - x) /\ s[j].file \in 1 .. n
          BY <1>2, <1>3, <1>4, <3>2
        <4> QED
          BY <1>8, <4>1
      <3>3. CASE i \in 1 .. x /\ j \notin 1 .. x
        <4>1. j - x \in 1 .. y /\ s[j].file = n + (j - x) /\ s[i].file \in 1 .. n
          BY <1>2, <1>3, <1>4, <3>3
        <4> QED
          BY <1>8, <4>1
      <3> QED
        BY <3>1, <3>2, <3>3
    <2>2. s[i] = l[i] /\ l[i].file = l[j].file /\ i \in DOMAIN l /\ j \in DOMAIN l
      BY <1>1, <1>8, <2>1
    <2>3. LazyRef(l[i])
      BY <1>8, <2>2, Zenon DEF OrderedTo
    <2> QED
      BY <2>2, <2>3
  <1> QED
    BY <1>0, <1>1, <1>5, <1>6, <1>7, <1>8 DEF OrderedTo, s

(* Lazy archives may stand again behind a sequence that names them.        *)
LEMMA OrderedAgain ==
    ASSUME NEW l \in Seq(Ref), NEW n \in Nat, OrderedTo(l, n), NEW r \in Seq(Ref),
           \A k \in DOMAIN r : LazyRef(r[k]) /\ \E i \in DOMAIN l : r[k] = l[i]
    PROVE  OrderedTo(l \o r, n)
  <1> DEFINE s == l \o r
  <1>0. PICK x \in Nat, y \in Nat : x = Len(l) /\ y = Len(r)
    OBVIOUS
  <1>1. /\ DOMAIN l = 1 .. x /\ DOMAIN r = 1 .. y /\ DOMAIN s = 1 .. x + y
        /\ \A i \in 1 .. x : s[i] = l[i]
        /\ \A k \in 1 .. y : s[x + k] = r[k]
    BY <1>0
  <1> HIDE DEF s
  <1>2. ASSUME NEW i \in 1 .. x + y, i \notin 1 .. x
        PROVE  LazyRef(s[i]) /\ \E k \in 1 .. x : s[i] = l[k]
    <2>1. i - x \in 1 .. y /\ i = x + (i - x)
      BY <1>2
    <2>2. s[i] = r[i - x]
      BY <1>1, <2>1
    <2> QED
      BY <1>1, <2>1, <2>2
  <1>3. ASSUME NEW i \in 1 .. x + y PROVE \E k \in 1 .. x : k <= i /\ s[i] = l[k]
    <2>1. CASE i \in 1 .. x
      BY <1>1, <2>1
    <2>2. CASE i \notin 1 .. x
      <3>1. PICK k \in 1 .. x : s[i] = l[k]
        BY <1>2, <2>2
      <3> QED
        BY <2>2, <3>1
    <2> QED
      BY <2>1, <2>2
  <1>4. \A i \in 1 .. x + y : s[i].file \in 1 .. n
    BY <1>1, <1>3 DEF OrderedTo
  <1>5. ASSUME NEW m \in 1 .. n PROVE \E i \in 1 .. x + y : s[i].file = m
    <2>1. PICK i \in 1 .. x : l[i].file = m
      BY <1>1 DEF OrderedTo
    <2> QED
      BY <1>1, <2>1
  <1>6. ASSUME NEW i \in 1 .. x + y, NEW m \in 1 .. s[i].file
        PROVE  \E j \in 1 .. i : s[j].file = m
    <2>1. PICK k \in 1 .. x : k <= i /\ s[i] = l[k]
      BY <1>3
    <2>2. PICK j \in 1 .. k : l[j].file = m
      BY <1>1, <2>1 DEF OrderedTo
    <2>3. j \in 1 .. x /\ j \in 1 .. i
      BY <2>1
    <2> QED
      BY <1>1, <2>2, <2>3
  <1>7. ASSUME NEW i \in 1 .. x + y, NEW j \in 1 .. x + y, i # j, s[i].file = s[j].file
        PROVE  LazyRef(s[i])
    <2>1. CASE i \notin 1 .. x
      BY <1>2, <2>1
    <2>2. CASE i \in 1 .. x /\ j \in 1 .. x
      <3>1. s[i] = l[i] /\ l[i].file = l[j].file /\ i \in DOMAIN l /\ j \in DOMAIN l
        BY <1>1, <1>7, <2>2
      <3>2. LazyRef(l[i])
        BY <1>7, <3>1, Zenon DEF OrderedTo
      <3> QED
        BY <3>1, <3>2
    <2>3. CASE i \in 1 .. x /\ j \notin 1 .. x
      <3>1. PICK k \in 1 .. x : s[j] = l[k]
        BY <1>2, <2>3
      <3>2. LazyRef(l[k]) /\ l[i].file = l[k].file /\ s[i] = l[i]
        BY <1>1, <1>2, <1>7, <2>3, <3>1
      <3>3. CASE i = k
        BY <3>2, <3>3
      <3>4. CASE i # k
        BY <1>1, <2>3, <3>2, <3>4 DEF OrderedTo
      <3> QED
        BY <3>3, <3>4
    <2> QED
      BY <2>1, <2>2, <2>3
  <1> QED
    BY <1>1, <1>4, <1>5, <1>6, <1>7 DEF OrderedTo, s

-----------------------------------------------------------------------------
WrittenInv ==
    /\ argPos \in Nat \ {0} /\ DOMAIN arguments \subseteq Nat \ {0}
    /\ StackIn(arguments, stateStack, argPos)
    /\ whole = WholeIn(arguments, argPos)
    /\ Len(files) = Count(arguments, Paths, argPos)
    /\ ScopedIn(arguments, loaded, Len(files))
    /\ ScopedIn(arguments, groupInputs, Len(files))
    /\ \A j \in DOMAIN archiveInputs :
          \E k \in DOMAIN groupInputs : archiveInputs[j] = groupInputs[k]
    /\ inGroup \in BOOLEAN
    /\ inGroup => \E n \in Nat : /\ Len(files) = n + Len(groupInputs)
                                 /\ OrderedTo(loaded, n)
                                 /\ \A k \in DOMAIN groupInputs : groupInputs[k].file = n + k
    /\ ~inGroup => OrderedTo(loaded, Len(files))
    /\ loading = "loaded" => ~inGroup

LEMMA WrittenStartsWell ==
    ASSUME NEW c, NEW a, DOMAIN a \subseteq Nat \ {0}, NEW refusal, LoadStarts(c, a, refusal)
    PROVE  WrittenInv
  <1>1. /\ arguments = a /\ argPos = 1 /\ whole = FALSE /\ stateStack = <<>> /\ inGroup = FALSE
        /\ groupInputs = <<>> /\ archiveInputs = <<>> /\ files = <<>> /\ loaded = <<>>
    BY DEF LoadStarts
  <1>2. Depth(a, 1) = 0 /\ Count(a, Paths, 1) = 0
    BY CountNone DEF Depth
  <1>3. WholeIn(a, 1) = FALSE
    <2>1. Setters(a, 1) = {}
      BY DEF Setters
    <2> QED
      BY <2>1 DEF WholeIn
  <1>4. StackIn(a, <<>>, 1)
    BY <1>2 DEF StackIn
  <1>5. OrderedTo(<<>>, 0) /\ ScopedIn(a, <<>>, 0)
    BY DEF OrderedTo, ScopedIn
  <1>6. DOMAIN archiveInputs = {} /\ Len(files) = 0
    BY <1>1
  <1>7. /\ StackIn(arguments, stateStack, argPos) /\ whole = WholeIn(arguments, argPos)
        /\ Len(files) = Count(arguments, Paths, argPos)
        /\ ScopedIn(arguments, loaded, Len(files))
        /\ ScopedIn(arguments, groupInputs, Len(files)) /\ OrderedTo(loaded, Len(files))
    BY <1>1, <1>2, <1>3, <1>4, <1>5, <1>6, Zenon
  <1>8. argPos \in Nat \ {0} /\ DOMAIN arguments \subseteq Nat \ {0} /\ inGroup = FALSE
    BY <1>1
  <1> QED
    BY <1>6, <1>7, <1>8 DEF WrittenInv

LEMMA WrittenRefused ==
    ASSUME WrittenInv, loading' # "loaded",
           UNCHANGED <<arguments, argPos, whole, stateStack, inGroup, groupInputs,
                       archiveInputs, files, loaded>>
    PROVE  WrittenInv'
  BY DEF WrittenInv

(* What reading a marker leaves to show.                                   *)
LEMMA MarkerPassed ==
    ASSUME WrittenInv, Reading(Markers), argPos' = argPos + 1,
           UNCHANGED <<arguments, loading, inGroup, groupInputs, archiveInputs, files, loaded>>,
           StackIn(arguments, stateStack', argPos + 1),
           whole' = WholeIn(arguments, argPos + 1)
    PROVE  WrittenInv'
  <1>1. arguments[argPos] \notin Paths
    BY ArgumentsAssumption DEF Reading, Token
  <1>2. PICK i \in Nat \ {0} : i = argPos
    BY DEF WrittenInv
  <1>3. Count(arguments, Paths, i + 1) = Count(arguments, Paths, i)
        /\ Count(arguments, Paths, i) \in Nat
    <2>1. /\ Count(arguments, Paths, i) \in Nat
          /\ Count(arguments, Paths, i + 1) = Count(arguments, Paths, i) + 0
      BY <1>1, <1>2, CountNext
    <2> QED
      BY <2>1
  <1>4. Count(arguments, Paths, argPos + 1) = Count(arguments, Paths, argPos)
    BY <1>2, <1>3
  <1> QED
    BY <1>4 DEF WrittenInv

LEMMA WrittenPush == WrittenInv /\ LoadInv /\ PushState => WrittenInv'
  <1> SUFFICES ASSUME WrittenInv, LoadInv, PushState PROVE WrittenInv'
    OBVIOUS
  <1>1. /\ Reading(Markers) /\ argPos' = argPos + 1 /\ arguments[argPos] = "--push-state"
        /\ stateStack' = Append(stateStack, whole) /\ whole' = whole
        /\ UNCHANGED <<arguments, loading, inGroup, groupInputs, archiveInputs, files, loaded>>
    BY DEF PushState, NextArgument, Reading, Token, Markers, groupVars, outputVars, fixedVars
  <1>2. argPos \in Nat \ {0} /\ stateStack \in Seq(BOOLEAN)
        /\ StackIn(arguments, stateStack, argPos) /\ whole = WholeIn(arguments, argPos)
    BY DEF WrittenInv, LoadInv
  <1>3. StackIn(arguments, stateStack', argPos + 1)
    BY <1>1, <1>2, StackAfterPush
  <1>4. whole' = WholeIn(arguments, argPos + 1)
    BY <1>1, <1>2, WholeKept DEF SetMarkers
  <1> QED
    BY <1>1, <1>3, <1>4, MarkerPassed

LEMMA WrittenPop == WrittenInv /\ LoadInv /\ PopState => WrittenInv'
  <1> SUFFICES ASSUME WrittenInv, LoadInv, PopState PROVE WrittenInv'
    OBVIOUS
  <1>1. CASE stateStack = <<>>
    BY <1>1, WrittenRefused DEF PopState, Refuse
  <1>2. CASE stateStack # <<>>
    <2>1. /\ Reading(Markers) /\ argPos' = argPos + 1 /\ arguments[argPos] = "--pop-state"
          /\ stateStack' = Front(stateStack) /\ whole' = Last(stateStack)
          /\ UNCHANGED <<arguments, loading, inGroup, groupInputs, archiveInputs, files, loaded>>
      BY <1>2 DEF PopState, NextArgument, Reading, Token, Markers, groupVars, outputVars, fixedVars
    <2>2. argPos \in Nat \ {0} /\ stateStack \in Seq(BOOLEAN)
          /\ StackIn(arguments, stateStack, argPos)
      BY DEF WrittenInv, LoadInv
    <2>3. StackIn(arguments, stateStack', argPos + 1) /\ whole' = WholeIn(arguments, argPos + 1)
      BY <1>2, <2>1, <2>2, StackAfterPop
    <2> QED
      BY <2>1, <2>3, MarkerPassed
  <1> QED
    BY <1>1, <1>2

LEMMA WrittenSet == WrittenInv /\ LoadInv /\ SetWhole => WrittenInv'
  <1> SUFFICES ASSUME WrittenInv, LoadInv, SetWhole PROVE WrittenInv'
    OBVIOUS
  <1>1. /\ Reading(Markers) /\ argPos' = argPos + 1 /\ arguments[argPos] \in SetMarkers
        /\ stateStack' = stateStack /\ whole' = (arguments[argPos] = "--whole-archive")
        /\ UNCHANGED <<arguments, loading, inGroup, groupInputs, archiveInputs, files, loaded>>
    BY DEF SetWhole, NextArgument, Reading, Token, Markers, SetMarkers, groupVars, outputVars,
           fixedVars
  <1>2. argPos \in Nat \ {0} /\ Len(stateStack) \in Nat
        /\ StackIn(arguments, stateStack, argPos)
    BY DEF WrittenInv, LoadInv
  <1>3. StackIn(arguments, stateStack', argPos + 1)
    BY <1>1, <1>2, StackKept DEF SetMarkers
  <1>4. whole' = WholeIn(arguments, argPos + 1)
    BY <1>1, <1>2, WholeIsSet
  <1> QED
    BY <1>1, <1>3, <1>4, MarkerPassed

(* A group marker is no part of what the stack is about.                   *)
LEMMA GroupMarker ==
    ASSUME WrittenInv, LoadInv, Reading({"--start-group", "--end-group"})
    PROVE  /\ StackIn(arguments, stateStack, argPos + 1)
           /\ whole = WholeIn(arguments, argPos + 1)
           /\ Count(arguments, Paths, argPos + 1) = Len(files)
           /\ argPos + 1 \in Nat \ {0}
  <1>1. argPos \in Nat \ {0} /\ Len(stateStack) \in Nat
        /\ StackIn(arguments, stateStack, argPos) /\ whole = WholeIn(arguments, argPos)
        /\ Len(files) = Count(arguments, Paths, argPos)
    BY DEF WrittenInv, LoadInv
  <1>2. /\ arguments[argPos] \in {"--start-group", "--end-group"}
        /\ arguments[argPos] \notin Paths
    BY ArgumentsAssumption DEF Reading, Token, Markers
  <1>3. StackIn(arguments, stateStack, argPos + 1)
    BY <1>1, <1>2, StackKept
  <1>4. WholeIn(arguments, argPos + 1) = WholeIn(arguments, argPos)
    BY <1>1, <1>2, WholeKept DEF SetMarkers
  <1>5. Count(arguments, Paths, argPos + 1) = Count(arguments, Paths, argPos)
    <2>1. PICK i \in Nat \ {0} : i = argPos
      BY <1>1
    <2>2. /\ Count(arguments, Paths, i) \in Nat
          /\ Count(arguments, Paths, i + 1) = Count(arguments, Paths, i) + 0
      BY <1>2, <2>1, CountNext
    <2> QED
      BY <2>1, <2>2
  <1> QED
    BY <1>1, <1>3, <1>4, <1>5

LEMMA WrittenStartGroup == WrittenInv /\ LoadInv /\ StartGroup => WrittenInv'
  <1> SUFFICES ASSUME WrittenInv, LoadInv, StartGroup PROVE WrittenInv'
    OBVIOUS
  <1>1. CASE inGroup
    BY <1>1, WrittenRefused DEF StartGroup, Refuse
  <1>2. CASE ~inGroup
    <2>1. /\ inGroup' = TRUE /\ argPos' = argPos + 1
          /\ groupInputs' = <<>> /\ archiveInputs' = <<>>
          /\ UNCHANGED <<arguments, loading, whole, stateStack, files, loaded>>
          /\ loading' = "reading"
      BY <1>2 DEF StartGroup, NextArgument, Reading, outputVars, fixedVars
    <2>2. /\ StackIn(arguments, stateStack, argPos + 1)
          /\ whole = WholeIn(arguments, argPos + 1)
          /\ Count(arguments, Paths, argPos + 1) = Len(files)
          /\ argPos + 1 \in Nat \ {0}
      BY GroupMarker DEF StartGroup, Reading
    <2>3. /\ OrderedTo(loaded, Len(files)) /\ Len(files) \in Nat
          /\ Len(files) = Len(files) + Len(groupInputs')
      BY <1>2, <2>1 DEF WrittenInv, LoadInv
    <2>4. DOMAIN groupInputs' = {} /\ DOMAIN archiveInputs' = {}
      BY <2>1
    <2>5. ScopedIn(arguments, groupInputs', Len(files))
      BY <2>4 DEF ScopedIn
    <2> QED
      BY <2>1, <2>2, <2>3, <2>4, <2>5 DEF WrittenInv
  <1> QED
    BY <1>1, <1>2

(* The file read next is named by the argument read.                       *)
LEMMA FileIsNamed ==
    ASSUME WrittenInv, LoadInv, Reading(Paths)
    PROVE  /\ NewInput(Token).file = Len(files) + 1
           /\ NewInput(Token).whole =
                 WholeIn(arguments, ArgumentIn(arguments, NewInput(Token).file))
           /\ ArgumentIn(arguments, NewInput(Token).file) \in Nat \ {0}
           /\ Len(Append(files, Token)) = Count(arguments, Paths, argPos + 1)
           /\ Len(Append(files, Token)) = Len(files) + 1
           /\ StackIn(arguments, stateStack, argPos + 1)
           /\ whole = WholeIn(arguments, argPos + 1)
           /\ argPos + 1 \in Nat \ {0}
  <1>1. argPos \in Nat \ {0} /\ Len(stateStack) \in Nat /\ files \in Seq(Paths)
        /\ StackIn(arguments, stateStack, argPos) /\ whole = WholeIn(arguments, argPos)
        /\ Len(files) = Count(arguments, Paths, argPos)
        /\ DOMAIN arguments \subseteq Nat \ {0}
    BY DEF WrittenInv, LoadInv
  <1>2. argPos \in DOMAIN arguments /\ arguments[argPos] \in Paths
        /\ arguments[argPos] \notin SetMarkers
        /\ arguments[argPos] \notin {"--push-state", "--pop-state"}
    BY ArgumentsAssumption DEF Reading, Token, Markers, SetMarkers
  <1>3. StackIn(arguments, stateStack, argPos + 1)
    BY <1>1, <1>2, StackKept
  <1>4. WholeIn(arguments, argPos + 1) = WholeIn(arguments, argPos)
    BY <1>1, <1>2, WholeKept
  <1>5. Count(arguments, Paths, argPos + 1) = Count(arguments, Paths, argPos) + 1
    BY <1>1, <1>2, CountNext
  <1>6. ArgumentIn(arguments, Len(files) + 1) = argPos
    BY <1>1, <1>2, ArgumentIs
  <1>7. NewInput(Token).file = Len(files) + 1 /\ NewInput(Token).whole = whole
    BY DEF NewInput
  <1>8. Len(Append(files, Token)) = Len(files) + 1
    BY <1>1
  <1> QED
    BY <1>1, <1>3, <1>4, <1>5, <1>6, <1>7, <1>8

LEMMA ScopedAppend ==
    ASSUME NEW a, NEW l \in Seq(Ref), NEW n \in Nat, ScopedIn(a, l, n), NEW ref \in Ref,
           ref.file = n + 1, ref.whole = WholeIn(a, ArgumentIn(a, ref.file)),
           ArgumentIn(a, ref.file) \in Nat \ {0}
    PROVE  ScopedIn(a, l, n + 1) /\ ScopedIn(a, Append(l, ref), n + 1)
  <1> DEFINE t == Append(l, ref)
  <1>1. \A i \in DOMAIN l : l[i].file \in 1 .. n + 1 /\ ArgumentIn(a, l[i].file) \in Nat \ {0}
                            /\ l[i].whole = WholeIn(a, ArgumentIn(a, l[i].file))
    BY DEF ScopedIn
  <1>2. ref.file \in 1 .. n + 1
    OBVIOUS
  <1>3. \A i \in DOMAIN t : (i \in DOMAIN l /\ t[i] = l[i]) \/ t[i] = ref
    OBVIOUS
  <1> HIDE DEF t
  <1>4. ScopedIn(a, t, n + 1)
    BY <1>1, <1>2, <1>3 DEF ScopedIn
  <1> QED
    BY <1>1, <1>4 DEF ScopedIn, t


LEMMA WrittenReadInput == WrittenInv /\ LoadInv /\ ReadInput => WrittenInv'
  <1> SUFFICES ASSUME WrittenInv, LoadInv, ReadInput PROVE WrittenInv'
    OBVIOUS
  <1>1. CASE Content[Token].kind = "unreadable"
    BY <1>1, WrittenRefused DEF ReadInput, Refuse
  <1>2. CASE Content[Token].kind # "unreadable"
    <2>1. PICK ref : ref = NewInput(Token)
      OBVIOUS
    <2>2. /\ files' = Append(files, Token) /\ loaded' = Append(loaded, ref)
          /\ argPos' = argPos + 1 /\ ~inGroup /\ Reading(Paths)
          /\ UNCHANGED <<arguments, loading, whole, stateStack, inGroup, groupInputs, archiveInputs>>
      BY <1>2, <2>1 DEF ReadInput, NextArgument, groupVars, fixedVars
    <2>3. ref \in Ref
      BY <2>1, <2>2, NewInputIsRef
    <2>4. /\ ref.file = Len(files) + 1
          /\ ref.whole = WholeIn(arguments, ArgumentIn(arguments, ref.file))
          /\ ArgumentIn(arguments, ref.file) \in Nat \ {0}
          /\ Len(files') = Count(arguments, Paths, argPos + 1)
          /\ Len(files') = Len(files) + 1
          /\ StackIn(arguments, stateStack, argPos + 1)
          /\ whole = WholeIn(arguments, argPos + 1)
          /\ argPos + 1 \in Nat \ {0}
      BY <2>1, <2>2, FileIsNamed
    <2>5. /\ Len(files) \in Nat /\ loaded \in Seq(Ref) /\ groupInputs \in Seq(Ref)
          /\ ScopedIn(arguments, loaded, Len(files)) /\ OrderedTo(loaded, Len(files))
          /\ ScopedIn(arguments, groupInputs, Len(files))
      BY <2>2 DEF WrittenInv, LoadInv
    <2>6. /\ ScopedIn(arguments, loaded', Len(files'))
          /\ ScopedIn(arguments, groupInputs, Len(files'))
      BY <2>2, <2>3, <2>4, <2>5, ScopedAppend
    <2>7. OrderedTo(loaded', Len(files'))
      <3>1. <<ref>> \in Seq(Ref) /\ Len(<<ref>>) = 1 /\ <<ref>>[1] = ref
            /\ loaded' = loaded \o <<ref>> /\ DOMAIN <<ref>> = {1}
        BY <2>2, <2>3, <2>5
      <3>2. \A k \in DOMAIN <<ref>> : <<ref>>[k].file = Len(files) + k
        BY <2>4, <3>1
      <3>3. OrderedTo(loaded \o <<ref>>, Len(files) + Len(<<ref>>))
        BY <2>5, <3>1, <3>2, OrderedConcat
      <3> QED
        BY <2>4, <3>1, <3>3
    <2> QED
      BY <2>2, <2>4, <2>6, <2>7 DEF WrittenInv
  <1> QED
    BY <1>1, <1>2

LEMMA WrittenReadGroup == WrittenInv /\ LoadInv /\ ReadGroupInput => WrittenInv'
  <1> SUFFICES ASSUME WrittenInv, LoadInv, ReadGroupInput PROVE WrittenInv'
    OBVIOUS
  <1>1. CASE Content[Token].kind = "unreadable"
             \/ (Rescanned(Token) /\ Content[Token].kind = "badarchive")
    BY <1>1, WrittenRefused DEF ReadGroupInput, Refuse
  <1>2. CASE ~(Content[Token].kind = "unreadable"
               \/ (Rescanned(Token) /\ Content[Token].kind = "badarchive"))
    <2>1. PICK ref : ref = NewInput(Token)
      OBVIOUS
    <2>2. /\ files' = Append(files, Token) /\ groupInputs' = Append(groupInputs, ref)
          /\ archiveInputs' = IF Rescanned(Token) THEN Append(archiveInputs, ref)
                              ELSE archiveInputs
          /\ argPos' = argPos + 1 /\ inGroup /\ Reading(Paths) /\ loading' = "reading"
          /\ UNCHANGED <<arguments, whole, stateStack, inGroup, loaded>>
      BY <1>2, <2>1 DEF ReadGroupInput, NextArgument, fixedVars, Reading
    <2>3. ref \in Ref
      BY <2>1, <2>2, NewInputIsRef
    <2>4. /\ ref.file = Len(files) + 1
          /\ ref.whole = WholeIn(arguments, ArgumentIn(arguments, ref.file))
          /\ ArgumentIn(arguments, ref.file) \in Nat \ {0}
          /\ Len(files') = Count(arguments, Paths, argPos + 1)
          /\ Len(files') = Len(files) + 1
          /\ StackIn(arguments, stateStack, argPos + 1)
          /\ whole = WholeIn(arguments, argPos + 1)
          /\ argPos + 1 \in Nat \ {0}
      BY <2>1, <2>2, FileIsNamed
    <2>5. /\ Len(files) \in Nat /\ loaded \in Seq(Ref) /\ groupInputs \in Seq(Ref)
          /\ archiveInputs \in Seq(Ref)
          /\ ScopedIn(arguments, loaded, Len(files))
          /\ ScopedIn(arguments, groupInputs, Len(files))
          /\ \A j \in DOMAIN archiveInputs :
                \E k \in DOMAIN groupInputs : archiveInputs[j] = groupInputs[k]
      BY <2>2 DEF WrittenInv, LoadInv, Counted
    <2>6. /\ ScopedIn(arguments, loaded, Len(files'))
          /\ ScopedIn(arguments, groupInputs', Len(files'))
      BY <2>2, <2>3, <2>4, <2>5, ScopedAppend
    <2>7. /\ DOMAIN groupInputs' = DOMAIN groupInputs \cup {Len(groupInputs) + 1}
          /\ \A k \in DOMAIN groupInputs : groupInputs'[k] = groupInputs[k]
          /\ groupInputs'[Len(groupInputs) + 1] = ref
          /\ Len(groupInputs') = Len(groupInputs) + 1 /\ Len(groupInputs) \in Nat
      BY <2>2, <2>3, <2>5
    <2>8. ASSUME NEW j \in DOMAIN archiveInputs'
          PROVE  \E k \in DOMAIN groupInputs' : archiveInputs'[j] = groupInputs'[k]
      <3>1. (j \in DOMAIN archiveInputs /\ archiveInputs'[j] = archiveInputs[j])
            \/ archiveInputs'[j] = ref
        BY <2>2, <2>3, <2>5
      <3> QED
        BY <2>5, <2>7, <3>1
    <2>9. PICK n \in Nat : /\ Len(files) = n + Len(groupInputs) /\ OrderedTo(loaded, n)
                           /\ \A k \in DOMAIN groupInputs : groupInputs[k].file = n + k
      BY <2>2 DEF WrittenInv
    <2>10. /\ Len(files') = n + Len(groupInputs')
           /\ \A k \in DOMAIN groupInputs' : groupInputs'[k].file = n + k
      <3>1. ref.file = n + (Len(groupInputs) + 1)
        BY <2>4, <2>5, <2>7, <2>9
      <3>2. Len(files') = n + Len(groupInputs')
        <4>1. PICK x \in Nat, y \in Nat : x = Len(groupInputs) /\ y = Len(files)
          BY <2>5, <2>7
        <4>2. Len(files') = y + 1 /\ y = n + x /\ Len(groupInputs') = x + 1
          BY <2>4, <2>7, <2>9, <4>1, Zenon
        <4> QED
          BY <4>2
      <3>3. ASSUME NEW k \in DOMAIN groupInputs' PROVE groupInputs'[k].file = n + k
        <4>1. k \in DOMAIN groupInputs \/ k = Len(groupInputs) + 1
          BY <2>7
        <4> QED
          BY <2>7, <2>9, <3>1, <4>1
      <3> QED
        BY <3>2, <3>3
    <2>11. inGroup' => \E x \in Nat :
              /\ Len(files') = x + Len(groupInputs') /\ OrderedTo(loaded', x)
              /\ \A k \in DOMAIN groupInputs' : groupInputs'[k].file = x + k
      BY <2>2, <2>9, <2>10
    <2> QED
      BY <2>2, <2>4, <2>6, <2>8, <2>11 DEF WrittenInv
  <1> QED
    BY <1>1, <1>2

LEMMA WrittenEndGroup == WrittenInv /\ LoadInv /\ EndGroup => WrittenInv'
  <1> SUFFICES ASSUME WrittenInv, LoadInv, EndGroup PROVE WrittenInv'
    OBVIOUS
  <1>1. CASE ~inGroup \/ groupInputs = <<>>
    BY <1>1, WrittenRefused DEF EndGroup, Refuse
  <1>2. CASE inGroup /\ groupInputs # <<>>
    <2>1. PICK again : again = Repetitions(archiveInputs, memberCount)
      OBVIOUS
    <2>2. /\ loaded' = (loaded \o groupInputs) \o again
          /\ inGroup' = FALSE /\ argPos' = argPos + 1
          /\ UNCHANGED <<arguments, loading, whole, stateStack, files, groupInputs, archiveInputs>>
      BY <1>2, <2>1 DEF EndGroup, NextArgument, fixedVars
    <2>3. /\ StackIn(arguments, stateStack, argPos + 1)
          /\ whole = WholeIn(arguments, argPos + 1)
          /\ Count(arguments, Paths, argPos + 1) = Len(files)
          /\ argPos + 1 \in Nat \ {0}
      BY GroupMarker DEF EndGroup, Reading
    <2>4. /\ Len(files) \in Nat /\ loaded \in Seq(Ref) /\ groupInputs \in Seq(Ref)
          /\ archiveInputs \in Seq(Ref) /\ memberCount \in Nat
          /\ \A j \in DOMAIN archiveInputs : LazyRef(archiveInputs[j])
          /\ ScopedIn(arguments, loaded, Len(files))
          /\ ScopedIn(arguments, groupInputs, Len(files))
          /\ \A j \in DOMAIN archiveInputs :
                \E k \in DOMAIN groupInputs : archiveInputs[j] = groupInputs[k]
      BY DEF WrittenInv, LoadInv, Counted
    <2>5. PICK n \in Nat : /\ Len(files) = n + Len(groupInputs) /\ OrderedTo(loaded, n)
                           /\ \A k \in DOMAIN groupInputs : groupInputs[k].file = n + k
      BY <1>2 DEF WrittenInv
    <2>6. PICK both : both = loaded \o groupInputs
      OBVIOUS
    <2>7. /\ both \in Seq(Ref) /\ OrderedTo(both, Len(files))
          /\ \A i \in DOMAIN groupInputs : Len(loaded) + i \in DOMAIN both
                                           /\ both[Len(loaded) + i] = groupInputs[i]
          /\ \A i \in DOMAIN both : \/ i \in DOMAIN loaded /\ both[i] = loaded[i]
                                    \/ \E k \in DOMAIN groupInputs : both[i] = groupInputs[k]
      <3>1. /\ loaded \o groupInputs \in Seq(Ref)
            /\ \A i \in DOMAIN groupInputs :
                  Len(loaded) + i \in DOMAIN (loaded \o groupInputs)
                  /\ (loaded \o groupInputs)[Len(loaded) + i] = groupInputs[i]
        BY <2>4
      <3>2. OrderedTo(loaded \o groupInputs, n + Len(groupInputs))
        BY <2>4, <2>5, OrderedConcat
      <3>3. ASSUME NEW i \in DOMAIN both
            PROVE  \/ i \in DOMAIN loaded /\ both[i] = loaded[i]
                   \/ \E k \in DOMAIN groupInputs : both[i] = groupInputs[k]
        <4>1. PICK x \in Nat, y \in Nat : x = Len(loaded) /\ y = Len(groupInputs)
          BY <2>4
        <4>2. /\ DOMAIN loaded = 1 .. x /\ DOMAIN groupInputs = 1 .. y /\ DOMAIN both = 1 .. x + y
              /\ \A k \in 1 .. x : both[k] = loaded[k]
              /\ \A k \in 1 .. y : both[x + k] = groupInputs[k]
          BY <2>4, <2>6, <4>1
        <4>3. i \in 1 .. x \/ (i - x \in 1 .. y /\ i = x + (i - x))
          BY <4>2
        <4> QED
          BY <4>2, <4>3
      <3> QED
        BY <2>5, <2>6, <3>1, <3>2, <3>3
    <2>8. again \in Seq(Ref) /\ \A k \in DOMAIN again : \E j \in DOMAIN archiveInputs : again[k] = archiveInputs[j]
      <3>1. /\ Repeated(archiveInputs, memberCount) \in Seq(Ref)
            /\ Len(Repeated(archiveInputs, memberCount)) = memberCount * Len(archiveInputs)
            /\ \A k \in 1 .. memberCount * Len(archiveInputs) :
                  \E j \in DOMAIN archiveInputs : Repeated(archiveInputs, memberCount)[k] = archiveInputs[j]
        BY <2>4, RepeatedIs
      <3>2. again = Repeated(archiveInputs, memberCount)
        BY <2>1 DEF Repetitions
      <3>3. again \in Seq(Ref) /\ DOMAIN again = 1 .. memberCount * Len(archiveInputs)
        BY <3>1, <3>2
      <3> QED
        BY <3>1, <3>2, <3>3
    <2>9. ASSUME NEW k \in DOMAIN again
          PROVE  LazyRef(again[k]) /\ \E i \in DOMAIN both : again[k] = both[i]
      BY <2>4, <2>7, <2>8
    <2>10. OrderedTo(both \o again, Len(files))
      BY <2>4, <2>7, <2>8, <2>9, OrderedAgain
    <2>11. ScopedIn(arguments, both \o again, Len(files))
      <3>1. ASSUME NEW i \in DOMAIN (both \o again)
            PROVE  \E k \in DOMAIN both : (both \o again)[i] = both[k]
        <4> DEFINE l3 == both \o again
        <4>1. PICK x \in Nat, y \in Nat : x = Len(both) /\ y = Len(again)
          BY <2>7, <2>8
        <4>2. /\ DOMAIN both = 1 .. x /\ DOMAIN again = 1 .. y /\ DOMAIN l3 = 1 .. x + y
              /\ \A k \in 1 .. x : l3[k] = both[k]
              /\ \A k \in 1 .. y : l3[x + k] = again[k]
          BY <2>7, <2>8, <4>1
        <4>3. i \in 1 .. x \/ (i - x \in 1 .. y /\ i = x + (i - x))
          BY <4>2
        <4> HIDE DEF l3
        <4>4. \E k \in DOMAIN both : l3[i] = both[k]
          <5>1. CASE i \in 1 .. x
            BY <4>2, <5>1
          <5>2. CASE i - x \in 1 .. y /\ i = x + (i - x)
            <6>1. PICK j \in 1 .. y : i = x + j
              BY <5>2
            <6>2. l3[i] = again[j] /\ j \in DOMAIN again
              BY <4>2, <6>1
            <6> QED
              BY <2>9, <6>2
          <5> QED
            BY <4>3, <5>1, <5>2
        <4> QED
          BY <4>4 DEF l3
      <3>2. ScopedIn(arguments, both, Len(files))
        BY <2>4, <2>7 DEF ScopedIn
      <3> QED
        BY <3>1, <3>2 DEF ScopedIn
    <2>12. loaded' = both \o again
      BY <2>2, <2>6
    <2> QED
      BY <2>2, <2>3, <2>4, <2>10, <2>11, <2>12 DEF WrittenInv
  <1> QED
    BY <1>1, <1>2

LEMMA WrittenStep == WrittenInv /\ LoadInv /\ LoadNext => WrittenInv'
  <1> SUFFICES ASSUME WrittenInv, LoadInv, LoadNext PROVE WrittenInv'
    OBVIOUS
  <1>1. CASE EndArguments
    <2>1. CASE inGroup \/ stateStack # <<>> \/ loaded = <<>>
      BY <1>1, <2>1, WrittenRefused DEF EndArguments, Refuse
    <2>2. CASE ~(inGroup \/ stateStack # <<>> \/ loaded = <<>>)
      BY <1>1, <2>2 DEF EndArguments, groupVars, outputVars, WrittenInv
    <2> QED
      BY <2>1, <2>2
  <1> QED
    BY <1>1, WrittenPush, WrittenPop, WrittenSet, WrittenStartGroup, WrittenReadInput,
       WrittenReadGroup, WrittenEndGroup DEF LoadNext


-----------------------------------------------------------------------------
(* What the stack-free reading of InputSequence says, in these terms.      *)
LEMMA PushDepthIs ==
    ASSUME NEW i \in Nat \ {0}
    PROVE  PushDepth(i) = Depth(arguments, i)
  <1>1. /\ {j \in 1 .. i - 1 : arguments[j] = "--push-state"} =
              {j \in 1 .. i - 1 : arguments[j] \in {"--push-state"}}
        /\ {j \in 1 .. i - 1 : arguments[j] = "--pop-state"} =
              {j \in 1 .. i - 1 : arguments[j] \in {"--pop-state"}}
    OBVIOUS
  <1> QED
    BY <1>1, Zenon DEF PushDepth, Depth, Count

LEMMA WholeAtIs ==
    ASSUME NEW i \in Nat \ {0}
    PROVE  WholeAt(i) = WholeIn(arguments, i)
  <1> DEFINE set == {k \in 1 .. i - 1 : /\ arguments[k] \in {"--whole-archive", "--no-whole-archive"}
                                        /\ InScope(k, i)}
  <1>1. ASSUME NEW k \in 1 .. i - 1
        PROVE  InScope(k, i) <=> \A j \in k + 1 .. i : Depth(arguments, j) >= Depth(arguments, k)
    <2>1. PushDepth(k) = Depth(arguments, k)
      BY PushDepthIs
    <2>2. ASSUME NEW j \in k + 1 .. i PROVE PushDepth(j) = Depth(arguments, j)
      BY PushDepthIs
    <2> QED
      BY <2>1, <2>2 DEF InScope
  <1>2. set = Setters(arguments, i)
    BY <1>1 DEF Setters, SetMarkers
  <1>3. WholeAt(i) = (set # {} /\ arguments[CHOOSE k \in set : \A j \in set : j <= k] = "--whole-archive")
    BY Zenon DEF WholeAt
  <1> HIDE DEF set
  <1> QED
    BY <1>2, <1>3, Zenon DEF WholeIn

LEMMA EveryFileIsArgument ==
    ASSUME NEW n, ArgumentOf(n) \in Nat \ {0}
    PROVE  WholeAt(ArgumentOf(n)) = WholeIn(arguments, ArgumentIn(arguments, n))
  <1>1. ArgumentOf(n) = ArgumentIn(arguments, n)
    BY Zenon DEF ArgumentOf, ArgumentIn
  <1>2. WholeAt(ArgumentOf(n)) = WholeIn(arguments, ArgumentOf(n))
    BY WholeAtIs
  <1> QED
    BY <1>1, <1>2



(* The first place of a file that the sequence names.                      *)
LEMMA FirstIs ==
    ASSUME NEW T \in SUBSET Nat, T # {}
    PROVE  LET first == CHOOSE i \in T : \A j \in T : i <= j
           IN first \in T /\ \A j \in T : first <= j
  <1>1. \E i \in T : \A j \in T : i <= j
    BY LeastOfSet
  <1> QED
    BY <1>1

LEMMA WrittenAppearsOnce == WrittenInv /\ LoadInv => RootsAppearOnce
  <1> SUFFICES ASSUME WrittenInv, LoadInv, loading = "loaded" PROVE RootsAppearOnce
    BY DEF RootsAppearOnce
  <1> DEFINE Places(n) == {i \in DOMAIN loaded : loaded[i].file = n}
             First(n) == CHOOSE i \in Places(n) : \A j \in Places(n) : i <= j
  <1>1. /\ OrderedTo(loaded, Len(files)) /\ loaded \in Seq(Ref) /\ DOMAIN loaded \subseteq Nat
        /\ DOMAIN files = 1 .. Len(files) /\ Len(files) \in Nat
    BY DEF WrittenInv, LoadInv
  <1>2. ASSUME NEW n \in DOMAIN files PROVE Places(n) # {} /\ Places(n) \in SUBSET Nat
    BY <1>1 DEF OrderedTo
  <1>3. ASSUME NEW n \in DOMAIN files
        PROVE  /\ First(n) \in DOMAIN loaded /\ loaded[First(n)].file = n
               /\ \A j \in DOMAIN loaded : loaded[j].file = n => First(n) <= j
    <2>1. First(n) \in Places(n) /\ \A j \in Places(n) : First(n) <= j
      BY <1>2, FirstIs
    <2> QED
      BY <2>1
  <1>4. ASSUME NEW m \in DOMAIN files, NEW n \in DOMAIN files, m < n
        PROVE  First(m) < First(n)
    <2>1. PICK x : x = First(m)
      OBVIOUS
    <2>2. PICK y : y = First(n)
      OBVIOUS
    <2>3. /\ x \in DOMAIN loaded /\ \A j \in DOMAIN loaded : loaded[j].file = m => x <= j
          /\ y \in DOMAIN loaded /\ loaded[y].file = n
          /\ loaded[x].file = m
      BY <1>3, <2>1, <2>2
    <2>0. m \in 1 .. n
      BY <1>1, <1>4
    <2>4. PICK j \in 1 .. y : loaded[j].file = m
      BY <1>1, <2>0, <2>3 DEF OrderedTo
    <2>5. j \in DOMAIN loaded /\ j # y /\ x \in Nat /\ y \in Nat
      BY <1>1, <1>4, <2>3, <2>4
    <2>6. x <= j /\ j <= y
      BY <2>3, <2>4, <2>5
    <2>7. x < y
      BY <2>4, <2>5, <2>6
    <2> QED
      BY <2>1, <2>2, <2>7
  <1>5. \A i, j \in DOMAIN loaded :
           (i # j /\ loaded[i].file = loaded[j].file) =>
               HasArchiveMagic(loaded[i].path) /\ ~loaded[i].whole
    BY <1>1 DEF OrderedTo, LazyRef
  <1> HIDE DEF First
  <1>6. \A n \in DOMAIN files : Places(n) # {}
    BY <1>2
  <1> HIDE DEF Places
  <1> QED
    BY <1>4, <1>5, <1>6 DEF RootsAppearOnce, First, Places

LEMMA WrittenIsScoped == WrittenInv => WholeIsScoped
  <1> SUFFICES ASSUME WrittenInv, NEW i \in DOMAIN loaded
               PROVE  loaded[i].whole = WholeAt(ArgumentOf(loaded[i].file))
    BY DEF WholeIsScoped
  <1>1. /\ ArgumentIn(arguments, loaded[i].file) \in Nat \ {0}
        /\ loaded[i].whole = WholeIn(arguments, ArgumentIn(arguments, loaded[i].file))
    BY DEF WrittenInv, ScopedIn
  <1>2. ArgumentOf(loaded[i].file) = ArgumentIn(arguments, loaded[i].file)
    BY Zenon DEF ArgumentOf, ArgumentIn
  <1> QED
    BY <1>1, <1>2, EveryFileIsArgument

(* Arguments stand at places counted from one, flattened or not.           *)
LEMMA FlattenedArguments ==
    ASSUME NEW a \in ArgumentLists
    PROVE  DOMAIN Flatten(a) \subseteq Nat \ {0}
  <1>1. CASE Balanced(a)
    <2> DEFINE kept == SelectSeq([i \in DOMAIN a |-> i], LAMBDA i : ~InnerMarker(a, i))
    <2>1. Flatten(a) = [k \in 1 .. Len(kept) |-> a[kept[k]]]
      BY <1>1 DEF Flatten
    <2> HIDE DEF kept
    <2> QED
      BY <2>1
  <1>2. CASE ~Balanced(a)
    BY <1>2, ArgumentsAssumption DEF Flatten
  <1> QED
    BY <1>1, <1>2

WritingInv == LinkInv /\ WrittenInv

LEMMA WritingInvStep ==
    WritingInv /\ [LinkInputsNext \/ LinkInputsStopped]_linkInputsVars => WritingInv'
  <1> SUFFICES ASSUME WritingInv, [LinkInputsNext \/ LinkInputsStopped]_linkInputsVars
               PROVE  WritingInv'
    OBVIOUS
  <1>1. LinkInv'
    BY LinkInvStep DEF WritingInv
  <1>2. Load => WrittenInv'
    BY WrittenStep DEF WritingInv, LinkInv, Load
  <1>3. ASSUME UNCHANGED loadVars PROVE WrittenInv'
    <2>1. UNCHANGED <<arguments, argPos, whole, stateStack, inGroup, groupInputs,
                      archiveInputs, files, loaded, loading>>
      BY <1>3 DEF loadVars
    <2> QED
      BY <2>1 DEF WritingInv, WrittenInv
  <1>4. ~Load => UNCHANGED loadVars
    BY DEF LinkInputsNext, HandOver, Link, LinkInputsStopped, linkInputsVars
  <1>5. WrittenInv'
    BY <1>2, <1>3, <1>4
  <1> QED
    BY <1>1, <1>5 DEF WritingInv

(* However markers, pushes, pops, groups and files alternate on the command*)
(* line: every input stands in the sequence under the --whole-archive state*)
(* its place in the arguments gives it, every file stands there in the     *)
(* order of the arguments, and a repeated group names nothing but lazy     *)
(* archives again (load_link_input_sequence, main.rs).                     *)
THEOREM LoadedAsTheArgumentsSay == LinkInputsSpec => []LoadedAsWritten
  <1>1. LinkInputsInit => WritingInv
    <2> SUFFICES ASSUME LinkInputsInit PROVE WritingInv
      OBVIOUS
    <2>1. LinkInv
      BY ForcedAssumption, LinkInvInit DEF LinkInputsInit, LoadInit
    <2>2. PICK a \in ArgumentLists, c \in Commands :
             LoadStarts(c, Flatten(a),
                        IF c = "partial" /\ NestingRefused(a) THEN "NestedGroup" ELSE "none")
      BY DEF LinkInputsInit, LoadInit
    <2>3. WrittenInv
      BY <2>2, FlattenedArguments, WrittenStartsWell
    <2> QED
      BY <2>1, <2>3 DEF WritingInv
  <1>2. WritingInv => LoadedAsWritten
    BY WrittenAppearsOnce, WrittenIsScoped DEF WritingInv, LinkInv, LoadedAsWritten
  <1> QED
    BY <1>1, <1>2, WritingInvStep, PTL DEF LinkInputsSpec
=============================================================================
