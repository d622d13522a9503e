------------------------ MODULE PartialThenLink_proofs ------------------------
(***************************************************************************)
(* Whatever the symbols and their order, the resolver binds every name by  *)
(* rank, lets no second strong definition pass, and gives every common     *)
(* storage of its own, aligned as every object that declares it asks; and  *)
(* what it does is settled by the stream alone.                            *)
(*                                                                         *)
(* Whatever the symbols, the marks of the section side, the forced names   *)
(* and the cut: the symbol table of a partial link has one symbol for every*)
(* input symbol that a later link can name, bound by rank, and a link that *)
(* reads it in place of the inputs ends as a link of the inputs does.      *)
(***************************************************************************)
EXTENDS PartialThenLink, DivisionFacts, SequenceTheorems

(* What the definition d of the name n says of the symbols read so far.    *)
StrongBinding(n, d) ==
    d.place = "section" /\ d.bind = "global" => d.source \in Strong(n)

WeakBinding(n, d) ==
    d.place = "section" /\ d.bind = "weak" =>
        /\ Strong(n) = {} /\ Commons(n) = {}
        /\ d.source \in Weak(n)
        /\ \A i \in Weak(n) : d.source <= i

SizeOfCommon(n, d) ==
    d.place \in {"common", "allocated"} =>
        /\ Strong(n) = {}
        /\ \E i \in Commons(n) : stream[i].size = d.size
        /\ \A i \in Commons(n) : stream[i].size <= d.size

AlignmentOfCommon(n, d) ==
    d.place = "common" =>
        /\ d.value # 0
        /\ \E i \in Commons(n) : stream[i].value = d.value
        /\ \A i \in Commons(n) : stream[i].value <= d.value

Binding(n, d) ==
    /\ StrongBinding(n, d) /\ WeakBinding(n, d)
    /\ SizeOfCommon(n, d) /\ AlignmentOfCommon(n, d)

BindingInv ==
    \A n \in Names :
        /\ n \in DOMAIN definitions <=> Read(n) # {}
        /\ n \in DOMAIN definitions => Binding(n, definitions[n])

(* Storage is given out only after the scan.                               *)
ScanInv == phase = "scan" =>
             \A n \in DOMAIN definitions : definitions[n].place # "allocated"

ResolveInv == ResolveTypeOK /\ BindingInv /\ ScanInv /\ OneStrongDefinition

-----------------------------------------------------------------------------
(* Reading one more symbol adds it to the definitions of its own name.     *)
LEMMA ReadAfter ==
  ASSUME ResolveTypeOK, Scanning, stream' = stream, next' = next + 1, NEW n \in Names
  PROVE  LET new == IF Defines(Current) /\ Current.name = n THEN {next} ELSE {}
         IN /\ Read(n)' = Read(n) \cup new
            /\ Strong(n)' = Strong(n) \cup
                 {i \in new : Current.place = "section" /\ Current.bind = "global"}
            /\ Commons(n)' = Commons(n) \cup {i \in new : Current.place = "common"}
            /\ Weak(n)' = Weak(n) \cup
                 {i \in new : Current.place = "section" /\ Current.bind = "weak"}
  <1> DEFINE new == IF Defines(Current) /\ Current.name = n THEN {next} ELSE {}
  <1>1. next \in Nat /\ next \in DOMAIN stream /\ Current = stream[next]
    BY DEF ResolveTypeOK, Scanning, Current
  <1>2. DOMAIN stream \subseteq Nat
    BY LenProperties DEF ResolveTypeOK
  <1>3. \A i \in DOMAIN stream : i < next + 1 <=> i < next \/ i = next
    BY <1>1, <1>2
  <1>4. Read(n)' = Read(n) \cup new
    BY <1>1, <1>3 DEF Read
  <1>5. \A i \in new : i = next
    OBVIOUS
  <1>6. Strong(n)' = Strong(n) \cup
                 {i \in new : Current.place = "section" /\ Current.bind = "global"}
    BY <1>1, <1>4, <1>5 DEF Strong
  <1>7. Commons(n)' = Commons(n) \cup {i \in new : Current.place = "common"}
    BY <1>1, <1>4, <1>5 DEF Commons
  <1>8. Weak(n)' = Weak(n) \cup
                 {i \in new : Current.place = "section" /\ Current.bind = "weak"}
    BY <1>1, <1>4, <1>5 DEF Weak
  <1> QED
    BY <1>4, <1>6, <1>7, <1>8

(* The other names' definitions are as they were.                          *)
LEMMA ReadOfOthers ==
  ASSUME ResolveTypeOK, Scanning, stream' = stream, next' = next + 1, NEW n \in Names,
         ~(Defines(Current) /\ Current.name = n)
  PROVE  /\ Read(n)' = Read(n) /\ Strong(n)' = Strong(n)
         /\ Commons(n)' = Commons(n) /\ Weak(n)' = Weak(n)
  <1>1. Read(n)' = Read(n)
    BY ReadAfter
  <1> QED
    BY <1>1 DEF Strong, Commons, Weak

(* A step that reads nothing leaves the symbols of every name as they are. *)
LEMMA ReadUnchanged ==
  ASSUME UNCHANGED <<stream, next>>, NEW n
  PROVE  /\ Read(n)' = Read(n) /\ Strong(n)' = Strong(n)
         /\ Commons(n)' = Commons(n) /\ Weak(n)' = Weak(n)
  <1>1. Read(n)' = Read(n)
    BY DEF Read
  <1> QED
    BY <1>1 DEF Strong, Commons, Weak

(* What is said of a name's definition depends on the symbols read of it.  *)
LEMMA BindingUnchanged ==
  ASSUME UNCHANGED stream, NEW n, NEW d, Binding(n, d),
         Strong(n)' = Strong(n), Commons(n)' = Commons(n), Weak(n)' = Weak(n)
  PROVE  /\ StrongBinding(n, d)' /\ WeakBinding(n, d)'
         /\ SizeOfCommon(n, d)' /\ AlignmentOfCommon(n, d)'
  BY DEF Binding, StrongBinding, WeakBinding, SizeOfCommon, AlignmentOfCommon

(* The symbol read is a candidate, and one that defines its name is a      *)
(* strong, a common or a weak definition of it.                            *)
LEMMA CurrentIsCandidate ==
  ASSUME ResolveTypeOK, Scanning
  PROVE  /\ Current \in Candidate
         /\ next \in Nat \ {0} /\ next + 1 \in Nat \ {0}
  <1>1. next \in 1 .. Len(stream) /\ stream \in Seq(Candidate)
    BY LenProperties DEF ResolveTypeOK, Scanning
  <1>2. stream[next] \in Candidate
    BY <1>1, ElementOfSeq
  <1> QED
    BY <1>1, <1>2 DEF Current

LEMMA FoundIsDefinition ==
  ASSUME ResolveTypeOK, Accepted
  PROVE  /\ Current.name \in Names /\ Found \in Definition
         /\ Current.place \in {"section", "common"} /\ Current.bind \in {"global", "weak"}
         /\ Current.place = "common" => Current.bind = "global" /\ Current.value # 0
  <1>1. Current \in Candidate /\ next \in Nat
    BY CurrentIsCandidate DEF Accepted
  <1>2. /\ Current.name \in Names
        /\ Current.place \in {"section", "common"} /\ Current.bind \in {"global", "weak"}
    BY <1>1 DEF Accepted, Defines, Nonlocal, Candidate
  <1>3. Current.place = "common" => Current.bind = "global" /\ Current.value # 0
    BY DEF Accepted, Refused, PowerOfTwo
  <1>4. Found \in Definition
    BY <1>1, <1>2 DEF Found, Definition, Candidate
  <1> QED
    BY <1>2, <1>3, <1>4

(* The invariant about bindings after a definition is accepted, from what  *)
(* is said of its own name.                                                *)
LEMMA BindingAfter ==
  ASSUME ResolveInv, Accepted, stream' = stream, next' = next + 1,
         NEW n, n = Current.name,
         DOMAIN definitions' = DOMAIN definitions \cup {n},
         \A m \in DOMAIN definitions \ {n} : definitions'[m] = definitions[m],
         Binding(n, definitions[n])'
  PROVE  BindingInv'
  <1>1. ResolveTypeOK /\ Scanning /\ Defines(Current) /\ n \in Names
    BY FoundIsDefinition DEF ResolveInv, Accepted
  <1> SUFFICES ASSUME NEW m \in Names
               PROVE  /\ m \in DOMAIN definitions' <=> Read(m)' # {}
                      /\ m \in DOMAIN definitions' => Binding(m, definitions[m])'
    BY DEF BindingInv
  <1>2. CASE m = n
    <2>1. Read(m)' # {}
      BY <1>1, <1>2, ReadAfter
    <2> QED
      BY <1>2, <2>1
  <1>3. CASE m # n
    <2>1. /\ Read(m)' = Read(m) /\ Strong(m)' = Strong(m)
          /\ Commons(m)' = Commons(m) /\ Weak(m)' = Weak(m)
      <3>1. ~(Defines(Current) /\ Current.name = m)
        BY <1>3
      <3> QED
        BY <1>1, <3>1, ReadOfOthers
    <2>2. m \in DOMAIN definitions' <=> m \in DOMAIN definitions
      BY <1>3
    <2>3. m \in DOMAIN definitions <=> Read(m) # {}
      BY DEF ResolveInv, BindingInv
    <2>4. ASSUME m \in DOMAIN definitions PROVE Binding(m, definitions[m])'
      <3>1. Binding(m, definitions[m]) /\ definitions'[m] = definitions[m]
        BY <1>3, <2>4 DEF ResolveInv, BindingInv
      <3> QED
        BY <2>1, <3>1 DEF Binding, StrongBinding, WeakBinding, SizeOfCommon, AlignmentOfCommon
    <2> QED
      BY <2>1, <2>2, <2>3, <2>4
  <1> QED
    BY <1>2, <1>3

(* Still one strong definition, unless a second one was read.              *)
LEMMA OneStrongAfter ==
  ASSUME ResolveInv, Scanning, stream' = stream, next' = next + 1,
         Defines(Current) /\ Current.place = "section" /\ Current.bind = "global"
           => Strong(Current.name) = {}
  PROVE  OneStrongDefinition'
  <1> SUFFICES ASSUME NEW n \in Names, NEW i \in Strong(n)', NEW j \in Strong(n)'
               PROVE  i = j
    BY DEF OneStrongDefinition
  <1>1. Strong(n) = {} \/ Strong(n)' = Strong(n)
    <2>1. CASE Defines(Current) /\ Current.name = n /\ Current.place = "section"
               /\ Current.bind = "global"
      BY <2>1
    <2>2. CASE ~(Defines(Current) /\ Current.name = n /\ Current.place = "section"
                 /\ Current.bind = "global")
      BY <2>2, ReadAfter DEF ResolveInv
    <2> QED
      BY <2>1, <2>2
  <1>2. CASE Strong(n) = {}
    BY <1>2, ReadAfter DEF ResolveInv
  <1>3. CASE Strong(n)' = Strong(n)
    BY <1>3 DEF ResolveInv, OneStrongDefinition
  <1> QED
    BY <1>1, <1>2, <1>3

(* Reading a symbol keeps the types when what it leaves in definitions is  *)
(* well typed.                                                             *)
LEMMA AdvanceTypeOK ==
  ASSUME ResolveTypeOK, Scanning, NEW defs, Advance(defs),
         DOMAIN defs \in SUBSET Names, defs \in [DOMAIN defs -> Definition]
  PROVE  ResolveTypeOK'
  <1>1. next' \in Nat \ {0}
    BY CurrentIsCandidate DEF Advance
  <1>2. /\ definitions' = defs
        /\ UNCHANGED <<stream, placing, commonSize, commonAlign, phase, error>>
    BY DEF Advance
  <1> QED
    BY <1>1, <1>2 DEF ResolveTypeOK

(* Binding the symbol's name to d settles the whole invariant, once d says *)
(* the right thing of the name and the symbol is no second strong one.     *)
LEMMA BindStep ==
  ASSUME ResolveInv, Accepted, NEW d \in Definition, d.place # "allocated",
         NEW n, n = Current.name, Advance(Bind(n, d)), Binding(n, d)',
         Current.place = "section" /\ Current.bind = "global" => Strong(n) = {}
  PROVE  ResolveInv'
  <1>1. n \in Names /\ Scanning /\ ResolveTypeOK
    BY FoundIsDefinition DEF Accepted, ResolveInv
  <1>2. /\ definitions' = Bind(n, d) /\ stream' = stream /\ next' = next + 1
        /\ phase' = phase
    BY DEF Advance
  <1>3. /\ DOMAIN definitions' = DOMAIN definitions \cup {n}
        /\ definitions'[n] = d
        /\ \A m \in DOMAIN definitions \ {n} : definitions'[m] = definitions[m]
    BY <1>2 DEF Bind
  <1>4. ResolveTypeOK'
    <2>1. DOMAIN Bind(n, d) = DOMAIN definitions \cup {n}
      BY DEF Bind
    <2>2. \A m \in DOMAIN Bind(n, d) : Bind(n, d)[m] \in Definition
      BY <1>1 DEF ResolveTypeOK, Bind
    <2>3. Bind(n, d) \in [DOMAIN Bind(n, d) -> Definition]
      BY <2>2 DEF Bind
    <2>4. DOMAIN Bind(n, d) \in SUBSET Names
      BY <1>1, <2>1 DEF ResolveTypeOK
    <2> QED
      BY <1>1, <2>3, <2>4, AdvanceTypeOK
  <1>5. Binding(n, definitions[n])'
    BY <1>3
  <1>6. BindingInv'
    BY <1>2, <1>3, <1>5, BindingAfter
  <1>7. ScanInv'
    BY <1>2, <1>3 DEF ScanInv, ResolveInv
  <1>8. OneStrongDefinition'
    BY <1>1, <1>2, OneStrongAfter
  <1> QED
    BY <1>4, <1>6, <1>7, <1>8 DEF ResolveInv

(* Which rank the definition just read joins.                              *)
LEMMA ReadOfItsName ==
  ASSUME ResolveTypeOK, Accepted, stream' = stream, next' = next + 1,
         NEW n, n = Current.name
  PROVE  /\ Current.place = "common" =>
              Strong(n)' = Strong(n) /\ Commons(n)' = Commons(n) \cup {next} /\ Weak(n)' = Weak(n)
         /\ Current.place = "section" /\ Current.bind = "global" =>
              Strong(n)' = Strong(n) \cup {next} /\ Commons(n)' = Commons(n) /\ Weak(n)' = Weak(n)
         /\ Current.place = "section" /\ Current.bind = "weak" =>
              Strong(n)' = Strong(n) /\ Commons(n)' = Commons(n) /\ Weak(n)' = Weak(n) \cup {next}
  <1>1. /\ n \in Names /\ Scanning /\ Defines(Current)
        /\ next \in DOMAIN stream /\ Current = stream[next] /\ next \in Nat
    BY FoundIsDefinition, CurrentIsCandidate DEF Accepted, Scanning, Current
  <1>2. Read(n)' = Read(n) \cup {next}
    BY <1>1, ReadAfter
  <1> QED
    BY <1>1, <1>2 DEF Strong, Commons, Weak

(* What is said of a symbol that has just taken its name.                  *)
LEMMA FoundBinding ==
  ASSUME ResolveInv, Accepted, stream' = stream, next' = next + 1,
         NEW n, n = Current.name, NEW d, d = Found,
         Current.place = "section" /\ Current.bind = "weak" => Read(n) = {},
         Current.place = "common" => Strong(n) = {} /\ Commons(n) = {}
  PROVE  Binding(n, d)'
  <1>1. /\ ResolveTypeOK /\ Scanning /\ next \in Nat
        /\ next \in DOMAIN stream /\ Current = stream[next]
    BY CurrentIsCandidate DEF ResolveInv, Accepted, Scanning, Current
  <1>2. /\ d.source = next /\ d.place = Current.place /\ d.bind = Current.bind
        /\ d.size = Current.size /\ d.value = Current.value
    BY DEF Found
  <1>3. Current \in Candidate /\ Current.place \in {"section", "common"}
    BY <1>1, CurrentIsCandidate, FoundIsDefinition
  <1>4. StrongBinding(n, d)'
    BY <1>1, <1>2, ReadOfItsName DEF StrongBinding
  <1>5. WeakBinding(n, d)'
    <2> SUFFICES ASSUME Current.place = "section", Current.bind = "weak"
                 PROVE  /\ Strong(n)' = {} /\ Commons(n)' = {} /\ Weak(n)' = {next}
      BY <1>1, <1>2 DEF WeakBinding
    <2>1. Read(n) = {}
      OBVIOUS
    <2>2. Strong(n) = {} /\ Commons(n) = {} /\ Weak(n) = {}
      BY <2>1 DEF Strong, Commons, Weak
    <2> QED
      BY <1>1, <2>2, ReadOfItsName
  <1>6. SizeOfCommon(n, d)' /\ AlignmentOfCommon(n, d)'
    <2>1. CASE Current.place = "common"
      <3>1. Strong(n)' = {} /\ Commons(n)' = {next}
        BY <1>1, <2>1, ReadOfItsName
      <3>2. stream'[next].size = d.size /\ stream'[next].value = d.value
        BY <1>1, <1>2
      <3>3. d.size \in Nat /\ d.value \in Nat /\ d.value # 0
        BY <1>1, <1>2, <1>3, <2>1, FoundIsDefinition DEF Candidate
      <3> QED
        BY <3>1, <3>2, <3>3 DEF SizeOfCommon, AlignmentOfCommon
    <2>2. CASE Current.place = "section"
      BY <1>2, <2>2 DEF SizeOfCommon, AlignmentOfCommon
    <2> QED
      BY <1>3, <2>1, <2>2
  <1> QED
    BY <1>4, <1>5, <1>6 DEF Binding

(* During the scan a name is bound to a section or a common.               *)
LEMMA ExistingIsBound ==
  ASSUME ResolveInv, Accepted, Current.name \in DOMAIN definitions
  PROVE  /\ Existing \in Definition /\ Existing.place \in {"section", "common"}
         /\ Binding(Current.name, Existing)
  <1>1. Existing \in Definition
    BY DEF ResolveInv, ResolveTypeOK, Existing
  <1>2. Existing.place # "allocated"
    BY DEF ResolveInv, ScanInv, Accepted, Scanning, Existing
  <1>3. Binding(Current.name, Existing)
    BY FoundIsDefinition DEF ResolveInv, BindingInv, Existing
  <1> QED
    BY <1>1, <1>2, <1>3 DEF Definition

-----------------------------------------------------------------------------
(* One lemma per action of the scan.                                       *)
LEMMA DefineNameStep == ResolveInv /\ DefineName => ResolveInv'
  <1> SUFFICES ASSUME ResolveInv, DefineName PROVE ResolveInv'
    OBVIOUS
  <1>1. PICK n : n = Current.name
    OBVIOUS
  <1>2. PICK d : d = Found
    OBVIOUS
  <1>3. /\ Accepted /\ Advance(Bind(n, d)) /\ d \in Definition /\ d.place # "allocated"
        /\ stream' = stream /\ next' = next + 1 /\ n \in Names
    BY <1>1, <1>2, FoundIsDefinition DEF DefineName, Advance, ResolveInv, Found
  <1>4. Read(n) = {}
    BY <1>1, <1>3 DEF ResolveInv, BindingInv, DefineName
  <1>5. Strong(n) = {} /\ Commons(n) = {}
    BY <1>4 DEF Strong, Commons
  <1>6. Binding(n, d)'
    BY <1>1, <1>2, <1>3, <1>4, <1>5, FoundBinding
  <1> QED
    BY <1>1, <1>3, <1>5, <1>6, BindStep

LEMMA OverrideNameStep == ResolveInv /\ OverrideName => ResolveInv'
  <1> SUFFICES ASSUME ResolveInv, OverrideName PROVE ResolveInv'
    OBVIOUS
  <1>1. PICK n : n = Current.name
    OBVIOUS
  <1>2. PICK d : d = Found
    OBVIOUS
  <1>3. /\ Accepted /\ Advance(Bind(n, d)) /\ d \in Definition /\ d.place # "allocated"
        /\ stream' = stream /\ next' = next + 1 /\ n \in Names
        /\ Overrides(Existing, Current)
    BY <1>1, <1>2, FoundIsDefinition DEF OverrideName, Advance, ResolveInv, Found
  <1>4. Binding(n, Existing)
    BY <1>1, <1>3, ExistingIsBound DEF OverrideName
  <1>5. Strong(n) = {} /\ (Current.place = "common" => Commons(n) = {})
    BY <1>3, <1>4 DEF Overrides, Binding, WeakBinding, SizeOfCommon
  <1>6. ~(Current.place = "section" /\ Current.bind = "weak")
    BY <1>3 DEF Overrides
  <1>7. Binding(n, d)'
    BY <1>1, <1>2, <1>3, <1>5, <1>6, FoundBinding
  <1> QED
    BY <1>1, <1>3, <1>5, <1>7, BindStep

LEMMA LargerIsOne ==
  ASSUME NEW a \in Nat, NEW b \in Nat
  PROVE  /\ Larger(a, b) \in {a, b}
         /\ a <= Larger(a, b) /\ b <= Larger(a, b)
  BY DEF Larger

LEMMA MergeCommonsStep == ResolveInv /\ MergeCommons => ResolveInv'
  <1> SUFFICES ASSUME ResolveInv, MergeCommons PROVE ResolveInv'
    OBVIOUS
  <1>1. PICK n : n = Current.name
    OBVIOUS
  <1>2. PICK old : old = Existing
    OBVIOUS
  <1>3. PICK d : d = [old EXCEPT !.size  = Larger(@, Current.size),
                                 !.value = Larger(@, Current.value)]
    OBVIOUS
  <1>4. /\ Accepted /\ Advance(Bind(n, d)) /\ ResolveTypeOK /\ Scanning
        /\ stream' = stream /\ next' = next + 1 /\ n \in Names
        /\ old.place = "common" /\ Current.place = "common"
    BY <1>1, <1>2, <1>3, FoundIsDefinition
    DEF MergeCommons, Accepted, Advance, ResolveInv
  <1>5. /\ old \in Definition /\ Current \in Candidate
        /\ Current.size \in Nat /\ Current.value \in Nat
        /\ Current = stream[next] /\ next \in DOMAIN stream
    BY <1>1, <1>2, <1>4, ExistingIsBound, CurrentIsCandidate
    DEF MergeCommons, Candidate, Scanning, Current
  <1>6. /\ d.place = "common" /\ d.source = old.source /\ d.bind = old.bind
        /\ d.size = Larger(old.size, Current.size)
        /\ d.value = Larger(old.value, Current.value)
        /\ old.size \in Nat /\ old.value \in Nat
    BY <1>3, <1>4, <1>5 DEF Definition
  <1>7. /\ d.size \in {old.size, Current.size}
        /\ old.size <= d.size /\ Current.size <= d.size
        /\ d.value \in {old.value, Current.value}
        /\ old.value <= d.value /\ Current.value <= d.value
    BY <1>5, <1>6, LargerIsOne
  <1>8. d \in Definition
    BY <1>3, <1>5, <1>6, <1>7 DEF Definition
  <1>9. SizeOfCommon(n, old) /\ AlignmentOfCommon(n, old)
    BY <1>1, <1>2, <1>4, ExistingIsBound DEF MergeCommons, Binding
  <1>10. Strong(n)' = Strong(n) /\ Commons(n)' = Commons(n) \cup {next}
    BY <1>1, <1>4, ReadOfItsName
  <1>11. \A i \in Commons(n) : stream[i].size \in Nat /\ stream[i].value \in Nat
    <2>1. \A i \in DOMAIN stream : stream[i] \in Candidate
      BY <1>4, ElementOfSeq, LenProperties DEF ResolveTypeOK
    <2> QED
      BY <2>1 DEF Commons, Read, Candidate
  <1>12. SizeOfCommon(n, d)'
    <2>1. Strong(n)' = {}
      BY <1>4, <1>9, <1>10 DEF SizeOfCommon
    <2>2. \E i \in Commons(n)' : stream'[i].size = d.size
      BY <1>4, <1>5, <1>7, <1>9, <1>10 DEF SizeOfCommon
    <2>3. \A i \in Commons(n)' : stream'[i].size <= d.size
      BY <1>4, <1>5, <1>6, <1>7, <1>8, <1>9, <1>10, <1>11 DEF SizeOfCommon, Definition
    <2> QED
      BY <2>1, <2>2, <2>3 DEF SizeOfCommon
  <1>13. AlignmentOfCommon(n, d)'
    <2>1. d.value # 0
      BY <1>4, <1>5, <1>6, <1>7, <1>9 DEF AlignmentOfCommon
    <2>2. \E i \in Commons(n)' : stream'[i].value = d.value
      BY <1>4, <1>5, <1>7, <1>9, <1>10 DEF AlignmentOfCommon
    <2>3. \A i \in Commons(n)' : stream'[i].value <= d.value
      BY <1>4, <1>5, <1>6, <1>7, <1>8, <1>9, <1>10, <1>11 DEF AlignmentOfCommon, Definition
    <2> QED
      BY <2>1, <2>2, <2>3 DEF AlignmentOfCommon
  <1>14. Binding(n, d)'
    BY <1>6, <1>12, <1>13 DEF Binding, StrongBinding, WeakBinding
  <1> QED
    BY <1>1, <1>4, <1>6, <1>8, <1>14, BindStep

(* The first definition stays: it outranks the symbol, or comes before it. *)
LEMMA KeepNameStep == ResolveInv /\ KeepName => ResolveInv'
  <1> SUFFICES ASSUME ResolveInv, KeepName PROVE ResolveInv'
    OBVIOUS
  <1>1. PICK n : n = Current.name
    OBVIOUS
  <1>2. PICK d : d = Existing
    OBVIOUS
  <1>3. /\ Accepted /\ Advance(definitions) /\ ResolveTypeOK /\ Scanning
        /\ stream' = stream /\ next' = next + 1 /\ next \in Nat /\ n \in Names
        /\ definitions' = definitions /\ phase' = phase
        /\ n \in DOMAIN definitions /\ d = definitions[n]
    BY <1>1, <1>2, FoundIsDefinition, CurrentIsCandidate
    DEF KeepName, Accepted, Advance, ResolveInv, Existing
  <1>4. /\ d \in Definition /\ d.place \in {"section", "common"} /\ d.bind \in {"global", "weak"}
        /\ Binding(n, d)
        /\ Current.place \in {"section", "common"} /\ Current.bind \in {"global", "weak"}
    BY <1>1, <1>2, <1>3, ExistingIsBound, FoundIsDefinition DEF Definition
  <1>5. /\ ~(d.place = "common" /\ Current.place = "common")
        /\ ~Overrides(d, Current) /\ ~Conflicts(d, Current)
    BY <1>2 DEF KeepName
  <1>6. Binding(n, d)'
    <2>1. CASE d.place = "common"
      <3>1. Current.place = "section" /\ Current.bind = "weak"
        BY <1>4, <1>5, <2>1 DEF Overrides
      <3>2. Strong(n)' = Strong(n) /\ Commons(n)' = Commons(n)
        BY <1>1, <1>3, <3>1, ReadOfItsName
      <3> QED
        BY <1>3, <1>4, <2>1, <3>2
        DEF Binding, StrongBinding, WeakBinding, SizeOfCommon, AlignmentOfCommon
    <2>2. CASE d.place = "section" /\ d.bind = "global"
      <3>1. Strong(n) \subseteq Strong(n)'
        BY <1>1, <1>3, <1>4, ReadOfItsName
      <3> QED
        BY <1>4, <2>2, <3>1
        DEF Binding, StrongBinding, WeakBinding, SizeOfCommon, AlignmentOfCommon
    <2>3. CASE d.place = "section" /\ d.bind = "weak"
      <3>1. Current.place = "section" /\ Current.bind = "weak"
        BY <1>4, <1>5, <2>3 DEF Overrides
      <3>2. Strong(n)' = Strong(n) /\ Commons(n)' = Commons(n) /\ Weak(n)' = Weak(n) \cup {next}
        BY <1>1, <1>3, <3>1, ReadOfItsName
      <3>3. d.source \in Weak(n) /\ (\A i \in Weak(n) : d.source <= i)
            /\ Strong(n) = {} /\ Commons(n) = {}
        BY <1>4, <2>3 DEF Binding, WeakBinding
      <3>4. d.source \in Nat /\ d.source < next
        BY <1>4, <3>3 DEF Weak, Read, Definition
      <3>5. d.source <= next
        BY <1>3, <3>4
      <3> QED
        BY <2>3, <3>2, <3>3, <3>5
        DEF Binding, StrongBinding, WeakBinding, SizeOfCommon, AlignmentOfCommon
    <2> QED
      BY <1>4, <2>1, <2>2, <2>3
  <1>7. Strong(n) = {} \/ ~(Current.place = "section" /\ Current.bind = "global")
    BY <1>4, <1>5 DEF Overrides, Conflicts, Binding, WeakBinding, SizeOfCommon
  <1>8. ResolveTypeOK'
    BY <1>3, AdvanceTypeOK DEF ResolveTypeOK
  <1>9. BindingInv'
    <2>1. Binding(n, definitions[n])'
      BY <1>3, <1>6
    <2> QED
      BY <1>1, <1>3, <2>1, BindingAfter
  <1>10. ScanInv'
    BY <1>3 DEF ScanInv, ResolveInv
  <1>11. OneStrongDefinition'
    BY <1>1, <1>3, <1>7, OneStrongAfter
  <1> QED
    BY <1>8, <1>9, <1>10, <1>11 DEF ResolveInv

(* A symbol that defines nothing leaves every name as it is.               *)
LEMMA IgnoreSymbolStep == ResolveInv /\ IgnoreSymbol => ResolveInv'
  <1> SUFFICES ASSUME ResolveInv, IgnoreSymbol PROVE ResolveInv'
    OBVIOUS
  <1>1. /\ ResolveTypeOK /\ Scanning /\ Advance(definitions)
        /\ stream' = stream /\ next' = next + 1
        /\ definitions' = definitions /\ phase' = phase
    BY DEF ResolveInv, IgnoreSymbol, Advance
  <1>2. ~Defines(Current)
    BY DEF IgnoreSymbol, Defines, Nonlocal
  <1>3. \A n \in Names : /\ Read(n)' = Read(n) /\ Strong(n)' = Strong(n)
                         /\ Commons(n)' = Commons(n) /\ Weak(n)' = Weak(n)
    BY <1>1, <1>2, ReadOfOthers
  <1>4. BindingInv'
    BY <1>1, <1>3
    DEF ResolveInv, BindingInv, Binding, StrongBinding, WeakBinding, SizeOfCommon, AlignmentOfCommon
  <1>5. ResolveTypeOK'
    BY <1>1, AdvanceTypeOK DEF ResolveTypeOK
  <1>6. ScanInv' /\ OneStrongDefinition'
    BY <1>1, <1>3 DEF ResolveInv, ScanInv, OneStrongDefinition
  <1> QED
    BY <1>4, <1>5, <1>6 DEF ResolveInv

(* A step that reads nothing, binds nothing and does not go back to the    *)
(* scan disturbs only the types.                                           *)
LEMMA NothingReadStep ==
  ASSUME ResolveInv, UNCHANGED <<stream, next, definitions>>,
         phase' = "scan" => phase = "scan",
         ResolveTypeOK'
  PROVE  ResolveInv'
  <1>1. \A n : /\ Read(n)' = Read(n) /\ Strong(n)' = Strong(n)
               /\ Commons(n)' = Commons(n) /\ Weak(n)' = Weak(n)
    BY ReadUnchanged
  <1>2. BindingInv'
    BY <1>1
    DEF ResolveInv, BindingInv, Binding, StrongBinding, WeakBinding, SizeOfCommon, AlignmentOfCommon
  <1>3. ScanInv' /\ OneStrongDefinition'
    BY <1>1 DEF ResolveInv, ScanInv, OneStrongDefinition
  <1> QED
    BY <1>2, <1>3 DEF ResolveInv

LEMMA FailStep ==
  ASSUME ResolveInv, NEW why \in ResolveErrors \ {"none"}, Fail(why)
  PROVE  ResolveInv'
  <1>1. ResolveTypeOK'
    BY DEF Fail, ResolveInv, ResolveTypeOK
  <1> QED
    BY <1>1, NothingReadStep DEF Fail

LEMMA RefusalStep == ResolveInv /\ (RejectSymbol \/ ConflictOnName) => ResolveInv'
  <1> SUFFICES ASSUME ResolveInv, RejectSymbol \/ ConflictOnName PROVE ResolveInv'
    OBVIOUS
  <1>1. \E why \in ResolveErrors \ {"none"} : Fail(why)
    BY DEF RejectSymbol, ConflictOnName, ResolveErrors
  <1> QED
    BY <1>1, FailStep

LEMMA TurnStep == ResolveInv /\ (EndScan \/ PassName \/ EndResolve) => ResolveInv'
  <1> SUFFICES ASSUME ResolveInv, EndScan \/ PassName \/ EndResolve PROVE ResolveInv'
    OBVIOUS
  <1>1. UNCHANGED <<stream, next, definitions>> /\ (phase' = "scan" => phase = "scan")
    BY DEF EndScan, PassName, EndResolve
  <1>2. ResolveTypeOK'
    <2>1. CASE EndScan
      BY <2>1 DEF EndScan, ResolveInv, ResolveTypeOK
    <2>2. CASE PassName
      BY <2>2 DEF PassName, ResolveInv, ResolveTypeOK
    <2>3. CASE EndResolve
      BY <2>3 DEF EndResolve, ResolveInv, ResolveTypeOK
    <2> QED
      BY <2>1, <2>2, <2>3
  <1> QED
    BY <1>1, <1>2, NothingReadStep

LEMMA AlignUpAligns ==
  ASSUME NEW v \in Nat, NEW a \in Nat \ {0}
  PROVE  AlignUp(v, a) \in Nat /\ AlignUp(v, a) % a = 0 /\ v <= AlignUp(v, a)
  BY RoundUp DEF AlignUp

(* Giving a common its storage keeps what is said of it: a definition with *)
(* storage is still of the largest size of its commons.                    *)
LEMMA AllocateCommonStep == ResolveInv /\ AllocateCommon => ResolveInv'
  <1> SUFFICES ASSUME ResolveInv, AllocateCommon PROVE ResolveInv'
    OBVIOUS
  <1>1. PICK n : n = Name
    OBVIOUS
  <1>2. PICK d : d = definitions[n]
    OBVIOUS
  <1>3. PICK offset : offset = AlignUp(commonSize, d.value)
    OBVIOUS
  <1>4. /\ n \in DOMAIN definitions /\ n \in Names /\ d \in Definition
        /\ d.place = "common" /\ phase = "commons" /\ ResolveTypeOK
        /\ Binding(n, d) /\ d.value # 0
    <2>1. /\ n \in DOMAIN definitions /\ n \in Names /\ d \in Definition
          /\ d.place = "common" /\ phase = "commons" /\ ResolveTypeOK
      BY <1>1, <1>2 DEF AllocateCommon, Laying, IsCommon, ResolveInv, ResolveTypeOK
    <2>2. Binding(n, d)
      BY <1>2, <2>1 DEF ResolveInv, BindingInv
    <2> QED
      BY <2>1, <2>2 DEF Binding, AlignmentOfCommon
  <1>5. offset \in Nat /\ d.value \in Nat \ {0} /\ d.size \in Nat
    BY <1>3, <1>4, AlignUpAligns DEF Definition, ResolveTypeOK
  <1>6. CASE \E why \in ResolveErrors \ {"none"} : Fail(why)
    BY <1>6, FailStep
  <1>7. CASE /\ definitions' = [definitions EXCEPT ![n].source = 0, ![n].place = "allocated",
                                                   ![n].value = offset]
             /\ commonSize' = offset + d.size
             /\ commonAlign' = Larger(commonAlign, d.value)
             /\ placing' = placing + 1
             /\ UNCHANGED <<stream, next, phase, error>>
    <2>1. PICK e : e = [d EXCEPT !.source = 0, !.place = "allocated", !.value = offset]
      OBVIOUS
    <2>2. /\ e \in Definition /\ e.place = "allocated" /\ e.size = d.size
      BY <1>4, <1>5, <2>1 DEF Definition
    <2>3. /\ DOMAIN definitions' = DOMAIN definitions
          /\ definitions'[n] = e
          /\ \A m \in DOMAIN definitions \ {n} : definitions'[m] = definitions[m]
          /\ definitions' \in [DOMAIN definitions' -> Definition]
      BY <1>2, <1>4, <1>7, <2>1, <2>2 DEF ResolveTypeOK
    <2>4. \A m : /\ Read(m)' = Read(m) /\ Strong(m)' = Strong(m)
                 /\ Commons(m)' = Commons(m) /\ Weak(m)' = Weak(m)
      BY <1>7, ReadUnchanged
    <2>5. BindingInv'
      <3> SUFFICES ASSUME NEW m \in Names
                   PROVE  /\ m \in DOMAIN definitions' <=> Read(m)' # {}
                          /\ m \in DOMAIN definitions' => Binding(m, definitions[m])'
        BY DEF BindingInv
      <3>1. m \in DOMAIN definitions' <=> Read(m)' # {}
        BY <2>3, <2>4 DEF ResolveInv, BindingInv
      <3>2. CASE m = n
        BY <1>4, <1>7, <2>2, <2>3, <2>4, <3>1, <3>2
        DEF Binding, StrongBinding, WeakBinding, SizeOfCommon, AlignmentOfCommon
      <3>3. CASE m # n
        <4>1. m \in DOMAIN definitions =>
                 Binding(m, definitions[m]) /\ definitions'[m] = definitions[m]
          BY <2>3, <3>3 DEF ResolveInv, BindingInv
        <4> QED
          BY <1>7, <2>3, <2>4, <3>1, <4>1
          DEF Binding, StrongBinding, WeakBinding, SizeOfCommon, AlignmentOfCommon
      <3> QED
        BY <3>2, <3>3
    <2>6. ResolveTypeOK'
      <3>1. commonAlign' \in Nat \ {0} /\ commonSize' \in Nat /\ placing' \in Nat \ {0}
        BY <1>4, <1>5, <1>7 DEF Larger, ResolveTypeOK
      <3>2. stream' \in Seq(Candidate) /\ next' \in Nat \ {0}
        BY <1>4, <1>7 DEF ResolveTypeOK
      <3>3. /\ phase' \in {"scan", "commons", "done", "failed"} /\ error' \in ResolveErrors
            /\ phase' = "failed" <=> error' # "none"
        BY <1>4, <1>7 DEF ResolveTypeOK
      <3>4. DOMAIN definitions' \in SUBSET Names
        BY <1>4, <2>3 DEF ResolveTypeOK
      <3> QED
        BY <2>3, <3>1, <3>2, <3>3, <3>4 DEF ResolveTypeOK
    <2>7. ScanInv' /\ OneStrongDefinition'
      BY <1>4, <1>7, <2>4 DEF ResolveInv, ScanInv, OneStrongDefinition
    <2> QED
      BY <2>5, <2>6, <2>7 DEF ResolveInv
  <1> QED
    BY <1>1, <1>2, <1>3, <1>6, <1>7 DEF AllocateCommon, ResolveErrors

-----------------------------------------------------------------------------
(* A resolution that has read nothing yet.                                 *)
Fresh ==
    /\ stream \in Seq(Candidate) /\ next = 1 /\ definitions = <<>>
    /\ placing = 1 /\ commonSize = 0 /\ commonAlign = 1
    /\ phase = "scan" /\ error = "none"

LEMMA BeginsFresh == ResolveInit => Fresh
  BY StreamsAssumption DEF ResolveInit, Begin, Fresh

LEMMA FreshIsResolved == Fresh => ResolveInv
  <1> SUFFICES ASSUME Fresh PROVE ResolveInv
    OBVIOUS
  <1>1. \A n : Read(n) = {} /\ Strong(n) = {}
    <2>1. \A n : Read(n) = {}
      <3>1. \A i \in DOMAIN stream : i \in Nat \ {0}
        BY LenProperties DEF Fresh
      <3> QED
        BY <3>1 DEF Read, Fresh
    <2> QED
      BY <2>1 DEF Strong
  <1>2. DOMAIN definitions = {}
    BY DEF Fresh
  <1>3. ResolveTypeOK
    <2>1. definitions \in [DOMAIN definitions -> Definition]
      BY <1>2 DEF Fresh
    <2> QED
      BY <1>2, <2>1 DEF Fresh, ResolveTypeOK, ResolveErrors
  <1>4. BindingInv /\ ScanInv /\ OneStrongDefinition
    BY <1>1, <1>2 DEF BindingInv, ScanInv, OneStrongDefinition
  <1> QED
    BY <1>3, <1>4 DEF ResolveInv

LEMMA ResolveInvStep == ResolveInv /\ [ResolveNext \/ Settled]_resolveVars => ResolveInv'
  <1> SUFFICES ASSUME ResolveInv, [ResolveNext \/ Settled]_resolveVars PROVE ResolveInv'
    OBVIOUS
  <1>1. CASE ResolveNext
    BY <1>1, IgnoreSymbolStep, RefusalStep, DefineNameStep, MergeCommonsStep,
       OverrideNameStep, KeepNameStep, TurnStep, AllocateCommonStep DEF ResolveNext
  <1>2. CASE UNCHANGED resolveVars
    <2>1. ResolveTypeOK'
      BY <1>2 DEF resolveVars, ResolveInv, ResolveTypeOK
    <2> QED
      BY <1>2, <2>1, NothingReadStep DEF resolveVars
  <1> QED
    BY <1>1, <1>2 DEF Settled

LEMMA ResolveInvariance == ResolveSpec => []ResolveInv
  BY BeginsFresh, FreshIsResolved, ResolveInvStep, PTL DEF ResolveSpec

(* The resolver's state is well typed: no offset or alignment it computes  *)
(* for a common is negative or zero by accident (allocate_commons).        *)
THEOREM ResolverIsTyped == ResolveSpec => []ResolveTypeOK
  <1>1. ResolveInv => ResolveTypeOK
    BY DEF ResolveInv
  <1> QED
    BY <1>1, ResolveInvariance, PTL

(* No second strong definition of a name is ever taken in                  *)
(* (insert_definition's MultipleStrongDefinitions).                        *)
THEOREM NoSecondStrongDefinition == ResolveSpec => []OneStrongDefinition
  <1>1. ResolveInv => OneStrongDefinition
    BY DEF ResolveInv
  <1> QED
    BY <1>1, ResolveInvariance, PTL

(* What is said of each binding gives the rule of ranks.                   *)
LEMMA BindingGivesRank == ResolveInv => BoundByRank
  <1> SUFFICES ASSUME ResolveInv, NEW n \in Names
      PROVE
      /\ n \in DOMAIN definitions <=> Read(n) # {}
      /\ Strong(n) # {} => /\ definitions[n].place = "section"
                           /\ definitions[n].source \in Strong(n)
      /\ (Strong(n) = {} /\ Commons(n) # {}) =>
            /\ definitions[n].place \in {"common", "allocated"}
            /\ definitions[n].size \in {stream[i].size : i \in Commons(n)}
            /\ \A i \in Commons(n) : stream[i].size <= definitions[n].size
            /\ definitions[n].place = "common" =>
                 /\ definitions[n].value \in {stream[i].value : i \in Commons(n)}
                 /\ \A i \in Commons(n) : stream[i].value <= definitions[n].value
      /\ (Strong(n) = {} /\ Commons(n) = {} /\ Weak(n) # {}) =>
            /\ definitions[n].place = "section"
            /\ definitions[n].source \in Weak(n)
            /\ \A i \in Weak(n) : definitions[n].source <= i
    BY DEF BoundByRank
  <1>1. n \in DOMAIN definitions <=> Read(n) # {}
    BY DEF ResolveInv, BindingInv
  <1>2. CASE Read(n) = {}
    BY <1>1, <1>2 DEF Strong, Commons, Weak
  <1>3. CASE Read(n) # {}
    <2>1. PICK d : d = definitions[n]
      OBVIOUS
    <2>2. Binding(n, d) /\ d \in Definition
      BY <1>1, <1>3, <2>1 DEF ResolveInv, BindingInv, ResolveTypeOK
    <2>3. CASE d.place = "section" /\ d.bind = "global"
      BY <1>1, <1>3, <2>1, <2>2, <2>3 DEF Binding, StrongBinding
    <2>4. CASE d.place = "section" /\ d.bind = "weak"
      BY <1>1, <1>3, <2>1, <2>2, <2>4 DEF Binding, WeakBinding
    <2>5. CASE d.place \in {"common", "allocated"}
      <3>1. Strong(n) = {} /\ Commons(n) # {}
        BY <2>2, <2>5 DEF Binding, SizeOfCommon
      <3> QED
        BY <1>1, <1>3, <2>1, <2>2, <2>5, <3>1 DEF Binding, SizeOfCommon, AlignmentOfCommon
    <2> QED
      BY <2>2, <2>3, <2>4, <2>5 DEF Definition
  <1> QED
    BY <1>2, <1>3

(* Whatever the symbols and the order they are read in, each name is bound *)
(* by rank: strong, then the largest common, then the first weak one       *)
(* (insert_definition).                                                    *)
THEOREM NamesAreBoundByRank == ResolveSpec => []BoundByRank
  BY BindingGivesRank, ResolveInvariance, PTL

-----------------------------------------------------------------------------
(* Alignments.                                                             *)

(* Of two powers of two the smaller divides the larger.                    *)
LEMMA SmallerPowerDivides ==
  ASSUME NEW a \in Nat, NEW b \in Nat, PowerOfTwo(a), PowerOfTwo(b), a <= b
  PROVE  b % a = 0
  BY SmallerPower DEF PowerOfTwo, IsPowerOfTwo

-----------------------------------------------------------------------------
(* Every common read is aligned to a power of two, as the section is.      *)
CommonInv ==
    /\ \A n \in Names : \A i \in Commons(n) :
          stream[i].value \in Nat /\ PowerOfTwo(stream[i].value)
    /\ PowerOfTwo(commonAlign)
    /\ CommonsDoNotOverlap

(* While the symbols are read, nothing has storage.                        *)
LEMMA CommonOfScan ==
  ASSUME ResolveInv, ResolveInv', CommonInv, Scanning, phase' = phase,
         stream' = stream, next' = next + 1, commonAlign' = commonAlign,
         Defines(Current) /\ Current.place = "common" => PowerOfTwo(Current.value)
  PROVE  CommonInv'
  <1>1. CommonsDoNotOverlap'
    BY DEF ResolveInv, ScanInv, Scanning, CommonsDoNotOverlap
  <1>2. ASSUME NEW n \in Names, NEW i \in Commons(n)'
        PROVE  (stream[i].value \in Nat /\ PowerOfTwo(stream[i].value))'
    <2>1. CASE i \in Commons(n)
      BY <2>1 DEF CommonInv
    <2>2. CASE i \notin Commons(n)
      <3>1. i = next /\ Defines(Current) /\ Current.place = "common"
        BY <2>2, ReadAfter DEF ResolveInv
      <3>2. Current \in Candidate
        BY CurrentIsCandidate DEF ResolveInv
      <3>3. Current.value \in Nat /\ PowerOfTwo(Current.value)
        BY <3>1, <3>2 DEF Candidate
      <3> QED
        BY <3>1, <3>3 DEF Current
    <2> QED
      BY <2>1, <2>2
  <1> QED
    BY <1>1, <1>2 DEF CommonInv

LEMMA CommonUnchanged ==
  ASSUME CommonInv, UNCHANGED <<stream, next, definitions, commonSize, commonAlign>>
  PROVE  CommonInv'
  <1>1. \A n : Commons(n)' = Commons(n)
    BY ReadUnchanged
  <1> QED
    BY <1>1 DEF CommonInv, CommonsDoNotOverlap

(* The next common is put behind the others, at a multiple of the largest  *)
(* of its alignments, and the smaller ones divide that.                    *)
LEMMA AllocateKeepsCommons == ResolveInv /\ CommonInv /\ AllocateCommon => CommonInv'
  <1> SUFFICES ASSUME ResolveInv, CommonInv, AllocateCommon PROVE CommonInv'
    OBVIOUS
  <1>1. PICK n : n = Name
    OBVIOUS
  <1>2. PICK d : d = definitions[n]
    OBVIOUS
  <1>3. PICK offset : offset = AlignUp(commonSize, d.value)
    OBVIOUS
  <1>4. /\ n \in DOMAIN definitions /\ n \in Names /\ d \in Definition
        /\ d.place = "common" /\ AlignmentOfCommon(n, d)
    <2>1. /\ n \in DOMAIN definitions /\ n \in Names /\ d \in Definition
          /\ d.place = "common"
      BY <1>1, <1>2 DEF AllocateCommon, Laying, IsCommon, ResolveInv, ResolveTypeOK
    <2> QED
      BY <1>2, <2>1 DEF ResolveInv, BindingInv, Binding
  <1>5. /\ d.value \in Nat \ {0} /\ d.size \in Nat /\ PowerOfTwo(d.value)
        /\ \A i \in Commons(n) : stream[i].value <= d.value
    BY <1>4 DEF Definition, AlignmentOfCommon, CommonInv
  <1>6. /\ commonSize \in Nat /\ commonAlign \in Nat \ {0} /\ PowerOfTwo(commonAlign)
        /\ definitions \in [DOMAIN definitions -> Definition]
        /\ DOMAIN definitions \subseteq Names
    BY DEF ResolveInv, ResolveTypeOK, CommonInv
  <1>7. offset \in Nat /\ offset % d.value = 0 /\ commonSize <= offset
    BY <1>3, <1>5, <1>6, AlignUpAligns
  <1>8. CASE \E why : Fail(why)
    BY <1>8, CommonUnchanged DEF Fail
  <1>9. CASE /\ definitions' = [definitions EXCEPT ![n].source = 0, ![n].place = "allocated",
                                                   ![n].value = offset]
             /\ commonSize' = offset + d.size
             /\ commonAlign' = Larger(commonAlign, d.value)
             /\ UNCHANGED <<stream, next>>
    <2>1. PICK align : align = Larger(commonAlign, d.value)
      OBVIOUS
    <2>2. /\ align \in Nat \ {0} /\ PowerOfTwo(align)
          /\ commonAlign <= align /\ d.value <= align
      BY <1>5, <1>6, <2>1 DEF Larger
    <2>3. align % commonAlign = 0 /\ align % d.value = 0
      BY <1>5, <1>6, <2>2, SmallerPowerDivides
    <2>4. /\ DOMAIN definitions' = DOMAIN definitions
          /\ definitions'[n].value = offset /\ definitions'[n].size = d.size
          /\ \A m \in DOMAIN definitions \ {n} : definitions'[m] = definitions[m]
      BY <1>2, <1>4, <1>6, <1>9 DEF Definition
    <2>5. \A m : Commons(m)' = Commons(m)
      BY <1>9, ReadUnchanged
    <2>6. ASSUME NEW m \in DOMAIN definitions \ {n}, definitions[m].place = "allocated"
          PROVE  /\ definitions[m].value \in Nat /\ definitions[m].size \in Nat
                 /\ definitions[m].value + definitions[m].size <= offset
      <3>1. definitions[m] \in Definition
        BY <1>6
      <3>2. definitions[m].value \in Nat /\ definitions[m].size \in Nat
        BY <3>1 DEF Definition
      <3>3. definitions[m].value + definitions[m].size <= commonSize
        BY <2>6 DEF CommonInv, CommonsDoNotOverlap
      <3> QED
        BY <1>6, <1>7, <3>2, <3>3
    <2>7. ASSUME NEW i \in Commons(n)
          PROVE  offset % stream[i].value = 0 /\ align % stream[i].value = 0
      <3>1. /\ stream[i].value \in Nat \ {0} /\ PowerOfTwo(stream[i].value)
            /\ stream[i].value <= d.value
        BY <1>4, <1>5 DEF CommonInv, PowerOfTwo
      <3>2. d.value % stream[i].value = 0
        BY <1>5, <3>1, SmallerPowerDivides
      <3> QED
        BY <1>5, <1>7, <2>2, <2>3, <3>1, <3>2, DividesTransitive
    <2>8. ASSUME NEW m \in DOMAIN definitions \ {n}, definitions[m].place = "allocated",
                 NEW i \in Commons(m)
          PROVE  /\ definitions[m].value % stream[i].value = 0
                 /\ align % stream[i].value = 0
      <3>1. stream[i].value \in Nat \ {0}
        BY <1>6, <2>8 DEF CommonInv, PowerOfTwo
      <3>2. definitions[m].value % stream[i].value = 0 /\ commonAlign % stream[i].value = 0
        BY <2>8 DEF CommonInv, CommonsDoNotOverlap
      <3> QED
        BY <1>6, <2>2, <2>3, <3>1, <3>2, DividesTransitive
    <2>9. CommonsDoNotOverlap'
      <3> SUFFICES ASSUME NEW m \in DOMAIN definitions',
                          (definitions[m].place = "allocated")'
                   PROVE  (/\ definitions[m].value + definitions[m].size <= commonSize
                           /\ \A i \in Commons(m) :
                                /\ definitions[m].value % stream[i].value = 0
                                /\ commonAlign % stream[i].value = 0
                           /\ \A k \in DOMAIN definitions \ {m} :
                                definitions[k].place = "allocated" =>
                                  \/ definitions[m].value + definitions[m].size
                                         <= definitions[k].value
                                  \/ definitions[k].value + definitions[k].size
                                         <= definitions[m].value)'
        BY DEF CommonsDoNotOverlap
      <3>0. SUFFICES
              /\ (definitions[m].value + definitions[m].size <= commonSize)'
              /\ \A i \in Commons(m) :
                   /\ (definitions[m].value)' % stream[i].value = 0
                   /\ align % stream[i].value = 0
              /\ \A k \in DOMAIN definitions \ {m} :
                   (definitions[k].place = "allocated")' =>
                     (\/ definitions[m].value + definitions[m].size
                            <= definitions[k].value
                      \/ definitions[k].value + definitions[k].size
                            <= definitions[m].value)'
        <4>1. stream' = stream /\ commonAlign' = align /\ Commons(m)' = Commons(m)
              /\ DOMAIN definitions' = DOMAIN definitions
          BY <1>9, <2>1, <2>4, <2>5
        <4> QED
          BY <4>1, Zenon
      <3>9. m \in DOMAIN definitions
        BY <2>4
      <3>1. CASE m = n
        BY <1>5, <1>7, <1>9, <2>4, <2>6, <2>7, <3>1
      <3>2. CASE m # n
        <4>1. /\ definitions[m].place = "allocated" /\ definitions'[m] = definitions[m]
              /\ m \in DOMAIN definitions \ {n}
          BY <2>4, <3>9, <3>2
        <4>2. (definitions[m].value + definitions[m].size <= commonSize)'
          BY <1>5, <1>7, <1>9, <2>6, <4>1
        <4>3. ASSUME NEW k \in DOMAIN definitions \ {m},
                     (definitions[k].place = "allocated")'
              PROVE  (\/ definitions[m].value + definitions[m].size <= definitions[k].value
                      \/ definitions[k].value + definitions[k].size <= definitions[m].value)'
          <5>1. CASE k = n
            BY <2>4, <2>6, <4>1, <5>1
          <5>2. CASE k # n
            BY <2>4, <4>1, <4>3, <5>2 DEF CommonInv, CommonsDoNotOverlap
          <5> QED
            BY <5>1, <5>2
        <4> QED
          BY <2>8, <4>1, <4>2, <4>3
      <3> QED
        BY <3>1, <3>2
    <2> QED
      BY <1>9, <2>1, <2>2, <2>5, <2>9 DEF CommonInv
  <1> QED
    BY <1>1, <1>2, <1>3, <1>8, <1>9 DEF AllocateCommon

LEMMA FreshHasNoStorage == Fresh => CommonInv
  <1> SUFFICES ASSUME Fresh PROVE CommonInv
    OBVIOUS
  <1>1. PowerOfTwo(commonAlign)
    BY DEF Fresh, PowerOfTwo
  <1>2. \A n : Commons(n) = {}
    BY DEF Fresh, Commons, Read
  <1>3. DOMAIN definitions = {}
    BY DEF Fresh
  <1> QED
    BY <1>1, <1>2, <1>3 DEF CommonInv, CommonsDoNotOverlap

LEMMA CommonInvStep ==
    ResolveInv /\ CommonInv /\ [ResolveNext \/ Settled]_resolveVars => CommonInv'
  <1> SUFFICES ASSUME ResolveInv, CommonInv, [ResolveNext \/ Settled]_resolveVars
               PROVE  CommonInv'
    OBVIOUS
  <1>1. ResolveInv'
    BY ResolveInvStep
  <1>2. CASE IgnoreSymbol \/ DefineName \/ MergeCommons \/ OverrideName \/ KeepName
    <2>1. /\ Scanning /\ phase' = phase /\ stream' = stream /\ next' = next + 1
          /\ commonAlign' = commonAlign
      BY <1>2 DEF IgnoreSymbol, DefineName, MergeCommons, OverrideName, KeepName,
                  Advance, Accepted
    <2>2. IgnoreSymbol \/ Accepted
      BY <1>2 DEF DefineName, MergeCommons, OverrideName, KeepName
    <2>3. Defines(Current) /\ Current.place = "common" => PowerOfTwo(Current.value)
      BY <2>2 DEF IgnoreSymbol, Defines, Nonlocal, Accepted, Refused
    <2> QED
      BY <1>1, <2>1, <2>3, CommonOfScan
  <1>3. CASE RejectSymbol \/ ConflictOnName \/ EndScan \/ PassName \/ EndResolve
    BY <1>3, CommonUnchanged DEF RejectSymbol, ConflictOnName, Fail, EndScan, PassName, EndResolve
  <1>4. CASE AllocateCommon
    BY <1>4, AllocateKeepsCommons
  <1>5. CASE Settled \/ UNCHANGED resolveVars
    BY <1>5, CommonUnchanged DEF Settled, resolveVars
  <1> QED
    BY <1>2, <1>3, <1>4, <1>5 DEF ResolveNext

(* Whatever the commons and their alignments, each has storage of its own  *)
(* in the common section, aligned for every object that declares it        *)
(* (allocate_commons).                                                     *)
THEOREM CommonsAreApart == ResolveSpec => []CommonsDoNotOverlap
  <1>1. CommonInv => CommonsDoNotOverlap
    BY DEF CommonInv
  <1>2. ResolveSpec => []CommonInv
    BY BeginsFresh, FreshHasNoStorage, CommonInvStep, ResolveInvariance, PTL DEF ResolveSpec
  <1> QED
    BY <1>1, <1>2, PTL

-----------------------------------------------------------------------------
(* The definitions of a name in a whole stream, by rank.                   *)
SymbolsOf(s, n) == {i \in DOMAIN s : Defines(s[i]) /\ s[i].name = n}
StrongsOf(s, n) == {i \in SymbolsOf(s, n) : s[i].place = "section" /\ s[i].bind = "global"}
CommonsOf(s, n) == {i \in SymbolsOf(s, n) : s[i].place = "common"}
WeaksOf(s, n)   == {i \in SymbolsOf(s, n) : s[i].place = "section" /\ s[i].bind = "weak"}

Tentative(s, n) == StrongsOf(s, n) = {} /\ CommonsOf(s, n) # {}

(* The stream asks for a common of the size z and the alignment v: the     *)
(* largest of each among its commons of the name.                          *)
Asked(s, n, z, v) ==
    /\ StrongsOf(s, n) = {}
    /\ \E i \in CommonsOf(s, n) : s[i].size = z
    /\ \E i \in CommonsOf(s, n) : s[i].value = v
    /\ \A i \in CommonsOf(s, n) : s[i].size <= z /\ s[i].value <= v

(* The storage of the first p - 1 names ends at e[1], ..., e[p].           *)
Fits(a, z, v) == a + v - 1 < SizeLimit /\ AlignUp(a, v) + z < SizeLimit
EndsAt(s, n, a, b) ==
    \/ \E z, v \in Nat : Asked(s, n, z, v) /\ Fits(a, z, v) /\ b = AlignUp(a, v) + z
    \/ (\A z, v \in Nat : ~Asked(s, n, z, v)) /\ b = a
Ends(s, e, p) ==
    /\ e \in [1 .. p -> Nat] /\ e[1] = 0
    /\ \A k \in 1 .. p - 1 : EndsAt(s, NameOrder[k], e[k], e[k + 1])

(* What the resolver refuses: a symbol, two strong definitions of a name,  *)
(* or storage beyond the limit.                                            *)
Unwelcome(c) == c.bind = "unique" \/ (Defines(c) /\ Refused(c))
Trouble(s) ==
    \/ \E i \in DOMAIN s : Unwelcome(s[i])
    \/ \E n \in Names : \E i, j \in StrongsOf(s, n) : i # j
Overflows(s) ==
    \E p \in 1 .. Len(NameOrder), z, v \in Nat : \E e :
        Ends(s, e, p) /\ Asked(s, NameOrder[p], z, v) /\ ~Fits(e[p], z, v)
Rejects(s) == Trouble(s) \/ Overflows(s)

(* What it makes of any other stream.                                      *)
From(s, i) == [source |-> i, bind |-> s[i].bind, place |-> s[i].place,
               size |-> s[i].size, value |-> s[i].value]
Storage(z, a) == [source |-> 0, bind |-> "global", place |-> "allocated",
                  size |-> z, value |-> a]
BindsAs(s, D, e) ==
    /\ DOMAIN D = {n \in Names : SymbolsOf(s, n) # {}}
    /\ \A n \in Names : \A i \in StrongsOf(s, n) : D[n] = From(s, i)
    /\ \A k \in DOMAIN NameOrder : Tentative(s, NameOrder[k]) =>
          \E z, v \in Nat : /\ Asked(s, NameOrder[k], z, v)
                            /\ D[NameOrder[k]] = Storage(z, AlignUp(e[k], v))
    /\ \A n \in Names : StrongsOf(s, n) = {} /\ CommonsOf(s, n) = {} =>
          \A i \in WeaksOf(s, n) : (\A j \in WeaksOf(s, n) : i <= j) => D[n] = From(s, i)
Resolves(s, D) ==
    ~Trouble(s) /\ \E e : Ends(s, e, Len(NameOrder) + 1) /\ BindsAs(s, D, e)

-----------------------------------------------------------------------------
Faithful(d) ==
    /\ d.place = "section" => d.source \in DOMAIN stream /\ d = From(stream, d.source)
    /\ d.place # "section" => d.bind = "global"
    /\ d.place = "allocated" => d.source = 0
ScanOutcome ==
    /\ next \in 1 .. Len(stream) + 1
    /\ \A i \in DOMAIN stream : i < next => ~Unwelcome(stream[i])
    /\ \A n \in DOMAIN definitions : Faithful(definitions[n])
    /\ phase = "scan" => placing = 1 /\ commonSize = 0
    /\ phase \in {"commons", "done"} => next = Len(stream) + 1
    /\ phase = "failed" => Rejects(stream)
LaidOut(e, p) ==
    \A k \in 1 .. p - 1 : Tentative(stream, NameOrder[k]) =>
        \E z, v \in Nat : /\ Asked(stream, NameOrder[k], z, v)
                          /\ definitions[NameOrder[k]].value = AlignUp(e[k], v)
LayoutOutcome ==
    phase \in {"commons", "done"} =>
        /\ placing \in 1 .. Len(NameOrder) + 1
        /\ \E e : Ends(stream, e, placing) /\ e[placing] = commonSize /\ LaidOut(e, placing)
        /\ \A n \in DOMAIN definitions :
              definitions[n].place = "allocated" <=>
                  /\ \E k \in 1 .. placing - 1 : n = NameOrder[k]
                  /\ definitions[n].place # "section"
        /\ phase = "done" => placing = Len(NameOrder) + 1
OutcomeInv == ScanOutcome /\ LayoutOutcome

(* Once all is read, the symbols read are those of the stream.             *)
LEMMA AllIsRead ==
  ASSUME ResolveTypeOK, next = Len(stream) + 1, NEW n
  PROVE  /\ Read(n) = SymbolsOf(stream, n) /\ Strong(n) = StrongsOf(stream, n)
         /\ Commons(n) = CommonsOf(stream, n) /\ Weak(n) = WeaksOf(stream, n)
  <1>1. \A i \in DOMAIN stream : i < next
    BY LenProperties DEF ResolveTypeOK
  <1>2. Read(n) = SymbolsOf(stream, n)
    BY <1>1 DEF Read, SymbolsOf
  <1> QED
    BY <1>2 DEF Strong, Commons, Weak, StrongsOf, CommonsOf, WeaksOf

LEMMA ReadIsOf ==
  ASSUME NEW n
  PROVE  Read(n) \subseteq SymbolsOf(stream, n) /\ Strong(n) \subseteq StrongsOf(stream, n)
  BY DEF Read, Strong, SymbolsOf, StrongsOf

LEMMA AskedOnce ==
  ASSUME NEW s \in Seq(Candidate), NEW n, NEW z, NEW v, NEW y, NEW w,
         Asked(s, n, z, v), Asked(s, n, y, w)
  PROVE  z = y /\ v = w
  <1>1. \A i \in CommonsOf(s, n) : s[i].size \in Nat /\ s[i].value \in Nat
    <2> SUFFICES ASSUME NEW i \in CommonsOf(s, n) PROVE s[i] \in Candidate
      BY DEF Candidate
    <2>1. i \in 1 .. Len(s)
      BY LenProperties DEF CommonsOf, SymbolsOf
    <2> QED
      BY <2>1, ElementOfSeq
  <1>2. /\ \E i \in CommonsOf(s, n) : s[i].size = z
        /\ \E i \in CommonsOf(s, n) : s[i].size = y
        /\ \E i \in CommonsOf(s, n) : s[i].value = v
        /\ \E i \in CommonsOf(s, n) : s[i].value = w
        /\ \A i \in CommonsOf(s, n) : /\ s[i].size <= z /\ s[i].value <= v
                                      /\ s[i].size <= y /\ s[i].value <= w
    BY DEF Asked
  <1>3. z \in Nat /\ y \in Nat /\ v \in Nat /\ w \in Nat
    BY <1>1, <1>2
  <1>4. z <= y /\ y <= z /\ v <= w /\ w <= v
    BY <1>2
  <1> QED
    BY <1>3, <1>4

LEMMA EndsMore ==
  ASSUME NEW s, NEW p \in Nat \ {0}, NEW e, Ends(s, e, p), NEW x \in Nat,
         EndsAt(s, NameOrder[p], e[p], x)
  PROVE  \E f : /\ Ends(s, f, p + 1) /\ f[p + 1] = x
                /\ \A k \in 1 .. p : f[k] = e[k]
  <1>1. PICK f : f = [k \in 1 .. p + 1 |-> IF k <= p THEN e[k] ELSE x]
    OBVIOUS
  <1>2. /\ f \in [1 .. p + 1 -> Nat] /\ f[1] = 0 /\ f[p + 1] = x
        /\ \A k \in 1 .. p : f[k] = e[k]
    BY <1>1 DEF Ends
  <1>3. ASSUME NEW k \in 1 .. (p + 1) - 1
        PROVE  EndsAt(s, NameOrder[k], f[k], f[k + 1])
    <2>1. CASE k = p
      BY <1>2, <2>1
    <2>2. CASE k # p
      <3>1. k \in 1 .. p - 1 /\ k \in 1 .. p /\ k + 1 \in 1 .. p
        BY <2>2
      <3>2. EndsAt(s, NameOrder[k], e[k], e[k + 1])
        BY <3>1 DEF Ends
      <3> QED
        BY <1>2, <3>1, <3>2
    <2> QED
      BY <2>1, <2>2
  <1>4. Ends(s, f, p + 1)
    BY <1>2, <1>3 DEF Ends
  <1> QED
    BY <1>2, <1>4

(* The storage of a stream ends in one way only.                           *)
LEMMA EndsInOneWay ==
  ASSUME NEW s \in Seq(Candidate), NEW p \in Nat \ {0}, NEW q \in Nat \ {0}, p <= q,
         NEW e, NEW f, Ends(s, e, p), Ends(s, f, q)
  PROVE  \A k \in 1 .. p : e[k] = f[k]
  <1> DEFINE Bad == {k \in 1 .. p : e[k] # f[k]}
  <1> SUFFICES ASSUME Bad # {} PROVE FALSE
    OBVIOUS
  <1>1. Bad \in SUBSET Nat
    OBVIOUS
  <1>2. PICK k \in Bad : \A j \in Bad : k <= j
    BY <1>1, LeastOfSet
  <1>3. k \in 1 .. p /\ e[k] # f[k] /\ e[1] = 0 /\ f[1] = 0
    BY DEF Ends
  <1>4. PICK j \in Nat : k = j + 1
    BY <1>3
  <1>5. j \in 1 .. p - 1 /\ j \in 1 .. q - 1 /\ j \in 1 .. p /\ j \notin Bad
    BY <1>2, <1>3, <1>4
  <1>6. e[j] = f[j]
    BY <1>5
  <1>7. EndsAt(s, NameOrder[j], e[j], e[k]) /\ EndsAt(s, NameOrder[j], e[j], f[k])
    BY <1>4, <1>5, <1>6 DEF Ends
  <1>8. e[k] = f[k]
    <2>1. PICK n : n = NameOrder[j]
      OBVIOUS
    <2>2. CASE \A z, v \in Nat : ~Asked(s, n, z, v)
      BY <1>7, <2>1, <2>2 DEF EndsAt
    <2>3. CASE \E z, v \in Nat : Asked(s, n, z, v)
      <3>1. PICK z, v \in Nat : Asked(s, n, z, v) /\ e[k] = AlignUp(e[j], v) + z
        BY <1>7, <2>1, <2>3 DEF EndsAt
      <3>2. PICK y, w \in Nat : Asked(s, n, y, w) /\ f[k] = AlignUp(e[j], w) + y
        BY <1>7, <2>1, <2>3 DEF EndsAt
      <3>3. z = y /\ v = w
        BY <3>1, <3>2, AskedOnce
      <3> QED
        BY <3>1, <3>2, <3>3
    <2> QED
      BY <2>2, <2>3
  <1> QED
    BY <1>3, <1>8

(* A stream that resolves is not one that is rejected.                     *)
LEMMA ResolvedOrRejected ==
  ASSUME NEW s \in Seq(Candidate), NEW D, Resolves(s, D)
  PROVE  ~Rejects(s)
  <1> SUFFICES ASSUME Overflows(s) PROVE FALSE
    BY DEF Resolves, Rejects
  <1>1. NameOrder \in Seq(Names) /\ Len(NameOrder) \in Nat
    BY NameOrderAssumption, LenProperties
  <1>2. PICK p \in 1 .. Len(NameOrder), z \in Nat, v \in Nat :
           \E e : Ends(s, e, p) /\ Asked(s, NameOrder[p], z, v) /\ ~Fits(e[p], z, v)
    BY DEF Overflows
  <1>3. PICK e : Ends(s, e, p) /\ Asked(s, NameOrder[p], z, v) /\ ~Fits(e[p], z, v)
    BY <1>2
  <1>4. PICK f : Ends(s, f, Len(NameOrder) + 1)
    BY DEF Resolves
  <1>5. /\ p \in Nat \ {0} /\ Len(NameOrder) + 1 \in Nat \ {0} /\ p <= Len(NameOrder) + 1
        /\ p \in 1 .. p /\ p \in 1 .. (Len(NameOrder) + 1) - 1
    BY <1>1
  <1>6. e[p] = f[p]
    BY <1>3, <1>4, <1>5, EndsInOneWay
  <1>7. EndsAt(s, NameOrder[p], f[p], f[p + 1])
    BY <1>4, <1>5 DEF Ends
  <1>8. PICK y, w \in Nat : Asked(s, NameOrder[p], y, w) /\ Fits(f[p], y, w)
    BY <1>3, <1>7 DEF EndsAt
  <1>9. y = z /\ w = v
    BY <1>3, <1>8, AskedOnce
  <1> QED
    BY <1>3, <1>6, <1>8, <1>9

-----------------------------------------------------------------------------
(* The scan.                                                               *)
LEMMA OutcomeAfterRead ==
  ASSUME ResolveInv, OutcomeInv, Scanning, ~Unwelcome(Current), NEW defs, Advance(defs),
         \A n \in DOMAIN defs : Faithful(defs[n])
  PROVE  OutcomeInv'
  <1>1. /\ stream' = stream /\ next' = next + 1 /\ definitions' = defs /\ phase' = phase
        /\ placing' = placing /\ commonSize' = commonSize /\ phase = "scan"
    BY DEF Advance, Scanning
  <1>2. /\ stream \in Seq(Candidate) /\ Len(stream) \in Nat /\ DOMAIN stream = 1 .. Len(stream)
        /\ next \in 1 .. Len(stream) /\ Current = stream[next]
    BY LenProperties DEF ResolveInv, ResolveTypeOK, Scanning, Current
  <1>3. next' \in 1 .. Len(stream) + 1
    BY <1>1, <1>2
  <1>4. \A i \in DOMAIN stream : i < next + 1 => ~Unwelcome(stream[i])
    BY <1>2 DEF OutcomeInv, ScanOutcome
  <1>5. \A n \in DOMAIN definitions' : Faithful(definitions[n])'
    BY <1>1 DEF Faithful
  <1>6. ScanOutcome'
    BY <1>1, <1>3, <1>4, <1>5 DEF OutcomeInv, ScanOutcome
  <1>7. LayoutOutcome'
    BY <1>1 DEF LayoutOutcome
  <1> QED
    BY <1>6, <1>7 DEF OutcomeInv

LEMMA FoundIsFaithful ==
  ASSUME ResolveInv, Accepted
  PROVE  Faithful(Found)
  <1>1. /\ Current.place \in {"section", "common"}
        /\ Current.place = "common" => Current.bind = "global"
    BY FoundIsDefinition DEF ResolveInv
  <1>2. next \in DOMAIN stream /\ Current = stream[next]
    BY DEF Accepted, Scanning, Current
  <1> QED
    BY <1>1, <1>2, FoundIsDefinition DEF Faithful, Found, From, ResolveInv

LEMMA BindIsFaithful ==
  ASSUME NEW n, NEW d, Faithful(d), \A m \in DOMAIN definitions : Faithful(definitions[m])
  PROVE  \A m \in DOMAIN Bind(n, d) : Faithful(Bind(n, d)[m])
  <1> SUFFICES ASSUME NEW m \in DOMAIN Bind(n, d) PROVE Faithful(Bind(n, d)[m])
    OBVIOUS
  <1>1. CASE m = n
    <2>1. Bind(n, d)[m] = d
      BY <1>1 DEF Bind
    <2> QED
      BY <2>1
  <1>2. CASE m # n
    <2>1. m \in DOMAIN definitions /\ Bind(n, d)[m] = definitions[m]
      BY <1>2 DEF Bind
    <2> QED
      BY <2>1
  <1> QED
    BY <1>1, <1>2

LEMMA OutcomeOfReading ==
  ASSUME ResolveInv, OutcomeInv,
         IgnoreSymbol \/ DefineName \/ MergeCommons \/ OverrideName \/ KeepName
  PROVE  OutcomeInv'
  <1>1. Scanning
    BY DEF IgnoreSymbol, DefineName, MergeCommons, OverrideName, KeepName, Accepted
  <1>2. \A n \in DOMAIN definitions : Faithful(definitions[n])
    BY DEF OutcomeInv, ScanOutcome
  <1>3. CASE IgnoreSymbol
    <2>1. ~Unwelcome(Current) /\ Advance(definitions)
      BY <1>3 DEF IgnoreSymbol, Unwelcome, Defines, Nonlocal
    <2> QED
      BY <1>1, <1>2, <2>1, OutcomeAfterRead
  <1>4. CASE Accepted
    <2>1. ~Unwelcome(Current) /\ Faithful(Found)
      BY <1>4, FoundIsFaithful DEF Unwelcome, Accepted, Defines, Nonlocal
    <2>2. CASE KeepName
      BY <1>1, <1>2, <2>1, <2>2, OutcomeAfterRead DEF KeepName
    <2>3. CASE DefineName \/ OverrideName
      <3>1. Advance(Bind(Current.name, Found))
        BY <2>3 DEF DefineName, OverrideName
      <3> QED
        BY <1>1, <1>2, <2>1, <3>1, BindIsFaithful, OutcomeAfterRead
    <2>4. CASE MergeCommons
      <3>1. PICK d : d = [Existing EXCEPT !.size  = Larger(@, Current.size),
                                          !.value = Larger(@, Current.value)]
        OBVIOUS
      <3>2. Advance(Bind(Current.name, d)) /\ Existing.place = "common" /\ Faithful(Existing)
        BY <1>2, <2>4, <3>1 DEF MergeCommons, Existing
      <3>3. Existing \in Definition
        BY <2>4, ExistingIsBound DEF MergeCommons
      <3>4. d.place = "common" /\ d.bind = Existing.bind /\ d.source = Existing.source
        BY <3>1, <3>2, <3>3 DEF Definition
      <3>5. Faithful(d)
        BY <3>2, <3>4 DEF Faithful
      <3> QED
        BY <1>1, <1>2, <2>1, <3>2, <3>5, BindIsFaithful, OutcomeAfterRead
    <2> QED
      BY <1>3, <1>4, <2>2, <2>3, <2>4 DEF IgnoreSymbol, Accepted, Defines, Nonlocal
  <1> QED
    BY <1>3, <1>4 DEF DefineName, MergeCommons, OverrideName, KeepName

LEMMA OutcomeOfRefusal ==
  ASSUME ResolveInv, OutcomeInv, RejectSymbol \/ ConflictOnName
  PROVE  OutcomeInv'
  <1>1. /\ Scanning /\ phase' = "failed" /\ next \in DOMAIN stream /\ Current = stream[next]
        /\ UNCHANGED <<stream, next, definitions, placing, commonSize>>
    BY DEF RejectSymbol, ConflictOnName, Fail, Accepted, Scanning, Current
  <1>2. Trouble(stream)
    <2>1. CASE RejectSymbol
      <3>1. Unwelcome(Current)
        BY <2>1 DEF RejectSymbol, Unwelcome, Refused
      <3> QED
        BY <1>1, <3>1 DEF Trouble
    <2>2. CASE ConflictOnName
      <3>1. PICK n : n = Current.name
        OBVIOUS
      <3>2. n \in Names /\ Binding(n, Existing) /\ Existing.place = "section" /\ Existing.bind = "global"
            /\ Current.place = "section" /\ Current.bind = "global" /\ Defines(Current)
        BY <2>2, <3>1, ExistingIsBound, FoundIsDefinition
           DEF ConflictOnName, Conflicts, ResolveInv, Accepted
      <3>3. Existing.source \in Strong(n)
        BY <3>2 DEF Binding, StrongBinding
      <3>4. Existing.source < next
        BY <3>3 DEF Strong, Read
      <3>5. next \in StrongsOf(stream, n)
        BY <1>1, <3>1, <3>2 DEF StrongsOf, SymbolsOf
      <3>6. next \in Nat
        BY DEF ResolveInv, ResolveTypeOK
      <3>7. next # Existing.source
        BY <3>4, <3>6
      <3> QED
        BY <3>2, <3>3, <3>5, <3>7, ReadIsOf DEF Trouble
    <2> QED
      BY <2>1, <2>2
  <1>3. Rejects(stream)'
    BY <1>1, <1>2 DEF Rejects
  <1>4. ScanOutcome'
    BY <1>1, <1>3 DEF OutcomeInv, ScanOutcome, Faithful
  <1> QED
    BY <1>1, <1>4 DEF OutcomeInv, LayoutOutcome

LEMMA OutcomeOfScan ==
  ASSUME ResolveInv, OutcomeInv, EndScan
  PROVE  OutcomeInv'
  <1>1. /\ phase = "scan" /\ phase' = "commons" /\ next > Len(stream)
        /\ UNCHANGED <<stream, next, definitions, placing, commonSize>>
    BY DEF EndScan
  <1>2. Len(stream) \in Nat /\ next \in Nat
    BY LenProperties DEF ResolveInv, ResolveTypeOK
  <1>3. ScanOutcome'
    BY <1>1, <1>2 DEF OutcomeInv, ScanOutcome, Faithful
  <1>4. placing = 1 /\ commonSize = 0
    BY <1>1 DEF OutcomeInv, ScanOutcome
  <1>5. PICK e : e = [k \in 1 .. 1 |-> 0]
    OBVIOUS
  <1>6. Ends(stream, e, 1) /\ e[1] = 0
    BY <1>5 DEF Ends
  <1>7. LaidOut(e, 1)'
    BY DEF LaidOut
  <1>8. Len(NameOrder) \in Nat
    BY NameOrderAssumption, LenProperties
  <1>9. \A n \in DOMAIN definitions : definitions[n].place # "allocated"
    BY <1>1 DEF ResolveInv, ScanInv
  <1>10. /\ placing' = 1 /\ placing' \in 1 .. Len(NameOrder) + 1
         /\ Ends(stream', e, placing') /\ e[placing'] = commonSize'
    BY <1>1, <1>4, <1>6, <1>8
  <1>11. LaidOut(e, placing)'
    BY <1>1, <1>4, <1>7
  <1>12. LayoutOutcome'
    BY <1>1, <1>9, <1>10, <1>11 DEF LayoutOutcome
  <1> QED
    BY <1>3, <1>12 DEF OutcomeInv


-----------------------------------------------------------------------------
(* The layout.                                                             *)

(* A step over the next name, or an allocation for it.                     *)
LEMMA OutcomeOfPass ==
  ASSUME ResolveInv, OutcomeInv, PassName
  PROVE  OutcomeInv'
  <1>1. /\ phase = "commons" /\ phase' = "commons" /\ placing <= Len(NameOrder) /\ ~IsCommon(Name)
        /\ placing' = placing + 1 /\ Name = NameOrder[placing]
        /\ UNCHANGED <<stream, next, definitions, commonSize>>
    BY DEF PassName, Laying, Name
  <1>2. /\ Len(NameOrder) \in Nat /\ placing \in 1 .. Len(NameOrder) + 1
        /\ next = Len(stream) + 1
    BY <1>1, NameOrderAssumption, LenProperties DEF OutcomeInv, ScanOutcome, LayoutOutcome
  <1>3. placing \in 1 .. Len(NameOrder) /\ placing \in Nat \ {0} /\ placing + 1 \in 1 .. Len(NameOrder) + 1
    BY <1>1, <1>2
  <1>4. PICK n : n = NameOrder[placing]
    OBVIOUS
  <1>5. n \in Names /\ NameOrder \in Seq(Names) /\ DOMAIN NameOrder = 1 .. Len(NameOrder)
    BY <1>3, <1>4, NameOrderAssumption, ElementOfSeq, LenProperties
  <1>6. \A k \in 1 .. placing - 1 : NameOrder[k] # n
    <2> SUFFICES ASSUME NEW k \in 1 .. placing - 1, NameOrder[k] = n PROVE FALSE
      OBVIOUS
    <2>1. k \in DOMAIN NameOrder /\ placing \in DOMAIN NameOrder
      BY <1>3, <1>5
    <2> QED
      BY <1>3, <1>4, <2>1, NameOrderAssumption
  <1>7. n \in DOMAIN definitions => definitions[n].place = "section"
    <2> SUFFICES ASSUME n \in DOMAIN definitions PROVE definitions[n].place = "section"
      OBVIOUS
    <2>1. definitions[n].place # "common"
      BY <1>1, <1>4 DEF IsCommon
    <2>2. definitions[n].place # "allocated"
      BY <1>1, <1>6 DEF OutcomeInv, LayoutOutcome
    <2>3. definitions[n] \in Definition
      BY DEF ResolveInv, ResolveTypeOK
    <2> QED
      BY <2>1, <2>2, <2>3 DEF Definition
  <1>8. ASSUME Tentative(stream, n) PROVE FALSE
    <2>1. Strong(n) = {} /\ Commons(n) # {}
      BY <1>2, <1>8, AllIsRead DEF Tentative, ResolveInv
    <2>2. n \in DOMAIN definitions /\ Binding(n, definitions[n])
      <3>1. Read(n) # {}
        BY <2>1 DEF Commons
      <3> QED
        BY <1>5, <3>1 DEF ResolveInv, BindingInv
    <2>3. definitions[n] \in Definition
      BY <2>2 DEF ResolveInv, ResolveTypeOK
    <2> QED
      BY <1>7, <2>1, <2>2, <2>3 DEF Binding, StrongBinding, WeakBinding, Definition
  <1>9. PICK e : Ends(stream, e, placing) /\ e[placing] = commonSize /\ LaidOut(e, placing)
    BY <1>1 DEF OutcomeInv, LayoutOutcome
  <1>10. EndsAt(stream, NameOrder[placing], e[placing], commonSize) /\ commonSize \in Nat
    <2>1. \A z, v \in Nat : ~Asked(stream, n, z, v)
      BY <1>8 DEF Asked, Tentative
    <2> QED
      BY <1>4, <1>9, <2>1 DEF EndsAt, ResolveInv, ResolveTypeOK
  <1>11. PICK f : /\ Ends(stream, f, placing + 1) /\ f[placing + 1] = commonSize
                  /\ \A k \in 1 .. placing : f[k] = e[k]
    <2>1. placing \in Nat \ {0} /\ commonSize \in Nat /\ Ends(stream, e, placing)
      BY <1>3, <1>9, <1>10
    <2> QED
      BY <1>10, <2>1, EndsMore
  <1>12. LaidOut(f, placing)'
    <2>3. stream' = stream /\ definitions' = definitions /\ placing' - 1 = placing
      BY <1>1, <1>3
    <2> SUFFICES ASSUME NEW k \in 1 .. placing, Tentative(stream, NameOrder[k])
                 PROVE  \E z, v \in Nat : /\ Asked(stream, NameOrder[k], z, v)
                                          /\ definitions[NameOrder[k]].value = AlignUp(f[k], v)
      BY <2>3 DEF LaidOut
    <2>1. k # placing
      BY <1>4, <1>8
    <2>2. k \in 1 .. placing - 1 /\ f[k] = e[k]
      BY <1>3, <1>11, <2>1
    <2> QED
      BY <1>9, <2>2 DEF LaidOut
  <1>13. ScanOutcome'
    BY <1>1 DEF OutcomeInv, ScanOutcome, Faithful
  <1>14. ASSUME NEW m \in DOMAIN definitions
         PROVE  definitions[m].place = "allocated" <=>
                   /\ \E k \in 1 .. placing : m = NameOrder[k]
                   /\ definitions[m].place # "section"
    <2>1. definitions[m].place = "allocated" <=>
             /\ \E k \in 1 .. placing - 1 : m = NameOrder[k]
             /\ definitions[m].place # "section"
      BY <1>1 DEF OutcomeInv, LayoutOutcome
    <2>2. (\E k \in 1 .. placing : m = NameOrder[k]) <=>
             (\E k \in 1 .. placing - 1 : m = NameOrder[k]) \/ m = n
      BY <1>3, <1>4
    <2> QED
      BY <1>7, <2>1, <2>2
  <1>15. (placing + 1) - 1 = placing
    BY <1>3
  <1>16. /\ placing' \in 1 .. Len(NameOrder) + 1
         /\ Ends(stream', f, placing') /\ f[placing'] = commonSize'
         /\ \A m \in DOMAIN definitions' :
              definitions'[m].place = "allocated" <=>
                  /\ \E k \in 1 .. placing' - 1 : m = NameOrder[k]
                  /\ definitions'[m].place # "section"
    BY <1>1, <1>3, <1>11, <1>14, <1>15
  <1>17. LayoutOutcome'
    BY <1>1, <1>12, <1>16 DEF LayoutOutcome
  <1> QED
    BY <1>13, <1>17 DEF OutcomeInv


(* A common that is laid out is what the whole stream asks for.            *)
LEMMA CommonIsAsked ==
  ASSUME ResolveInv, next = Len(stream) + 1, NEW n \in DOMAIN definitions,
         definitions[n].place = "common"
  PROVE  /\ Asked(stream, n, definitions[n].size, definitions[n].value)
         /\ definitions[n].size \in Nat /\ definitions[n].value \in Nat
  <1>1. definitions[n] \in Definition /\ n \in Names /\ Binding(n, definitions[n])
    BY DEF ResolveInv, ResolveTypeOK, BindingInv
  <1>2. Strong(n) = StrongsOf(stream, n) /\ Commons(n) = CommonsOf(stream, n)
    BY AllIsRead DEF ResolveInv
  <1> QED
    BY <1>1, <1>2 DEF Binding, SizeOfCommon, AlignmentOfCommon, Asked, Definition

LEMMA OutcomeOfAllocation ==
  ASSUME ResolveInv, OutcomeInv, AllocateCommon
  PROVE  OutcomeInv'
  <1>1. PICK n : n = Name
    OBVIOUS
  <1>2. PICK d : d = definitions[n]
    OBVIOUS
  <1>3. /\ phase = "commons" /\ placing <= Len(NameOrder) /\ n = NameOrder[placing]
        /\ n \in DOMAIN definitions /\ d.place = "common"
    BY <1>1, <1>2 DEF AllocateCommon, Laying, IsCommon, Name
  <1>4. /\ Len(NameOrder) \in Nat /\ placing \in 1 .. Len(NameOrder) + 1
        /\ next = Len(stream) + 1
    BY <1>3, NameOrderAssumption, LenProperties DEF OutcomeInv, ScanOutcome, LayoutOutcome
  <1>5. /\ placing \in 1 .. Len(NameOrder) /\ placing \in Nat \ {0}
        /\ placing + 1 \in 1 .. Len(NameOrder) + 1 /\ DOMAIN NameOrder = 1 .. Len(NameOrder)
    BY <1>3, <1>4, NameOrderAssumption, LenProperties
  <1>6. \A k \in 1 .. placing - 1 : NameOrder[k] # n
    <2> SUFFICES ASSUME NEW k \in 1 .. placing - 1, NameOrder[k] = n PROVE FALSE
      OBVIOUS
    <2>1. k \in DOMAIN NameOrder /\ placing \in DOMAIN NameOrder
      BY <1>5
    <2> QED
      BY <1>3, <1>5, <2>1, NameOrderAssumption
  <1>7. /\ Asked(stream, n, d.size, d.value) /\ d.size \in Nat /\ d.value \in Nat
        /\ d \in Definition /\ d.bind = "global" /\ d.value # 0 /\ commonSize \in Nat
    <2>1. Asked(stream, n, d.size, d.value) /\ d.size \in Nat /\ d.value \in Nat
      BY <1>2, <1>3, <1>4, CommonIsAsked
    <2>2. Faithful(d) /\ d \in Definition /\ commonSize \in Nat
      BY <1>2, <1>3 DEF OutcomeInv, ScanOutcome, ResolveInv, ResolveTypeOK
    <2>3. AlignmentOfCommon(n, d)
      BY <1>2, <1>3 DEF ResolveInv, ResolveTypeOK, BindingInv, Binding
    <2> QED
      BY <1>3, <2>1, <2>2, <2>3 DEF Faithful, AlignmentOfCommon
  <1>8. PICK e : Ends(stream, e, placing) /\ e[placing] = commonSize /\ LaidOut(e, placing)
    BY <1>3 DEF OutcomeInv, LayoutOutcome
  <1>9. PICK offset : offset = AlignUp(commonSize, d.value)
    OBVIOUS
  <1>10. offset \in Nat
    BY <1>7, <1>9, AlignUpAligns
  <1>11. CASE /\ ~Fits(commonSize, d.size, d.value)
              /\ \E why : Fail(why)
    <2>1. /\ phase' = "failed"
          /\ UNCHANGED <<stream, next, definitions, placing, commonSize, commonAlign>>
      BY <1>11 DEF Fail
    <2>2. Overflows(stream)
      BY <1>3, <1>5, <1>7, <1>8, <1>11 DEF Overflows
    <2>3. ScanOutcome'
      BY <2>1, <2>2 DEF OutcomeInv, ScanOutcome, Faithful, Rejects
    <2> QED
      BY <2>1, <2>3 DEF OutcomeInv, LayoutOutcome
  <1>12. CASE /\ Fits(commonSize, d.size, d.value)
              /\ definitions' = [definitions EXCEPT ![n].source = 0, ![n].place = "allocated",
                                                    ![n].value = offset]
              /\ commonSize' = offset + d.size
              /\ placing' = placing + 1
              /\ UNCHANGED <<stream, next, phase, error>>
    <2>1. PICK x : x = [d EXCEPT !.source = 0, !.place = "allocated", !.value = offset]
      OBVIOUS
    <2>2. /\ x.place = "allocated" /\ x.bind = "global" /\ x.source = 0 /\ x.value = offset
      BY <1>7, <2>1 DEF Definition
    <2>3. /\ DOMAIN definitions' = DOMAIN definitions /\ definitions'[n] = x
          /\ \A m \in DOMAIN definitions \ {n} : definitions'[m] = definitions[m]
      BY <1>2, <1>3, <1>12, <2>1 DEF ResolveInv, ResolveTypeOK
    <2>4. \A m \in DOMAIN definitions' : Faithful(definitions[m])'
      <3> SUFFICES ASSUME NEW m \in DOMAIN definitions' PROVE Faithful(definitions[m])'
        OBVIOUS
      <3>1. CASE m = n
        BY <2>2, <2>3, <3>1 DEF Faithful
      <3>2. CASE m # n
        <4>1. Faithful(definitions[m]) /\ definitions'[m] = definitions[m]
          BY <2>3, <3>2 DEF OutcomeInv, ScanOutcome
        <4> QED
          BY <1>12, <4>1 DEF Faithful
      <3> QED
        BY <3>1, <3>2
    <2>5. ScanOutcome'
      BY <1>3, <1>12, <2>4 DEF OutcomeInv, ScanOutcome
    <2>6. EndsAt(stream, NameOrder[placing], e[placing], offset + d.size)
      BY <1>3, <1>7, <1>8, <1>9, <1>12 DEF EndsAt
    <2>7. PICK f : /\ Ends(stream, f, placing + 1) /\ f[placing + 1] = offset + d.size
                   /\ \A k \in 1 .. placing : f[k] = e[k]
      <3>1. placing \in Nat \ {0} /\ offset + d.size \in Nat /\ Ends(stream, e, placing)
        BY <1>5, <1>7, <1>8, <1>10
      <3> QED
        BY <2>6, <3>1, EndsMore
    <2>8. LaidOut(f, placing)'
      <3>3. stream' = stream /\ placing' - 1 = placing
        BY <1>5, <1>12
      <3> SUFFICES ASSUME NEW k \in 1 .. placing, Tentative(stream, NameOrder[k])
                   PROVE  \E z, v \in Nat :
                              /\ Asked(stream, NameOrder[k], z, v)
                              /\ definitions'[NameOrder[k]].value = AlignUp(f[k], v)
        BY <3>3 DEF LaidOut
      <3>1. CASE k = placing
        <4>1. f[k] = commonSize
          BY <1>5, <1>8, <2>7, <3>1
        <4> QED
          BY <1>3, <1>7, <1>9, <2>2, <2>3, <3>1, <4>1
      <3>2. CASE k # placing
        <4>1. k \in 1 .. placing - 1 /\ f[k] = e[k] /\ NameOrder[k] # n
          BY <1>5, <1>6, <2>7, <3>2
        <4>2. PICK z, v \in Nat : /\ Asked(stream, NameOrder[k], z, v)
                                 /\ definitions[NameOrder[k]].value = AlignUp(e[k], v)
          BY <1>8, <4>1 DEF LaidOut
        <4>3. NameOrder[k] \in DOMAIN definitions
          <5>1. NameOrder[k] \in Names
            BY <1>5, NameOrderAssumption, ElementOfSeq
          <5>2. CommonsOf(stream, NameOrder[k]) # {}
            BY DEF Tentative
          <5>3. Read(NameOrder[k]) # {}
            BY <1>4, <5>2, AllIsRead DEF ResolveInv, CommonsOf
          <5> QED
            BY <5>1, <5>3 DEF ResolveInv, BindingInv
        <4> QED
          BY <2>3, <4>1, <4>2, <4>3
      <3> QED
        BY <3>1, <3>2
    <2>9. ASSUME NEW m \in DOMAIN definitions'
          PROVE  definitions'[m].place = "allocated" <=>
                     /\ \E k \in 1 .. placing : m = NameOrder[k]
                     /\ definitions'[m].place # "section"
      <3>1. CASE m = n
        BY <1>3, <1>5, <2>2, <2>3, <3>1
      <3>2. CASE m # n
        <4>1. definitions'[m] = definitions[m] /\ m \in DOMAIN definitions
          BY <2>3, <3>2
        <4>2. definitions[m].place = "allocated" <=>
                 /\ \E k \in 1 .. placing - 1 : m = NameOrder[k]
                 /\ definitions[m].place # "section"
          BY <1>3, <4>1 DEF OutcomeInv, LayoutOutcome
        <4>3. (\E k \in 1 .. placing : m = NameOrder[k]) <=>
                 (\E k \in 1 .. placing - 1 : m = NameOrder[k])
          BY <1>3, <1>5, <3>2
        <4> QED
          BY <4>1, <4>2, <4>3
      <3> QED
        BY <3>1, <3>2
    <2>10. (placing + 1) - 1 = placing
      BY <1>5
    <2>11. /\ placing' \in 1 .. Len(NameOrder) + 1
           /\ Ends(stream', f, placing') /\ f[placing'] = commonSize'
           /\ \A m \in DOMAIN definitions' :
                definitions'[m].place = "allocated" <=>
                    /\ \E k \in 1 .. placing' - 1 : m = NameOrder[k]
                    /\ definitions'[m].place # "section"
      BY <1>5, <1>12, <2>7, <2>9, <2>10
    <2>12. LayoutOutcome'
      BY <1>3, <1>12, <2>8, <2>11 DEF LayoutOutcome
    <2> QED
      BY <2>5, <2>12 DEF OutcomeInv
  <1>13. \/ /\ ~Fits(commonSize, d.size, d.value)
            /\ \E why : Fail(why)
         \/ /\ Fits(commonSize, d.size, d.value)
            /\ definitions' = [definitions EXCEPT ![n].source = 0, ![n].place = "allocated",
                                                  ![n].value = offset]
            /\ commonSize' = offset + d.size
            /\ placing' = placing + 1
            /\ UNCHANGED <<stream, next, phase, error>>
    <2>1. commonSize + d.value - 1 \in Int /\ offset + d.size \in Int /\ SizeLimit \in Int
      BY <1>7, <1>10, SizeAssumption
    <2> QED
      BY <1>1, <1>2, <1>9, <2>1 DEF AllocateCommon, Fits
  <1> QED
    BY <1>11, <1>12, <1>13

LEMMA OutcomeOfEnd ==
  ASSUME ResolveInv, OutcomeInv, EndResolve
  PROVE  OutcomeInv'
  <1>1. /\ phase = "commons" /\ phase' = "done" /\ placing > Len(NameOrder)
        /\ UNCHANGED <<stream, next, definitions, placing, commonSize>>
    BY DEF EndResolve
  <1>2. ScanOutcome'
    BY <1>1 DEF OutcomeInv, ScanOutcome, Faithful
  <1>3. Len(NameOrder) \in Nat
    BY NameOrderAssumption, LenProperties
  <1>4. placing = Len(NameOrder) + 1
    BY <1>1, <1>3 DEF OutcomeInv, LayoutOutcome
  <1>5. PICK e : Ends(stream, e, placing) /\ e[placing] = commonSize /\ LaidOut(e, placing)
    BY <1>1 DEF OutcomeInv, LayoutOutcome
  <1>6. LaidOut(e, placing)'
    BY <1>1, <1>5 DEF LaidOut
  <1>7. LayoutOutcome'
    BY <1>1, <1>4, <1>5, <1>6 DEF LayoutOutcome, OutcomeInv
  <1> QED
    BY <1>2, <1>7 DEF OutcomeInv

LEMMA OutcomeStep ==
    ResolveInv /\ OutcomeInv /\ [ResolveNext \/ Settled]_resolveVars => OutcomeInv'
  <1> SUFFICES ASSUME ResolveInv, OutcomeInv, [ResolveNext \/ Settled]_resolveVars
               PROVE  OutcomeInv'
    OBVIOUS
  <1>1. CASE ResolveNext
    BY <1>1, OutcomeOfReading, OutcomeOfRefusal, OutcomeOfScan, OutcomeOfPass,
       OutcomeOfAllocation, OutcomeOfEnd DEF ResolveNext
  <1>2. CASE UNCHANGED resolveVars
    <2>1. UNCHANGED <<stream, next, definitions, placing, commonSize, phase>>
      BY <1>2 DEF resolveVars
    <2>2. ScanOutcome'
      BY <2>1 DEF OutcomeInv, ScanOutcome, Faithful
    <2>3. \A e, p : LaidOut(e, p) => LaidOut(e, p)'
      BY <2>1 DEF LaidOut
    <2>4. LayoutOutcome'
      BY <2>1, <2>3 DEF OutcomeInv, LayoutOutcome, LaidOut
    <2> QED
      BY <2>2, <2>4 DEF OutcomeInv
  <1> QED
    BY <1>1, <1>2 DEF Settled

LEMMA FreshHasNoOutcome == Fresh => OutcomeInv
  <1> SUFFICES ASSUME Fresh PROVE OutcomeInv
    OBVIOUS
  <1>1. stream \in Seq(Candidate) /\ Len(stream) \in Nat /\ DOMAIN stream = 1 .. Len(stream)
    BY LenProperties DEF Fresh
  <1>2. DOMAIN definitions = {} /\ next \in 1 .. Len(stream) + 1
    BY <1>1 DEF Fresh
  <1> QED
    BY <1>1, <1>2 DEF Fresh, OutcomeInv, ScanOutcome, LayoutOutcome


-----------------------------------------------------------------------------
(* How a resolution ends.                                                  *)
LEMMA DoneResolves ==
  ASSUME ResolveInv, OutcomeInv, phase = "done"
  PROVE  Resolves(stream, definitions)
  <1>1. /\ next = Len(stream) + 1 /\ placing = Len(NameOrder) + 1
        /\ ResolveTypeOK /\ Len(NameOrder) \in Nat
    BY NameOrderAssumption, LenProperties DEF OutcomeInv, ScanOutcome, LayoutOutcome, ResolveInv
  <1>2. \A n : /\ Read(n) = SymbolsOf(stream, n) /\ Strong(n) = StrongsOf(stream, n)
               /\ Commons(n) = CommonsOf(stream, n) /\ Weak(n) = WeaksOf(stream, n)
    BY <1>1, AllIsRead
  <1>3. \A i \in DOMAIN stream : i < next
    BY <1>1, LenProperties DEF ResolveTypeOK
  <1>4. ~Trouble(stream)
    <2>1. \A i \in DOMAIN stream : ~Unwelcome(stream[i])
      BY <1>3 DEF OutcomeInv, ScanOutcome
    <2>2. \A n \in Names : \A i, j \in StrongsOf(stream, n) : i = j
      BY <1>2 DEF ResolveInv, OneStrongDefinition
    <2> QED
      BY <2>1, <2>2 DEF Trouble
  <1>5. PICK e : Ends(stream, e, placing) /\ LaidOut(e, placing)
    BY DEF OutcomeInv, LayoutOutcome
  <1>6. \A n \in DOMAIN definitions :
           /\ n \in Names /\ definitions[n] \in Definition /\ Binding(n, definitions[n])
           /\ Faithful(definitions[n])
           /\ definitions[n].place = "allocated" <=> definitions[n].place # "section"
    <2> SUFFICES ASSUME NEW n \in DOMAIN definitions
                 PROVE  /\ n \in Names /\ definitions[n] \in Definition
                        /\ Binding(n, definitions[n]) /\ Faithful(definitions[n])
                        /\ definitions[n].place = "allocated" <=> definitions[n].place # "section"
      OBVIOUS
    <2>1. n \in Names /\ definitions[n] \in Definition
      BY <1>1 DEF ResolveTypeOK
    <2>2. \E k \in 1 .. placing - 1 : n = NameOrder[k]
      <3>1. PICK k \in DOMAIN NameOrder : NameOrder[k] = n
        BY <2>1, NameOrderAssumption
      <3>2. k \in 1 .. placing - 1
        BY <1>1, NameOrderAssumption, LenProperties
      <3> QED
        BY <3>1, <3>2
    <2>3. definitions[n].place = "allocated" <=> definitions[n].place # "section"
      BY <2>2 DEF OutcomeInv, LayoutOutcome
    <2> QED
      BY <2>1, <2>3 DEF ResolveInv, BindingInv, OutcomeInv, ScanOutcome
  <1>7. DOMAIN definitions = {n \in Names : SymbolsOf(stream, n) # {}}
    BY <1>2, <1>6 DEF ResolveInv, BindingInv
  <1>8. ASSUME NEW n \in Names, NEW i \in StrongsOf(stream, n)
        PROVE  definitions[n] = From(stream, i)
    <2>1. n \in DOMAIN definitions
      BY <1>7 DEF StrongsOf
    <2>2. PICK d : d = definitions[n]
      OBVIOUS
    <2>3. Strong(n) # {} /\ d \in Definition /\ Binding(n, d)
      BY <1>2, <1>6, <2>1, <2>2
    <2>4. d.place = "section"
      BY <1>6, <2>1, <2>2, <2>3 DEF Binding, SizeOfCommon
    <2>5. d.bind = "global"
      BY <2>3, <2>4 DEF Binding, WeakBinding, Definition
    <2>6. d.source \in StrongsOf(stream, n)
      BY <1>2, <2>3, <2>4, <2>5 DEF Binding, StrongBinding
    <2>7. d.source = i
      BY <1>4, <2>6 DEF Trouble
    <2> QED
      BY <1>6, <2>1, <2>2, <2>4, <2>7 DEF Faithful
  <1>9. ASSUME NEW k \in DOMAIN NameOrder, Tentative(stream, NameOrder[k])
        PROVE  \E z, v \in Nat : /\ Asked(stream, NameOrder[k], z, v)
                                 /\ definitions[NameOrder[k]] = Storage(z, AlignUp(e[k], v))
    <2>0. PICK z, v \in Nat : /\ Asked(stream, NameOrder[k], z, v)
                             /\ definitions[NameOrder[k]].value = AlignUp(e[k], v)
      <3>1. k \in 1 .. placing - 1
        BY <1>1, NameOrderAssumption, LenProperties
      <3> QED
        BY <1>5, <1>9, <3>1 DEF LaidOut
    <2>1. PICK n : n = NameOrder[k]
      OBVIOUS
    <2>2. n \in Names /\ CommonsOf(stream, n) # {} /\ StrongsOf(stream, n) = {}
      BY <1>9, <2>1, NameOrderAssumption, LenProperties, ElementOfSeq DEF Tentative
    <2>3. n \in DOMAIN definitions
      BY <1>7, <2>2 DEF CommonsOf
    <2>4. PICK d : d = definitions[n]
      OBVIOUS
    <2>5. d \in Definition /\ Binding(n, d) /\ Strong(n) = {} /\ Commons(n) # {}
      BY <1>2, <1>6, <2>2, <2>3, <2>4
    <2>6. d.place = "allocated"
      <3>1. d.place # "section"
        BY <2>5 DEF Binding, StrongBinding, WeakBinding, Definition
      <3> QED
        BY <1>6, <2>3, <2>4, <3>1
    <2>7. d.source = 0 /\ d.bind = "global"
      BY <1>6, <2>3, <2>4, <2>6 DEF Faithful
    <2>8. d.size = z
      <3>1. /\ \E i \in CommonsOf(stream, n) : stream[i].size = d.size
            /\ \A i \in CommonsOf(stream, n) : stream[i].size <= d.size
        BY <1>2, <2>5, <2>6 DEF Binding, SizeOfCommon
      <3>2. /\ \E i \in CommonsOf(stream, n) : stream[i].size = z
            /\ \A i \in CommonsOf(stream, n) : stream[i].size <= z
        BY <2>0, <2>1 DEF Asked
      <3>3. z <= d.size /\ d.size <= z
        BY <3>1, <3>2
      <3>4. d.size \in Nat
        BY <2>5 DEF Definition
      <3> QED
        BY <3>3, <3>4
    <2>9. d.value = AlignUp(e[k], v)
      BY <2>0, <2>1, <2>4
    <2>10. d = [source |-> d.source, bind |-> d.bind, place |-> d.place, size |-> d.size,
                value |-> d.value]
      BY <2>5 DEF Definition
    <2> QED
      BY <2>0, <2>1, <2>4, <2>6, <2>7, <2>8, <2>9, <2>10 DEF Storage
  <1>10. ASSUME NEW n \in Names, StrongsOf(stream, n) = {}, CommonsOf(stream, n) = {},
                NEW i \in WeaksOf(stream, n), \A j \in WeaksOf(stream, n) : i <= j
         PROVE  definitions[n] = From(stream, i)
    <2>1. n \in DOMAIN definitions
      BY <1>7 DEF WeaksOf
    <2>2. PICK d : d = definitions[n]
      OBVIOUS
    <2>3. /\ d \in Definition /\ Binding(n, d) /\ Strong(n) = {} /\ Commons(n) = {}
          /\ d.place = "allocated" <=> d.place # "section"
      BY <1>2, <1>6, <1>10, <2>1, <2>2
    <2>4. d.place = "section" /\ d.bind = "weak"
      BY <2>3 DEF Binding, SizeOfCommon, StrongBinding, Definition
    <2>5. d.source \in WeaksOf(stream, n) /\ \A j \in WeaksOf(stream, n) : d.source <= j
      BY <1>2, <2>3, <2>4 DEF Binding, WeakBinding
    <2>6. d.source <= i /\ i <= d.source /\ d.source \in Nat /\ i \in Nat
      BY <1>1, <1>10, <2>3, <2>5, LenProperties DEF Definition, ResolveTypeOK, WeaksOf, SymbolsOf
    <2>7. d.source = i
      BY <2>6
    <2> QED
      BY <1>6, <2>1, <2>2, <2>4, <2>7 DEF Faithful
  <1>11. BindsAs(stream, definitions, e)
    BY <1>7, <1>8, <1>9, <1>10 DEF BindsAs
  <1> QED
    BY <1>1, <1>4, <1>5, <1>11 DEF Resolves


LEMMA OutcomeInvariance == ResolveSpec => [](ResolveInv /\ OutcomeInv)
  BY BeginsFresh, FreshHasNoOutcome, OutcomeStep, ResolveInvariance, PTL DEF ResolveSpec

(* What becomes of a stream is settled by the stream alone: it is refused  *)
(* only for a symbol, a pair of strong definitions or commons that call    *)
(* for it, and otherwise every name is bound as its definitions, and the   *)
(* commons before it in name order, say (resolve_symbols_with_common).     *)
THEOREM OutcomeIsDetermined ==
    ResolveSpec => [](/\ phase = "done"   => Resolves(stream, definitions)
                      /\ phase = "failed" => Rejects(stream))
  <1>1. ResolveInv /\ OutcomeInv => /\ phase = "done"   => Resolves(stream, definitions)
                                    /\ phase = "failed" => Rejects(stream)
    BY DoneResolves DEF OutcomeInv, ScanOutcome
  <1> QED
    BY <1>1, OutcomeInvariance, PTL

-----------------------------------------------------------------------------
(* Two streams that say the same of every name: w gives for each symbol of *)
(* t the place in s that it comes from.                                    *)
Alike(s, t, w) ==
    \A n \in Names :
      /\ SymbolsOf(s, n) = {} <=> SymbolsOf(t, n) = {}
      /\ StrongsOf(t, n) = {} => StrongsOf(s, n) = {}
      /\ \A j \in StrongsOf(t, n) : w[j] \in StrongsOf(s, n) /\ s[w[j]] = t[j] /\ j # 0
      /\ \A z, v \in Nat : Asked(s, n, z, v) <=> Asked(t, n, z, v)
      /\ (StrongsOf(t, n) = {} /\ CommonsOf(t, n) = {}) =>
            /\ CommonsOf(s, n) = {}
            /\ WeaksOf(t, n) # {} => \E j \in WeaksOf(t, n) :
                 /\ \A i \in WeaksOf(t, n) : j <= i
                 /\ w[j] \in WeaksOf(s, n) /\ s[w[j]] = t[j] /\ j # 0
                 /\ \A i \in WeaksOf(s, n) : w[j] <= i

LEMMA SameEnds ==
  ASSUME NEW s, NEW t, NEW e, NEW p \in Nat, p <= Len(NameOrder) + 1,
         \A n \in Names : \A z, v \in Nat : Asked(s, n, z, v) <=> Asked(t, n, z, v),
         Ends(s, e, p)
  PROVE  Ends(t, e, p)
  <1> SUFFICES ASSUME NEW k \in 1 .. p - 1 PROVE EndsAt(t, NameOrder[k], e[k], e[k + 1])
    BY DEF Ends
  <1>1. NameOrder \in Seq(Names) /\ Len(NameOrder) \in Nat
    BY NameOrderAssumption, LenProperties
  <1>2. k \in 1 .. Len(NameOrder)
    BY <1>1
  <1>3. PICK n \in Names : n = NameOrder[k]
    BY <1>1, <1>2, ElementOfSeq
  <1>4. EndsAt(s, n, e[k], e[k + 1])
    BY <1>3 DEF Ends
  <1>5. EndsAt(t, n, e[k], e[k + 1])
    BY <1>4 DEF EndsAt
  <1> QED
    BY <1>3, <1>5

LEMMA SameOverflow ==
  ASSUME NEW s, NEW t,
         \A n \in Names : \A z, v \in Nat : Asked(s, n, z, v) <=> Asked(t, n, z, v),
         Overflows(s)
  PROVE  Overflows(t)
  <1>1. PICK p \in 1 .. Len(NameOrder), z \in Nat, v \in Nat :
           \E e : Ends(s, e, p) /\ Asked(s, NameOrder[p], z, v) /\ ~Fits(e[p], z, v)
    BY DEF Overflows
  <1>2. PICK e : Ends(s, e, p) /\ Asked(s, NameOrder[p], z, v) /\ ~Fits(e[p], z, v)
    BY <1>1
  <1>3. NameOrder \in Seq(Names) /\ Len(NameOrder) \in Nat
    BY NameOrderAssumption, LenProperties
  <1>4. NameOrder[p] \in Names /\ p \in Nat /\ p <= Len(NameOrder) + 1
    BY <1>3, ElementOfSeq
  <1>5. Ends(t, e, p) /\ Asked(t, NameOrder[p], z, v)
    BY <1>2, <1>4, SameEnds
  <1> QED
    BY <1>2, <1>5 DEF Overflows

(* Their names are bound to the same definitions.                          *)
BoundAlike(D, E, w) ==
    /\ DOMAIN D = DOMAIN E
    /\ \A n \in DOMAIN E : D[n] = [E[n] EXCEPT !.source = IF @ = 0 THEN 0 ELSE w[@]]

LEMMA AlikeBindAlike ==
  ASSUME NEW s \in Seq(Candidate), NEW t \in Seq(Candidate), NEW w, NEW D, NEW E,
         Resolves(s, D), Resolves(t, E), Alike(s, t, w)
  PROVE  BoundAlike(D, E, w)
  <1>1. PICK e : Ends(s, e, Len(NameOrder) + 1) /\ BindsAs(s, D, e)
    BY DEF Resolves
  <1>2. PICK f : Ends(t, f, Len(NameOrder) + 1) /\ BindsAs(t, E, f)
    BY DEF Resolves
  <1>3. Len(NameOrder) \in Nat /\ DOMAIN NameOrder = 1 .. Len(NameOrder)
    BY NameOrderAssumption, LenProperties
  <1>4. \A k \in DOMAIN NameOrder : e[k] = f[k]
    <2>1. Ends(t, e, Len(NameOrder) + 1)
      BY <1>1, <1>3, SameEnds DEF Alike
    <2>2. Len(NameOrder) + 1 \in Nat \ {0}
      BY <1>3
    <2>3. \A k \in 1 .. Len(NameOrder) + 1 : e[k] = f[k]
      BY <1>2, <2>1, <2>2, EndsInOneWay
    <2> QED
      BY <1>3, <2>3
  <1>5. DOMAIN D = {n \in Names : SymbolsOf(s, n) # {}} /\ DOMAIN E = {n \in Names : SymbolsOf(t, n) # {}}
    BY <1>1, <1>2 DEF BindsAs
  <1>6. DOMAIN D = DOMAIN E
    BY <1>5 DEF Alike
  <1>7. ASSUME NEW n \in DOMAIN E
        PROVE  D[n] = [E[n] EXCEPT !.source = IF @ = 0 THEN 0 ELSE w[@]]
    <2>0. n \in Names
      BY <1>5
    <2>1. CASE StrongsOf(t, n) # {}
      <3>1. PICK j \in StrongsOf(t, n) : TRUE
        BY <2>1
      <3>2. w[j] \in StrongsOf(s, n) /\ s[w[j]] = t[j] /\ j # 0
        BY <2>0 DEF Alike
      <3>3. D[n] = From(s, w[j]) /\ E[n] = From(t, j)
        BY <1>1, <1>2, <2>0, <3>2 DEF BindsAs
      <3> QED
        BY <3>2, <3>3 DEF From
    <2>2. CASE Tentative(t, n)
      <3>1. PICK k \in DOMAIN NameOrder : NameOrder[k] = n
        BY <2>0, NameOrderAssumption
      <3>2. PICK z, v \in Nat : Asked(t, n, z, v) /\ E[n] = Storage(z, AlignUp(f[k], v))
        BY <1>2, <2>2, <3>1 DEF BindsAs
      <3>3. Asked(s, n, z, v)
        BY <2>0, <3>2 DEF Alike
      <3>4. Tentative(s, n)
        BY <3>3 DEF Asked, Tentative
      <3>5. PICK y, x \in Nat : Asked(s, n, y, x) /\ D[n] = Storage(y, AlignUp(e[k], x))
        BY <1>1, <3>1, <3>4 DEF BindsAs
      <3>6. y = z /\ x = v
        BY <3>3, <3>5, AskedOnce
      <3>7. D[n] = E[n] /\ E[n] = Storage(z, AlignUp(f[k], v))
        BY <1>4, <3>2, <3>5, <3>6
      <3> QED
        BY <3>7 DEF Storage
    <2>3. CASE StrongsOf(t, n) = {} /\ CommonsOf(t, n) = {}
      <3>1. WeaksOf(t, n) # {}
        <4>1. PICK j \in SymbolsOf(t, n) : TRUE
          BY <1>5
        <4>2. j \in 1 .. Len(t)
          BY LenProperties DEF SymbolsOf
        <4>3. t[j] \in Candidate /\ Defines(t[j])
          BY <4>2, ElementOfSeq DEF SymbolsOf
        <4>4. t[j].place \in {"section", "common"} /\ t[j].bind \in {"global", "weak"}
          BY <4>3 DEF Candidate, Defines, Nonlocal
        <4> QED
          BY <2>3, <4>1, <4>4 DEF StrongsOf, CommonsOf, WeaksOf
      <3>2. PICK j \in WeaksOf(t, n) :
                 /\ \A i \in WeaksOf(t, n) : j <= i
                 /\ w[j] \in WeaksOf(s, n) /\ s[w[j]] = t[j] /\ j # 0
                 /\ \A i \in WeaksOf(s, n) : w[j] <= i
        BY <2>0, <2>3, <3>1 DEF Alike
      <3>3. StrongsOf(s, n) = {} /\ CommonsOf(s, n) = {}
        BY <2>0, <2>3 DEF Alike
      <3>4. D[n] = From(s, w[j])
        BY <1>1, <2>0, <3>2, <3>3 DEF BindsAs
      <3>5. E[n] = From(t, j)
        BY <1>2, <2>0, <2>3, <3>2 DEF BindsAs
      <3> QED
        BY <3>2, <3>4, <3>5 DEF From
    <2> QED
      BY <2>1, <2>2, <2>3 DEF Tentative
  <1> QED
    BY <1>6, <1>7 DEF BoundAlike
-----------------------------------------------------------------------------
(* The partial link, and the link of what it leaves.                       *)

(* What the collection makes of the symbol at the place i of the input, and*)
(* the places of the symbols it hands on to the merge.                     *)
DropsAt(i) == Lost(i) /\ (input[i].bind = "local" \/ "needed" \notin marks[i])
KeptAt(i)  == IF Lost(i) THEN Reference(input[i].name, input[i].bind) ELSE input[i]
TakenTo(m) == {i \in 1 .. m : Nonlocal(input[i]) /\ ~DropsAt(i)}

(* The first m symbols of the input are collected: pending has them in     *)
(* their order, and behind them the forced names no one mentions.          *)
PendingFrom(m) ==
    /\ \A i \in 1 .. m : input[i].bind # "unique"
    /\ \A i \in TakenTo(m) : \E k \in DOMAIN pending : pending[k].source = i
    /\ \A k \in DOMAIN pending :
         /\ Nonlocal(pending[k].symbol)
         /\ pending[k].source # 0 => /\ pending[k].source \in TakenTo(m)
                                     /\ pending[k].symbol = KeptAt(pending[k].source)
         /\ pending[k].source = 0 =>
              /\ pending[k].symbol = Reference(pending[k].symbol.name, "global")
              /\ pending[k].symbol.name # NoName
              /\ \A i \in TakenTo(m) : input[i].name # pending[k].symbol.name
    /\ \A j, k \in DOMAIN pending :
         j < k /\ pending[k].source # 0 => pending[j].source \in 1 .. pending[k].source - 1

(* The ranks of a symbol.                                                  *)
StrongSymbol(s) == s.place = "section" /\ s.bind = "global"
WeakSymbol(s)   == s.place = "section" /\ s.bind = "weak"
CommonSymbol(s) == s.place = "common"

(* The pending symbols of the entry e among the first m.                   *)
Kin(e, m) == {k \in 1 .. m : /\ pending[k].symbol.name = e.symbol.name
                             /\ e.symbol.name = NoName => pending[k].source \in e.sources}

FromOne(e, k) == pending[k].symbol = e.symbol /\ pending[k].source = e.source

(* The entry e has the symbol that ranks highest in K.                     *)
StrongWins(e, K) ==
    StrongSymbol(e.symbol) =>
        \E k \in K : FromOne(e, k) /\ \A j \in K : StrongSymbol(pending[j].symbol) => j = k
CommonWins(e, K) ==
    CommonSymbol(e.symbol) =>
        /\ e.symbol.bind = "global"
        /\ \A k \in K : ~StrongSymbol(pending[k].symbol)
        /\ \E k \in K : CommonSymbol(pending[k].symbol) /\ pending[k].source = e.source
        /\ \E k \in K : CommonSymbol(pending[k].symbol) /\ pending[k].symbol.size = e.symbol.size
        /\ \E k \in K : CommonSymbol(pending[k].symbol) /\ pending[k].symbol.value = e.symbol.value
        /\ \A k \in K : CommonSymbol(pending[k].symbol) =>
              /\ pending[k].symbol.size <= e.symbol.size
              /\ pending[k].symbol.value <= e.symbol.value
WeakWins(e, K) ==
    WeakSymbol(e.symbol) =>
        /\ \A k \in K : ~StrongSymbol(pending[k].symbol) /\ ~CommonSymbol(pending[k].symbol)
        /\ \E k \in K : FromOne(e, k) /\ \A j \in K : WeakSymbol(pending[j].symbol) => k <= j
ReferenceWins(e, K) ==
    e.symbol.place = "undef" =>
        /\ \A k \in K : pending[k].symbol.place = "undef"
        /\ \E k \in K : FromOne(e, k)
        /\ e.symbol.bind = "weak" => \A k \in K : pending[k].symbol.bind = "weak"
Wins(e, K) ==
    /\ Nonlocal(e.symbol)
    /\ StrongWins(e, K) /\ CommonWins(e, K) /\ WeakWins(e, K) /\ ReferenceWins(e, K)

(* The first m pending symbols are merged.                                 *)
MergedTo(m) ==
    /\ \A k \in 1 .. m : ~Refused(pending[k].symbol)
    /\ \A c, d \in DOMAIN canonical :
         canonical[c].symbol.name = canonical[d].symbol.name =>
             c = d \/ canonical[c].symbol.name = NoName
    /\ \A c, d \in DOMAIN canonical :
         c # d => \A s \in canonical[c].sources : s \notin canonical[d].sources
    /\ \A c \in DOMAIN canonical : canonical[c].symbol.name = NoName =>
         \A s, t \in canonical[c].sources : s = t
    /\ \A k \in 1 .. m : \E c \in DOMAIN canonical :
         /\ canonical[c].symbol.name = pending[k].symbol.name
         /\ pending[k].source # 0 => pending[k].source \in canonical[c].sources
    /\ \A c \in DOMAIN canonical :
         /\ Wins(canonical[c], Kin(canonical[c], m))
         /\ \A s \in canonical[c].sources :
               s # 0 /\ \E k \in Kin(canonical[c], m) : pending[k].source = s

(* The first m forced names have a symbol, and the symbols that come from  *)
(* no input are forced.                                                    *)
ForcedTo(m) ==
    /\ \A j \in 1 .. m : /\ forced[j] # NoName
                        /\ \E k \in DOMAIN pending : pending[k].symbol.name = forced[j]
    /\ \A k \in DOMAIN pending :
          pending[k].source = 0 => \E j \in DOMAIN forced : pending[k].symbol.name = forced[j]

(* The grounds on which a partial link refuses its inputs.                 *)
Refusable ==
    \/ \E i \in DOMAIN input : \/ marks[i] # {} \/ input[i].bind = "unique"
                               \/ Nonlocal(input[i]) /\ Refused(input[i])
    \/ \E j \in DOMAIN forced : forced[j] = NoName
    \/ \E i, j \in DOMAIN input :
          /\ i # j /\ StrongSymbol(input[i]) /\ StrongSymbol(input[j])
          /\ input[i].name = input[j].name /\ input[i].name # NoName

PartTypeOK ==
    /\ input \in Seq(Candidate) /\ forced \in Seq(Names \cup {NoName})
    /\ locals \in Seq(DOMAIN input) /\ pending \in Seq(Pending) /\ canonical \in Seq(Canonical)
    /\ pos \in Nat \ {0}
    /\ stage \in {"collect", "force", "merge", "emitted", "refused"}

PartInv ==
    /\ PartTypeOK
    /\ \A k \in DOMAIN locals : input[locals[k]].bind = "local"
    /\ stage = "collect" => /\ pos <= Len(input) + 1 /\ PendingFrom(pos - 1)
                            /\ \A k \in DOMAIN pending : pending[k].source # 0
    /\ stage \in {"collect", "force"} => canonical = <<>>
    /\ stage \in {"force", "merge", "emitted"} => PendingFrom(Len(input))
    /\ stage = "force" => pos <= Len(forced) + 1 /\ ForcedTo(pos - 1)
    /\ stage \in {"merge", "emitted"} => ForcedTo(Len(forced))
    /\ stage = "refused" => Refusable
    /\ stage = "merge" => \E m \in 0 .. Len(pending) : pos = m + 1 /\ MergedTo(m)
    /\ stage = "emitted" => MergedTo(Len(pending))

-----------------------------------------------------------------------------
(* The collection.                                                         *)
LEMMA CollectedStays ==
  ASSUME UNCHANGED <<input, marks>>
  PROVE  /\ \A i : DropsAt(i)' = DropsAt(i) /\ KeptAt(i)' = KeptAt(i)
         /\ \A m : TakenTo(m)' = TakenTo(m)
  <1>1. \A i : Lost(i)' = Lost(i)
    BY DEF Lost
  <1>2. \A i : DropsAt(i)' = DropsAt(i) /\ KeptAt(i)' = KeptAt(i)
    BY <1>1 DEF DropsAt, KeptAt
  <1> QED
    BY <1>2 DEF TakenTo

LEMMA PendingStays ==
  ASSUME UNCHANGED <<input, marks, pending>>, NEW m, PendingFrom(m)
  PROVE  PendingFrom(m)'
  <1>1. \A i : KeptAt(i)' = KeptAt(i)
    BY CollectedStays
  <1>2. TakenTo(m)' = TakenTo(m)
    BY CollectedStays
  <1> QED
    BY <1>1, <1>2 DEF PendingFrom

LEMMA KinStays ==
  ASSUME UNCHANGED pending, NEW e, NEW m, NEW K
  PROVE  Kin(e, m)' = Kin(e, m) /\ (Wins(e, K)' = Wins(e, K))
  BY DEF Kin, Wins, StrongWins, CommonWins, WeakWins, ReferenceWins, FromOne

LEMMA ForcedStays ==
  ASSUME UNCHANGED <<forced, pending>>, NEW m, ForcedTo(m)
  PROVE  ForcedTo(m)'
  BY DEF ForcedTo

LEMMA MergedStays ==
  ASSUME UNCHANGED <<pending, canonical>>, NEW m, MergedTo(m)
  PROVE  MergedTo(m)'
  <1>1. \A e : Kin(e, m)' = Kin(e, m)
    BY KinStays
  <1>2. \A e, K : Wins(e, K)' = Wins(e, K)
    BY KinStays
  <1> QED
    BY <1>1, <1>2 DEF MergedTo

LEMMA InputIsCandidate ==
  ASSUME PartTypeOK, NEW i \in DOMAIN input
  PROVE  /\ input[i] \in Candidate /\ i \in Nat \ {0} /\ i \in 1 .. Len(input)
         /\ KeptAt(i) \in Candidate /\ KeptAt(i).name = input[i].name
         /\ KeptAt(i).bind = input[i].bind
  <1>1. input[i] \in Candidate /\ i \in 1 .. Len(input) /\ Len(input) \in Nat
    BY ElementOfSeq, LenProperties DEF PartTypeOK
  <1>2. Reference(input[i].name, input[i].bind) \in Candidate
    BY <1>1 DEF Reference, Candidate
  <1> QED
    BY <1>1, <1>2 DEF KeptAt, Reference

LEMMA CollectSymbolStep == PartInv /\ CollectSymbol => PartInv'
  <1> SUFFICES ASSUME PartInv, CollectSymbol
               PROVE  PartInv'
    OBVIOUS
  <1>1. /\ pos \in DOMAIN input /\ stage = "collect" /\ Grounds = "none" /\ pos' = pos + 1
        /\ UNCHANGED <<input, marks, forced, canonical, stage, reason>>
        /\ PartTypeOK /\ PendingFrom(pos - 1) /\ canonical = <<>>
        /\ \A k \in DOMAIN pending : pending[k].source # 0
        /\ \A k \in DOMAIN locals : input[locals[k]].bind = "local"
    BY DEF PartInv, CollectSymbol, Collecting
  <1>2. /\ Input = input[pos] /\ input[pos] \in Candidate /\ pos \in Nat \ {0}
        /\ pos \in 1 .. Len(input) /\ Len(input) \in Nat /\ KeptAt(pos) \in Candidate
        /\ KeptAt(pos).bind = input[pos].bind
    BY <1>1, InputIsCandidate, LenProperties DEF Input, PartTypeOK
  <1>3. Dropped = DropsAt(pos) /\ Kept = KeptAt(pos)
    BY DEF Dropped, DropsAt, Kept, DefinitionIfPlaced, KeptAt, Has, Input
  <1>4. input[pos].bind # "unique"
    BY <1>1, <1>2 DEF Grounds
  <1>5. PICK q \in Nat : q = pos /\ q # 0
    BY <1>2
  <1>6. PICK m \in Nat : m = q - 1 /\ q = m + 1
    BY <1>5
  <1>7. 1 .. q = 1 .. m \cup {q} /\ q \notin 1 .. m
    BY <1>6
  <1>8. /\ Len(pending) \in Nat /\ pending \in Seq(Pending) /\ DOMAIN pending = 1 .. Len(pending)
        /\ locals \in Seq(DOMAIN input) /\ Len(locals) \in Nat
        /\ DOMAIN locals = 1 .. Len(locals)
    BY <1>1, LenProperties DEF PartTypeOK
  <1>9. locals' \in Seq(DOMAIN input) /\ \A k \in DOMAIN locals' : input[locals'[k]].bind = "local"
    <2>1. CASE input[pos].bind = "local" /\ ~DropsAt(pos)
      <3>1. locals' = Append(locals, pos)
        BY <1>2, <1>3, <2>1 DEF CollectSymbol
      <3>2. /\ locals' \in Seq(DOMAIN input) /\ DOMAIN locals' = 1 .. Len(locals) + 1
            /\ \A k \in 1 .. Len(locals) : locals'[k] = locals[k]
            /\ locals'[Len(locals) + 1] = pos
        BY <1>1, <1>8, <3>1, AppendProperties, LenProperties
      <3> QED
        BY <1>1, <1>8, <2>1, <3>2
    <2>2. CASE ~(input[pos].bind = "local" /\ ~DropsAt(pos))
      BY <1>1, <1>2, <1>3, <1>8, <2>2 DEF CollectSymbol
    <2> QED
      BY <2>1, <2>2
  <1>10. \A i \in 1 .. q : input[i].bind # "unique"
    BY <1>1, <1>4, <1>5, <1>6, <1>7 DEF PendingFrom
  <1>11. PendingFrom(m)
    BY <1>1, <1>5, <1>6
  <1>12. /\ pending' \in Seq(Pending) /\ PendingFrom(q)'
         /\ \A k \in DOMAIN pending' : pending'[k].source # 0
    <2>1. CASE ~(Nonlocal(input[q]) /\ ~DropsAt(q))
      <3>1. UNCHANGED pending /\ TakenTo(q) = TakenTo(m)
        BY <1>2, <1>3, <1>5, <1>7, <2>1 DEF CollectSymbol, TakenTo
      <3>2. PendingFrom(q)
        BY <1>10, <1>11, <3>1 DEF PendingFrom
      <3> QED
        BY <1>1, <1>8, <3>1, <3>2, PendingStays
    <2>2. CASE Nonlocal(input[q]) /\ ~DropsAt(q)
      <3> DEFINE p == [symbol |-> KeptAt(q), source |-> q]
      <3>1. p \in Pending /\ pending' = Append(pending, p)
        BY <1>2, <1>3, <1>5, <2>2 DEF CollectSymbol, Pending
      <3>2. TakenTo(q) = TakenTo(m) \cup {q}
        BY <1>7, <2>2 DEF TakenTo
      <3>3. PICK n \in Nat : n = Len(pending)
        BY <1>8
      <3>4. /\ pending' \in Seq(Pending) /\ DOMAIN pending' = 1 .. n + 1
            /\ \A k \in 1 .. n : pending'[k] = pending[k]
            /\ pending'[n + 1] = p
        BY <1>8, <3>1, <3>3, AppendProperties, LenProperties
      <3>5. PICK T, S : T = TakenTo(m) /\ S = TakenTo(q)
        OBVIOUS
      <3>6. S = T \cup {q} /\ T \subseteq 1 .. m
        BY <3>2, <3>5 DEF TakenTo
      <3>7. TakenTo(q)' = S
        BY <1>1, <3>5, CollectedStays
      <3>8. PICK f : f = [i \in S |-> KeptAt(i)]
        OBVIOUS
      <3>9. \A i \in S : f[i] = KeptAt(i) /\ KeptAt(i)' = f[i]
        BY <1>1, <3>8, CollectedStays
      <3>10. \A i \in 1 .. q : input'[i].bind # "unique"
        BY <1>1, <1>10
      <3>11. \A i \in S : \E k \in DOMAIN pending' : pending'[k].source = i
        BY <1>8, <1>11, <3>3, <3>4, <3>5, <3>6 DEF PendingFrom
      <3>12. Nonlocal(p.symbol) /\ p.source = q /\ p.symbol = f[q] /\ q \in S
        BY <1>2, <1>5, <2>2, <3>6, <3>9 DEF Nonlocal
      <3> HIDE DEF p
      <3>13. \A k \in 1 .. n : /\ Nonlocal(pending[k].symbol) /\ pending[k].source # 0
                               /\ pending[k].source \in T
                               /\ pending[k].symbol = f[pending[k].source]
        BY <1>1, <1>8, <1>11, <3>3, <3>5, <3>6, <3>9 DEF PendingFrom
      <3>14. \A k \in DOMAIN pending' :
                /\ Nonlocal(pending'[k].symbol) /\ pending'[k].source # 0
                /\ pending'[k].source \in S
                /\ pending'[k].symbol = f[pending'[k].source]
        <4> SUFFICES ASSUME NEW k \in DOMAIN pending'
                     PROVE  /\ Nonlocal(pending'[k].symbol) /\ pending'[k].source # 0
                            /\ pending'[k].source \in S
                            /\ pending'[k].symbol = f[pending'[k].source]
          OBVIOUS
        <4>1. k \in 1 .. n \/ k = n + 1
          BY <3>4
        <4> QED
          BY <1>5, <3>4, <3>6, <3>12, <3>13, <4>1
      <3>15. \A j, k \in DOMAIN pending' :
                j < k => pending'[j].source \in 1 .. pending'[k].source - 1
        <4> SUFFICES ASSUME NEW j \in 1 .. n + 1, NEW k \in 1 .. n + 1, j < k
                     PROVE  pending'[j].source \in 1 .. pending'[k].source - 1
          BY <3>4
        <4>1. CASE k \in 1 .. n
          <5>1. j \in 1 .. n /\ pending'[j] = pending[j] /\ pending'[k] = pending[k]
            BY <3>4, <4>1
          <5>2. j \in DOMAIN pending /\ k \in DOMAIN pending /\ pending[k].source # 0
            BY <1>8, <3>3, <3>13, <4>1, <5>1
          <5>3. pending[j].source \in 1 .. pending[k].source - 1
            BY <1>11, <5>2 DEF PendingFrom
          <5> QED
            BY <5>1, <5>3
        <4>2. CASE k = n + 1
          <5>1. j \in 1 .. n
            BY <4>2
          <5>2. pending'[j].source \in 1 .. m
            BY <3>4, <3>6, <3>13, <5>1
          <5> QED
            BY <1>6, <3>4, <3>12, <4>2, <5>2
        <4> QED
          BY <4>1, <4>2
      <3>16. PendingFrom(q)'
        BY <3>7, <3>9, <3>10, <3>11, <3>14, <3>15 DEF PendingFrom, Nonlocal
      <3> QED
        BY <3>4, <3>14, <3>16
    <2> QED
      BY <2>1, <2>2
  <1>13. PartTypeOK'
    BY <1>1, <1>2, <1>9, <1>12 DEF PartTypeOK
  <1>14. PendingFrom(pos - 1)' /\ pos' <= Len(input)' + 1
    <2>1. pos' - 1 = q /\ pos' <= Len(input) + 1
      BY <1>1, <1>2, <1>5
    <2> QED
      BY <1>1, <1>12, <2>1 DEF PendingFrom, TakenTo, DropsAt, KeptAt, Lost
  <1> QED
    BY <1>1, <1>9, <1>12, <1>13, <1>14 DEF PartInv

LEMMA PendingTypes ==
  ASSUME PartInv
  PROVE  /\ input \in Seq(Candidate) /\ Len(input) \in Nat /\ DOMAIN input = 1 .. Len(input)
         /\ pending \in Seq(Pending) /\ Len(pending) \in Nat /\ DOMAIN pending = 1 .. Len(pending)
         /\ forced \in Seq(Names \cup {NoName}) /\ Len(forced) \in Nat
         /\ DOMAIN forced = 1 .. Len(forced)
         /\ canonical \in Seq(Canonical) /\ Len(canonical) \in Nat
         /\ DOMAIN canonical = 1 .. Len(canonical)
         /\ pos \in Nat \ {0}
  BY LenProperties DEF PartInv, PartTypeOK

LEMMA EntryType ==
  ASSUME PartInv, NEW c \in DOMAIN canonical
  PROVE  canonical[c] \in Canonical /\ canonical[c].symbol \in Candidate
  <1>1. canonical \in Seq(Canonical) /\ c \in 1 .. Len(canonical)
    BY PendingTypes
  <1>2. canonical[c] \in Canonical
    BY <1>1, ElementOfSeq
  <1> QED
    BY <1>2 DEF Canonical

LEMMA RefuseSymbolStep == PartInv /\ RefuseSymbol => PartInv'
  <1> SUFFICES ASSUME PartInv, RefuseSymbol
               PROVE  PartInv'
    OBVIOUS
  <1>1. /\ pos \in DOMAIN input /\ Grounds # "none" /\ stage' = "refused"
        /\ UNCHANGED <<input, marks, forced, pos, locals, pending, canonical>>
        /\ PartTypeOK /\ \A k \in DOMAIN locals : input[locals[k]].bind = "local"
    BY DEF RefuseSymbol, Collecting, Refuse, PartInv
  <1>2. input[pos].bind = "unique" \/ marks[pos] # {}
    BY <1>1 DEF Grounds, Has, Input
  <1>3. Refusable'
    BY <1>1, <1>2 DEF Refusable
  <1>4. PartTypeOK'
    BY <1>1 DEF PartTypeOK
  <1> QED
    BY <1>1, <1>3, <1>4 DEF PartInv

LEMMA EndCollectStep == PartInv /\ EndCollect => PartInv'
  <1> SUFFICES ASSUME PartInv, EndCollect
               PROVE  PartInv'
    OBVIOUS
  <1>1. /\ stage = "collect" /\ pos > Len(input) /\ stage' = "force" /\ pos' = 1
        /\ UNCHANGED <<input, marks, forced, locals, pending, canonical>>
        /\ PartTypeOK /\ \A k \in DOMAIN locals : input[locals[k]].bind = "local"
        /\ pos <= Len(input) + 1 /\ PendingFrom(pos - 1) /\ canonical = <<>>
        /\ \A k \in DOMAIN pending : pending[k].source # 0
    BY DEF EndCollect, PartInv
  <1>2. PICK n \in Nat : n = Len(input)
    BY PendingTypes
  <1>3. pos - 1 = n /\ PendingFrom(n)
    BY <1>1, <1>2, PendingTypes
  <1>4. PendingFrom(n)' /\ n = Len(input)'
    BY <1>1, <1>2, <1>3, PendingStays
  <1>5. PendingFrom(Len(input))'
    BY <1>4 DEF PendingFrom, TakenTo
  <1>6. ForcedTo(pos - 1)' /\ pos' <= Len(forced)' + 1
    BY <1>1, PendingTypes DEF ForcedTo
  <1>7. PartTypeOK'
    BY <1>1 DEF PartTypeOK
  <1> QED
    BY <1>1, <1>5, <1>6, <1>7 DEF PartInv

LEMMA ForceNameStep == PartInv /\ ForceName => PartInv'
  <1> SUFFICES ASSUME PartInv, ForceName
               PROVE  PartInv'
    OBVIOUS
  <1>1. /\ stage = "force" /\ pos \in DOMAIN forced /\ UNCHANGED <<input, marks, forced, locals, canonical>>
        /\ PartTypeOK /\ \A k \in DOMAIN locals : input[locals[k]].bind = "local"
        /\ canonical = <<>> /\ PendingFrom(Len(input)) /\ ForcedTo(pos - 1)
    BY DEF ForceName, PartInv, Refuse
  <1>2. CASE forced[pos] = NoName
    <2>1. stage' = "refused" /\ UNCHANGED <<pos, pending>>
      BY <1>2 DEF ForceName, Refuse
    <2>2. Refusable'
      BY <1>1, <1>2, <2>1 DEF Refusable
    <2>3. PartTypeOK'
      BY <1>1, <2>1 DEF PartTypeOK
    <2> QED
      BY <1>1, <2>1, <2>2, <2>3 DEF PartInv
  <1>3. CASE forced[pos] # NoName
    <2>1. /\ stage' = "force" /\ pos' = pos + 1
          /\ pending' = IF forced[pos] \in Mentioned THEN pending
                        ELSE Append(pending, [symbol |-> Reference(forced[pos], "global"),
                                              source |-> 0])
      BY <1>1, <1>3 DEF ForceName
    <2>2. PICK n \in Nat, q \in Nat : n = Len(pending) /\ q = pos /\ q # 0
      BY PendingTypes
    <2> q - 1 \in Nat /\ Len(input) \in Nat
      BY <2>2, PendingTypes
    <2>3. PICK m \in Nat, z \in Nat : m = q - 1 /\ q = m + 1 /\ z = Len(input)
      OBVIOUS
    <2>4. /\ DOMAIN pending = 1 .. n /\ pending \in Seq(Pending) /\ q \in 1 .. Len(forced)
          /\ forced \in Seq(Names \cup {NoName}) /\ forced[q] \in Names \cup {NoName}
          /\ DOMAIN forced = 1 .. Len(forced) /\ Len(forced) \in Nat
      BY <1>1, <2>2, PendingTypes, ElementOfSeq
    <2>5. PendingFrom(z) /\ ForcedTo(m) /\ pos - 1 = m
      BY <1>1, <2>2, <2>3
    <2>6. /\ pending' \in Seq(Pending) /\ PendingFrom(z)' /\ ForcedTo(q)'
      <3>1. CASE forced[pos] \in Mentioned
        <4>1. UNCHANGED pending
          BY <2>1, <3>1
        <4>2. \E k \in DOMAIN pending : pending[k].symbol.name = forced[q]
          BY <2>2, <3>1 DEF Mentioned
        <4>3. \A j \in 1 .. q : j \in 1 .. m \/ j = q
          BY <2>3
        <4>4. ForcedTo(q)
          BY <1>3, <2>2, <2>5, <4>2, <4>3 DEF ForcedTo
        <4> QED
          BY <1>1, <2>4, <2>5, <4>1, <4>4, PendingStays, ForcedStays
      <3>2. CASE forced[pos] \notin Mentioned
        <4> DEFINE p == [symbol |-> Reference(forced[q], "global"), source |-> 0]
        <4>1. p \in Pending /\ pending' = Append(pending, p)
          BY <2>1, <2>2, <2>4, <3>2 DEF Reference, Pending, Candidate
        <4>2. /\ pending' \in Seq(Pending) /\ DOMAIN pending' = 1 .. n + 1
              /\ \A k \in 1 .. n : pending'[k] = pending[k]
              /\ pending'[n + 1] = p
          BY <2>2, <2>4, <4>1, AppendProperties, LenProperties
        <4>3. /\ p.source = 0 /\ p.symbol = Reference(p.symbol.name, "global")
              /\ p.symbol.name = forced[q] /\ Nonlocal(p.symbol)
          BY DEF Reference, Nonlocal
        <4> HIDE DEF p
        <4>4. \A i \in TakenTo(z) : input[i].name # forced[q]
          <5> SUFFICES ASSUME NEW i \in TakenTo(z)
                       PROVE  input[i].name # forced[q]
            OBVIOUS
          <5>1. i \in DOMAIN input /\ i # 0
            BY <2>3, PendingTypes DEF TakenTo
          <5>2. PICK k \in DOMAIN pending : pending[k].source = i
            BY <2>5 DEF PendingFrom
          <5>3. pending[k].symbol = KeptAt(i) /\ KeptAt(i).name = input[i].name
            BY <1>1, <2>5, <5>1, <5>2, InputIsCandidate DEF PendingFrom
          <5>4. input[i].name \in Mentioned
            BY <5>1, <5>2, <5>3 DEF Mentioned, Real
          <5> QED
            BY <2>2, <3>2, <5>4
        <4>5. PICK T : T = TakenTo(z)
          OBVIOUS
        <4>6. PICK f : f = [i \in T |-> KeptAt(i)]
          OBVIOUS
        <4>7. /\ TakenTo(z)' = T
              /\ \A i \in T : f[i] = KeptAt(i) /\ KeptAt(i)' = f[i]
          BY <1>1, <4>5, <4>6, CollectedStays
        <4>8. \A k \in 1 .. n + 1 : k \in 1 .. n \/ k = n + 1
          OBVIOUS
        <4>9. \A i \in T : \E k \in DOMAIN pending' : pending'[k].source = i
          BY <2>4, <2>5, <4>2, <4>5 DEF PendingFrom
        <4>10. \A k \in DOMAIN pending' :
                 /\ Nonlocal(pending'[k].symbol)
                 /\ pending'[k].source # 0 => /\ pending'[k].source \in T
                                              /\ pending'[k].symbol = f[pending'[k].source]
                 /\ pending'[k].source = 0 =>
                      /\ pending'[k].symbol = Reference(pending'[k].symbol.name, "global")
                      /\ pending'[k].symbol.name # NoName
                      /\ \A i \in T : input[i].name # pending'[k].symbol.name
          <5> SUFFICES ASSUME NEW k \in 1 .. n + 1
                       PROVE
                 /\ Nonlocal(pending'[k].symbol)
                 /\ pending'[k].source # 0 => /\ pending'[k].source \in T
                                              /\ pending'[k].symbol = f[pending'[k].source]
                 /\ pending'[k].source = 0 =>
                      /\ pending'[k].symbol = Reference(pending'[k].symbol.name, "global")
                      /\ pending'[k].symbol.name # NoName
                      /\ \A i \in T : input[i].name # pending'[k].symbol.name
            BY <4>2
          <5>1. CASE k \in 1 .. n
            <6>1. pending'[k] = pending[k] /\ k \in DOMAIN pending
              BY <2>4, <4>2, <5>1
            <6>2. /\ Nonlocal(pending[k].symbol)
                  /\ pending[k].source # 0 => /\ pending[k].source \in T
                                              /\ pending[k].symbol = f[pending[k].source]
                  /\ pending[k].source = 0 =>
                       /\ pending[k].symbol = Reference(pending[k].symbol.name, "global")
                       /\ pending[k].symbol.name # NoName
                       /\ \A i \in T : input[i].name # pending[k].symbol.name
              BY <2>5, <4>5, <4>7, <6>1 DEF PendingFrom
            <6> QED
              BY <6>1, <6>2
          <5>2. CASE k = n + 1
            BY <1>3, <2>2, <4>2, <4>3, <4>4, <4>5, <5>2
          <5> QED
            BY <4>8, <5>1, <5>2
        <4>11. \A j, k \in DOMAIN pending' :
                  j < k /\ pending'[k].source # 0 =>
                      pending'[j].source \in 1 .. pending'[k].source - 1
          <5> SUFFICES ASSUME NEW j \in 1 .. n + 1, NEW k \in 1 .. n + 1, j < k,
                              pending'[k].source # 0
                       PROVE  pending'[j].source \in 1 .. pending'[k].source - 1
            BY <4>2
          <5>1. k \in 1 .. n /\ j \in 1 .. n
            BY <4>2, <4>3, <4>8
          <5>2. pending'[j] = pending[j] /\ pending'[k] = pending[k]
            BY <4>2, <5>1
          <5>3. pending[j].source \in 1 .. pending[k].source - 1
            BY <2>4, <2>5, <5>1, <5>2 DEF PendingFrom
          <5> QED
            BY <5>2, <5>3
        <4>12. PendingFrom(z)'
          <5>1. \A i \in 1 .. z : input'[i].bind # "unique"
            BY <1>1, <2>5 DEF PendingFrom
          <5> QED
            BY <1>1, <4>7, <4>9, <4>10, <4>11, <5>1 DEF PendingFrom, Nonlocal, Reference
        <4>13. ForcedTo(q)'
          <5>1. \A j \in 1 .. q : j \in 1 .. m \/ j = q
            BY <2>3
          <5>2. \A j \in 1 .. q : /\ forced[j] # NoName
                                  /\ \E k \in DOMAIN pending' :
                                        pending'[k].symbol.name = forced[j]
            <6> SUFFICES ASSUME NEW j \in 1 .. q
                         PROVE  /\ forced[j] # NoName
                                /\ \E k \in DOMAIN pending' :
                                      pending'[k].symbol.name = forced[j]
              OBVIOUS
            <6>1. CASE j \in 1 .. m
              <7>1. PICK k \in DOMAIN pending : pending[k].symbol.name = forced[j]
                BY <2>5, <6>1 DEF ForcedTo
              <7>2. k \in DOMAIN pending' /\ pending'[k] = pending[k]
                BY <2>4, <4>2, <7>1
              <7> QED
                BY <2>5, <6>1, <7>1, <7>2 DEF ForcedTo
            <6>2. CASE j = q
              BY <1>3, <2>2, <4>2, <4>3, <6>2
            <6> QED
              BY <5>1, <6>1, <6>2
          <5>3. \A k \in DOMAIN pending' : pending'[k].source = 0 =>
                    \E j \in DOMAIN forced : pending'[k].symbol.name = forced[j]
            <6> SUFFICES ASSUME NEW k \in 1 .. n + 1, pending'[k].source = 0
                         PROVE  \E j \in DOMAIN forced : pending'[k].symbol.name = forced[j]
              BY <4>2
            <6>1. CASE k \in 1 .. n
              <7>1. k \in DOMAIN pending /\ pending'[k] = pending[k]
                BY <2>4, <4>2, <6>1
              <7>2. \E j \in DOMAIN forced : pending[k].symbol.name = forced[j]
                BY <2>5, <6>1, <7>1 DEF ForcedTo
              <7> QED
                BY <7>1, <7>2
            <6>2. CASE k = n + 1
              BY <2>4, <4>2, <4>3, <6>2
            <6> QED
              BY <4>8, <6>1, <6>2
          <5> QED
            BY <1>1, <5>2, <5>3 DEF ForcedTo
        <4> QED
          BY <4>2, <4>12, <4>13
      <3> QED
        BY <3>1, <3>2
    <2>7. PartTypeOK'
      BY <1>1, <2>1, <2>2, <2>6 DEF PartTypeOK
    <2>8. PendingFrom(Len(input))'
      BY <1>1, <2>3, <2>6 DEF PendingFrom, TakenTo
    <2>9. ForcedTo(pos - 1)' /\ pos' <= Len(forced)' + 1
      <3>1. pos' - 1 = q /\ pos' <= Len(forced) + 1
        BY <2>1, <2>2, <2>4
      <3> QED
        BY <1>1, <2>6, <3>1 DEF ForcedTo
    <2> QED
      BY <1>1, <2>1, <2>7, <2>8, <2>9 DEF PartInv
  <1> QED
    BY <1>2, <1>3

LEMMA EndForceStep == PartInv /\ EndForce => PartInv'
  <1> SUFFICES ASSUME PartInv, EndForce
               PROVE  PartInv'
    OBVIOUS
  <1>1. /\ stage = "force" /\ pos > Len(forced) /\ stage' = "merge" /\ pos' = 1
        /\ UNCHANGED <<input, marks, forced, locals, pending, canonical>>
        /\ PartTypeOK /\ \A k \in DOMAIN locals : input[locals[k]].bind = "local"
        /\ PendingFrom(Len(input)) /\ pos <= Len(forced) + 1 /\ ForcedTo(pos - 1)
        /\ canonical = <<>>
    BY DEF EndForce, PartInv
  <1>2. PICK m \in Nat, z \in Nat : m = Len(forced) /\ z = Len(input)
    BY PendingTypes
  <1>3. pos - 1 = m /\ ForcedTo(m) /\ PendingFrom(z)
    BY <1>1, <1>2, PendingTypes
  <1>4. ForcedTo(m)' /\ PendingFrom(z)' /\ m = Len(forced)' /\ z = Len(input)'
    BY <1>1, <1>2, <1>3, PendingStays, ForcedStays
  <1>5. PendingFrom(Len(input))' /\ ForcedTo(Len(forced))'
    BY <1>4 DEF PendingFrom, TakenTo, ForcedTo
  <1>6. \E k \in 0 .. Len(pending)' : pos' = k + 1 /\ MergedTo(k)'
    <2>1. MergedTo(0)'
      BY <1>1 DEF MergedTo
    <2>2. 0 \in 0 .. Len(pending)' /\ pos' = 0 + 1
      BY <1>1, PendingTypes
    <2> QED
      BY <2>1, <2>2
  <1>7. PartTypeOK'
    BY <1>1 DEF PartTypeOK
  <1> QED
    BY <1>1, <1>5, <1>6, <1>7 DEF PartInv


-----------------------------------------------------------------------------
(* The merge.  What is known of the symbol merged next.                    *)
LEMMA MergingFacts ==
  ASSUME PartInv, Merging, NEW q, q = pos
  PROVE  /\ q \in Nat /\ q # 0 /\ q - 1 \in Nat /\ q \in 1 .. Len(pending)
         /\ Symbol = pending[q].symbol /\ Source = pending[q].source
         /\ pending[q] \in Pending /\ Symbol \in Candidate /\ Source \in Nat /\ Nonlocal(Symbol)
         /\ MergedTo(q - 1) /\ PendingFrom(Len(input)) /\ ForcedTo(Len(forced))
         /\ 1 .. q = 1 .. q - 1 \cup {q}
         /\ Symbol.name = NoName => Source # 0
         /\ Source = 0 => Symbol.place = "undef"
         /\ Source # 0 => \A k \in 1 .. q - 1 : pending[k].source \in 1 .. Source - 1
  <1>1. /\ q \in Nat /\ q # 0 /\ q \in 1 .. Len(pending) /\ q \in DOMAIN pending
        /\ pending \in Seq(Pending) /\ DOMAIN pending = 1 .. Len(pending) /\ Len(pending) \in Nat
    BY PendingTypes DEF Merging
  <1>2. pending[q] \in Pending
    BY <1>1, ElementOfSeq
  <1>3. MergedTo(q - 1) /\ PendingFrom(Len(input)) /\ ForcedTo(Len(forced))
    <2>1. PICK m \in 0 .. Len(pending) : pos = m + 1 /\ MergedTo(m)
      BY DEF PartInv, Merging
    <2>2. m = q - 1
      BY <2>1
    <2> QED
      BY <2>1, <2>2 DEF PartInv, Merging
  <1>4. Symbol = pending[q].symbol /\ Source = pending[q].source
    BY DEF Symbol, Source
  <1>5. Nonlocal(Symbol) /\ (Symbol.name = NoName => Source # 0)
    BY <1>1, <1>3, <1>4 DEF PendingFrom
  <1>6. Source = 0 => Symbol.place = "undef"
    <2>1. Source = 0 => Symbol = Reference(Symbol.name, "global")
      BY <1>1, <1>3, <1>4 DEF PendingFrom
    <2>2. Reference(Symbol.name, "global").place = "undef"
      BY DEF Reference
    <2> QED
      BY <2>1, <2>2
  <1>7. q - 1 \in Nat /\ 1 .. q = 1 .. q - 1 \cup {q} /\ \A k \in 1 .. q - 1 : k \in DOMAIN pending /\ k < q
    BY <1>1
  <1>8. Source # 0 => \A k \in 1 .. q - 1 : pending[k].source \in 1 .. Source - 1
    BY <1>1, <1>3, <1>4, <1>7 DEF PendingFrom
  <1> QED
    BY <1>1, <1>2, <1>3, <1>4, <1>5, <1>6, <1>7, <1>8 DEF Pending

(* No entry has the next symbol yet.                                       *)
LEMMA SourceIsNew ==
  ASSUME PartInv, Merging, NEW d \in DOMAIN canonical, NEW s \in Sources
  PROVE  s \notin canonical[d].sources
  <1>1. PICK q : q = pos
    OBVIOUS
  <1>2. Source # 0 /\ s = Source
    BY DEF Sources
  <1>3. SUFFICES ASSUME s \in canonical[d].sources
                 PROVE  FALSE
    OBVIOUS
  <1>4. PICK k \in Kin(canonical[d], q - 1) : pending[k].source = s
    BY <1>1, <1>3, MergingFacts DEF MergedTo
  <1>5. k \in 1 .. q - 1
    BY <1>4 DEF Kin
  <1>6. Source \in Nat /\ pending[k].source \in 1 .. Source - 1
    BY <1>1, <1>2, <1>5, MergingFacts
  <1> QED
    BY <1>2, <1>4, <1>6

(* A turn of the merge that enters or changes one entry.                   *)
LEMMA EntryStep ==
  ASSUME PartInv, Merging, ~Refused(Symbol), NEW q, q = pos, NEW h, NEW e, NEW old,
         UNCHANGED <<input, marks, forced, locals, pending, stage>>, pos' = pos + 1,
         canonical' \in Seq(Canonical), DOMAIN canonical' = DOMAIN canonical \cup {h},
         canonical'[h] = e, \A c \in DOMAIN canonical : c = h \/ canonical'[c] = canonical[c],
         e.symbol.name = Symbol.name, e.sources = old \cup Sources,
         h \in DOMAIN canonical => /\ old = canonical[h].sources
                                   /\ canonical[h].symbol.name = Symbol.name
                                   /\ Symbol.name # NoName,
         h \notin DOMAIN canonical => old = {} /\ (Symbol.name = NoName \/ Homes = {}),
         Wins(e, Kin(e, q))
  PROVE  PartInv'
  <1>1. q - 1 \in Nat /\ q \in Nat
    BY MergingFacts
  <1>2. PICK m \in Nat : m = q - 1 /\ q = m + 1
    BY <1>1
  <1>3. /\ MergedTo(m) /\ PendingFrom(Len(input)) /\ ForcedTo(Len(forced))
        /\ 1 .. q = 1 .. m \cup {q} /\ Symbol = pending[q].symbol /\ Source = pending[q].source
        /\ q \in 1 .. Len(pending)
        /\ Symbol.name = NoName => Source # 0
    BY <1>2, MergingFacts
  <1> DEFINE cs == canonical'
             D == DOMAIN canonical
  <1>4. \A c \in D, s \in Sources : s \notin canonical[c].sources
    BY SourceIsNew
  <1>5. \A c \in D : c # h => Kin(canonical[c], q) = Kin(canonical[c], m)
    <2> SUFFICES ASSUME NEW c \in D, c # h
                 PROVE  q \notin Kin(canonical[c], q)
      BY <1>3 DEF Kin
    <2>1. CASE Symbol.name = NoName
      <3>1. Source \in Sources
        BY <1>3, <2>1 DEF Sources
      <3>2. Source \notin canonical[c].sources
        BY <1>4, <3>1
      <3> QED
        BY <1>3, <2>1, <3>2 DEF Kin
    <2>2. CASE Symbol.name # NoName
      <3>1. canonical[c].symbol.name # Symbol.name
        <4>1. CASE h \in D
          BY <1>3, <2>2, <4>1 DEF MergedTo
        <4>2. CASE h \notin D
          BY <2>2, <4>2 DEF Homes
        <4> QED
          BY <4>1, <4>2
      <3> QED
        BY <1>3, <3>1 DEF Kin
    <2> QED
      BY <2>1, <2>2
  <1>6. \A c \in D : c = h \/ cs[c] = canonical[c]
    OBVIOUS
  <1>7. cs[h] = e /\ DOMAIN cs = D \cup {h}
    OBVIOUS
  <1> HIDE DEF cs
  <1>8. \A k \in 1 .. q : ~Refused(pending[k].symbol)
    BY <1>3 DEF MergedTo
  <1>9. \A c, d \in D \cup {h} : cs[c].symbol.name = cs[d].symbol.name =>
             c = d \/ cs[c].symbol.name = NoName
    <2>1. \A d \in D : d # h => canonical[d].symbol.name # Symbol.name \/ Symbol.name = NoName
      <3>1. CASE h \in D
        BY <1>3, <3>1 DEF MergedTo
      <3>2. CASE h \notin D
        BY <3>2 DEF Homes
      <3> QED
        BY <3>1, <3>2
    <2>2. \A c, d \in D : c # h /\ d # h /\ cs[c].symbol.name = cs[d].symbol.name =>
             c = d \/ cs[c].symbol.name = NoName
      BY <1>3, <1>6 DEF MergedTo
    <2> QED
      BY <1>6, <1>7, <2>1, <2>2
  <1>10. \A c, d \in D \cup {h} : c # d => \A s \in cs[c].sources : s \notin cs[d].sources
    <2>1. \A d \in D : d # h => \A s \in e.sources : s \notin canonical[d].sources
      <3>1. CASE h \in D
        BY <1>3, <1>4, <3>1 DEF MergedTo
      <3>2. CASE h \notin D
        BY <1>4, <3>2
      <3> QED
        BY <3>1, <3>2
    <2>2. \A c, d \in D : c # h /\ d # h /\ c # d =>
             \A s \in cs[c].sources : s \notin cs[d].sources
      BY <1>3, <1>6 DEF MergedTo
    <2> QED
      BY <1>6, <1>7, <2>1, <2>2
  <1>11. \A c \in D \cup {h} : cs[c].symbol.name = NoName => \A s, t \in cs[c].sources : s = t
    <2>1. \A s, t \in Sources : s = t
      BY DEF Sources
    <2>2. \A c \in D : canonical[c].symbol.name = NoName =>
             \A s, t \in canonical[c].sources : s = t
      BY <1>3 DEF MergedTo
    <2>3. e.symbol.name = NoName => old = {}
      OBVIOUS
    <2> QED
      BY <1>6, <1>7, <2>1, <2>2, <2>3
  <1>12. \A k \in 1 .. q : \E c \in D \cup {h} :
           /\ cs[c].symbol.name = pending[k].symbol.name
           /\ pending[k].source # 0 => pending[k].source \in cs[c].sources
    <2> SUFFICES ASSUME NEW k \in 1 .. q
                 PROVE  \E c \in D \cup {h} :
                          /\ cs[c].symbol.name = pending[k].symbol.name
                          /\ pending[k].source # 0 => pending[k].source \in cs[c].sources
      OBVIOUS
    <2>1. CASE k \in 1 .. m
      <3>1. PICK c \in D : /\ canonical[c].symbol.name = pending[k].symbol.name
                           /\ pending[k].source # 0 => pending[k].source \in canonical[c].sources
        BY <1>3, <2>1 DEF MergedTo
      <3>2. CASE c = h
        BY <1>7, <3>1, <3>2
      <3>3. CASE c # h
        BY <1>6, <3>1, <3>3
      <3> QED
        BY <3>2, <3>3
    <2>2. CASE k = q
      BY <1>3, <1>7, <2>2 DEF Sources
    <2> QED
      BY <1>3, <2>1, <2>2
  <1>13. \A c \in D \cup {h} :
           /\ Wins(cs[c], Kin(cs[c], q))
           /\ \A s \in cs[c].sources : s # 0 /\ \E k \in Kin(cs[c], q) : pending[k].source = s
    <2> SUFFICES ASSUME NEW c \in D \cup {h}
                 PROVE  /\ Wins(cs[c], Kin(cs[c], q))
                        /\ \A s \in cs[c].sources :
                              s # 0 /\ \E k \in Kin(cs[c], q) : pending[k].source = s
      OBVIOUS
    <2>1. CASE c # h
      <3>1. cs[c] = canonical[c] /\ Kin(cs[c], q) = Kin(canonical[c], m) /\ c \in D
        BY <1>5, <1>6, <2>1
      <3>2. /\ Wins(canonical[c], Kin(canonical[c], m))
            /\ \A s \in canonical[c].sources :
                  s # 0 /\ \E k \in Kin(canonical[c], m) : pending[k].source = s
        BY <1>3, <3>1 DEF MergedTo
      <3> QED
        BY <3>1, <3>2
    <2>2. CASE c = h
      <3>1. \A s \in old : s # 0 /\ \E k \in Kin(e, q) : pending[k].source = s
        <4>1. CASE h \in D
          <5>1. Kin(canonical[h], m) \subseteq Kin(e, q)
            BY <1>3, <4>1 DEF Kin
          <5> QED
            BY <1>3, <4>1, <5>1 DEF MergedTo
        <4>2. CASE h \notin D
          BY <4>2
        <4> QED
          BY <4>1, <4>2
      <3>2. \A s \in Sources : s # 0 /\ q \in Kin(e, q) /\ pending[q].source = s
        <4> SUFFICES ASSUME NEW s \in Sources
                     PROVE  s # 0 /\ q \in Kin(e, q) /\ pending[q].source = s
          OBVIOUS
        <4>1. s = Source /\ s # 0 /\ s \in e.sources
          BY DEF Sources
        <4> QED
          BY <1>3, <4>1 DEF Kin
      <3> QED
        BY <1>7, <2>2, <3>1, <3>2
    <2> QED
      BY <2>1, <2>2
  <1>14. MergedTo(q)'
    <2>1. \A x : Kin(x, q)' = Kin(x, q)
      BY KinStays
    <2>2. \A x, K : Wins(x, K)' = Wins(x, K)
      BY KinStays
    <2>3. canonical' = cs
      BY DEF cs
    <2> QED
      BY <1>7, <1>8, <1>9, <1>10, <1>12, <1>13, <1>11, <2>1, <2>2, <2>3
         DEF MergedTo, Refused, PowerOfTwo
  <1>15. PendingFrom(Len(input))' /\ ForcedTo(Len(forced))'
    <2>1. PICK z, w : z = Len(input) /\ w = Len(forced)
      OBVIOUS
    <2>2. PendingFrom(z)' /\ ForcedTo(w)'
      BY <1>3, <2>1, PendingStays, ForcedStays
    <2> QED
      BY <2>1, <2>2 DEF PendingFrom, ForcedTo, TakenTo
  <1>16. q \in 0 .. Len(pending)' /\ pos' = q + 1 /\ pos' \in Nat \ {0}
    BY <1>1, <1>3, PendingTypes
  <1>17. \E k \in 0 .. Len(pending)' : pos' = k + 1 /\ MergedTo(k)'
    BY <1>14, <1>16
  <1> QED
    BY <1>15, <1>16, <1>17 DEF PartInv, PartTypeOK, Merging

LEMMA EnterSymbolStep == PartInv /\ EnterSymbol => PartInv'
  <1> SUFFICES ASSUME PartInv, EnterSymbol
               PROVE  PartInv'
    OBVIOUS
  <1> DEFINE e == [symbol |-> Symbol, source |-> Source, sources |-> Sources]
  <1>1. /\ Merging /\ ~Refused(Symbol) /\ (Symbol.name = NoName \/ Homes = {})
        /\ canonical' = Append(canonical, e) /\ pos' = pos + 1
        /\ UNCHANGED <<input, marks, forced, locals, pending, stage>>
    BY DEF EnterSymbol, Merge
  <1>2. PICK q : q = pos
    OBVIOUS
  <1>3. /\ Symbol = pending[q].symbol /\ Source = pending[q].source
        /\ Symbol \in Candidate /\ Source \in Nat
        /\ MergedTo(q - 1) /\ 1 .. q = 1 .. q - 1 \cup {q}
        /\ Symbol.name = NoName => Source # 0
        /\ Source # 0 => \A k \in 1 .. q - 1 : pending[k].source \in 1 .. Source - 1
        /\ Nonlocal(Symbol)
    BY <1>1, <1>2, MergingFacts
  <1>4. e \in Canonical
    BY <1>3 DEF Canonical, Sources
  <1>5. PICK n \in Nat : n = Len(canonical)
    BY PendingTypes
  <1>6. canonical \in Seq(Canonical) /\ DOMAIN canonical = 1 .. n
    BY <1>5, PendingTypes
  <1>7. /\ canonical' \in Seq(Canonical) /\ DOMAIN canonical' = 1 .. n + 1
        /\ \A c \in 1 .. n : canonical'[c] = canonical[c]
        /\ canonical'[n + 1] = e
    BY <1>1, <1>4, <1>5, <1>6, AppendProperties, LenProperties
  <1>8. Kin(e, q) = {q}
    <2>1. \A k \in 1 .. q - 1 : k \notin Kin(e, q)
      <3> SUFFICES ASSUME NEW k \in 1 .. q - 1, k \in Kin(e, q)
                   PROVE  FALSE
        OBVIOUS
      <3>1. pending[k].symbol.name = Symbol.name
            /\ (Symbol.name = NoName => pending[k].source = Source)
        BY DEF Kin, Sources
      <3>2. CASE Symbol.name = NoName
        BY <1>3, <3>1, <3>2
      <3>3. CASE Symbol.name # NoName
        BY <1>1, <1>3, <3>1, <3>3 DEF MergedTo, Homes
      <3> QED
        BY <3>2, <3>3
    <2>2. q \in Kin(e, q)
      BY <1>3 DEF Kin, Sources
    <2> QED
      BY <1>3, <2>1, <2>2 DEF Kin
  <1>9. e.symbol = Symbol /\ e.source = Source /\ e.sources = Sources
    OBVIOUS
  <1> HIDE DEF e
  <1>10. Wins(e, {q})
    <2>1. Symbol.place = "common" => Symbol.bind = "global"
      BY <1>1 DEF Refused
    <2>2. Symbol.size <= Symbol.size /\ Symbol.value <= Symbol.value
      BY <1>3 DEF Candidate
    <2>3. q <= q
      BY <1>1, <1>2, MergingFacts
    <2>4. FromOne(e, q)
      BY <1>3, <1>9 DEF FromOne
    <2> Nonlocal(e.symbol)
      BY <1>3, <1>9
    <2>5. StrongWins(e, {q}) /\ ReferenceWins(e, {q})
      BY <1>3, <1>9, <2>4 DEF StrongWins, ReferenceWins
    <2>6. WeakWins(e, {q})
      BY <1>3, <1>9, <2>3, <2>4 DEF WeakWins, WeakSymbol, StrongSymbol, CommonSymbol
    <2>7. CommonWins(e, {q})
      BY <1>3, <1>9, <2>1, <2>2 DEF CommonWins, StrongSymbol, CommonSymbol
    <2> QED
      BY <2>5, <2>6, <2>7 DEF Wins
  <1>11. DOMAIN canonical' = DOMAIN canonical \cup {n + 1} /\ n + 1 \notin DOMAIN canonical
    BY <1>6, <1>7
  <1>12. \A c \in DOMAIN canonical : c = n + 1 \/ canonical'[c] = canonical[c]
    BY <1>6, <1>7
  <1>13. Wins(e, Kin(e, q)) /\ e.sources = {} \cup Sources
    BY <1>8, <1>9, <1>10
  <1>14. e.symbol.name = Symbol.name
    BY <1>9
  <1>15. PICK h : h = n + 1
    OBVIOUS
  <1> QED
    BY <1>1, <1>2, <1>7, <1>11, <1>12, <1>13, <1>14, <1>15, EntryStep


(* The entry e becomes of the entry o and of the pending symbol q.         *)
LEMMA MergedWins ==
  ASSUME PartInv, Merging, ~Refused(Symbol), NEW q, q = pos, NEW o \in Canonical,
         NEW K \in SUBSET (1 .. q - 1), Wins(o, K), ~TwoStrong(o.symbol, Symbol),
         \A k \in K : pending[k] \in Pending, NEW e,
         e.symbol = MergedSymbol(o.symbol, Symbol),
         e.source = IF Replaces(o.symbol, Symbol) THEN Source ELSE o.source
  PROVE  Wins(e, K \cup {q})
  <1> PICK s : s = Symbol
    OBVIOUS
  <1>1. /\ q \in Nat /\ pending[q].symbol = s /\ pending[q].source = Source
        /\ s \in Candidate /\ s.bind \in {"global", "weak"}
        /\ s.size \in Nat /\ s.value \in Nat
    BY MergingFacts DEF Nonlocal, Candidate
  <1>2. /\ s.place \in {"undef", "common", "section"}
        /\ s.place = "common" => s.bind = "global"
    BY <1>1 DEF Candidate, Refused
  <1>3. /\ o.symbol.place \in {"undef", "common", "section"}
        /\ o.symbol.size \in Nat /\ o.symbol.value \in Nat /\ o.symbol \in Candidate
    BY DEF Canonical, Candidate
  <1>4. \A k \in K : /\ k \in Nat /\ k < q
                     /\ pending[k].symbol.size \in Nat /\ pending[k].symbol.value \in Nat
    BY <1>1 DEF Pending, Candidate
  <1> Nonlocal(e.symbol)
    <2>1. Nonlocal(o.symbol) /\ Nonlocal(s)
      BY <1>1 DEF Wins, Nonlocal
    <2>2. MergedSymbol(o.symbol, s).bind \in {o.symbol.bind, s.bind}
      BY <1>3 DEF MergedSymbol, Candidate
    <2> QED
      BY <2>1, <2>2 DEF Nonlocal
  <1>5. CASE s.place = "undef" /\ o.symbol.place = "undef"
    <2>1. \A k \in K \cup {q} : pending[k].symbol.place = "undef"
      BY <1>1, <1>5 DEF Wins, ReferenceWins
    <2>2. CASE o.symbol.bind = "weak" /\ s.bind = "global"
      <3>1. e.symbol = s /\ e.source = Source
        BY <1>5, <2>2 DEF MergedSymbol, Replaces
      <3>2. FromOne(e, q)
        BY <1>1, <3>1 DEF FromOne
      <3> QED
        BY <1>5, <2>1, <2>2, <3>1, <3>2 DEF Wins, StrongWins, CommonWins, WeakWins, ReferenceWins,
                           StrongSymbol, CommonSymbol, WeakSymbol
    <2>3. CASE ~(o.symbol.bind = "weak" /\ s.bind = "global")
      <3>1. e.symbol = o.symbol /\ e.source = o.source
        BY <1>5, <2>3 DEF MergedSymbol, Replaces
      <3>2. \E k \in K : FromOne(e, k)
        BY <1>5, <3>1 DEF FromOne, Wins, ReferenceWins
      <3>3. e.symbol.bind = "weak" => \A k \in K \cup {q} : pending[k].symbol.bind = "weak"
        BY <1>1, <1>5, <2>3, <3>1 DEF Wins, ReferenceWins
      <3> QED
        BY <1>5, <2>1, <3>1, <3>2, <3>3 DEF Wins, StrongWins, CommonWins, WeakWins, ReferenceWins,
                           StrongSymbol, CommonSymbol, WeakSymbol
    <2> QED
      BY <2>2, <2>3
  <1>6. CASE s.place = "undef" /\ o.symbol.place # "undef"
    <2>1. e.symbol = o.symbol /\ e.source = o.source
      BY <1>6 DEF MergedSymbol, Replaces
    <2>2. StrongWins(e, K \cup {q})
      <3>1. StrongWins(o, K) /\ ~StrongSymbol(pending[q].symbol)
        BY <1>1, <1>6 DEF Wins, StrongSymbol
      <3> QED
        BY <2>1, <3>1 DEF StrongWins, FromOne
    <2>3. CommonWins(e, K \cup {q})
      BY <1>1, <1>6, <2>1 DEF Wins, CommonWins, CommonSymbol, StrongSymbol
    <2>4. WeakWins(e, K \cup {q})
      BY <1>1, <1>6, <2>1 DEF Wins, WeakWins, CommonSymbol, StrongSymbol, WeakSymbol, FromOne
    <2> QED
      BY <1>6, <2>1, <2>2, <2>3, <2>4 DEF Wins, ReferenceWins
  <1>7. CASE s.place # "undef" /\ Replaces(o.symbol, s)
    <2>1. e.symbol = s /\ e.source = Source
      BY <1>7 DEF MergedSymbol, Replaces
    <2>2. FromOne(e, q)
      BY <1>1, <2>1 DEF FromOne
    <2>3. StrongWins(e, K \cup {q})
      <3>1. StrongSymbol(s) => \A j \in K : ~StrongSymbol(pending[j].symbol)
        BY <1>3, <1>7 DEF Wins, CommonWins, WeakWins, ReferenceWins, StrongSymbol, WeakSymbol,
                          CommonSymbol, Replaces
      <3> QED
        BY <2>1, <2>2, <3>1 DEF StrongWins
    <2>4. CommonWins(e, K \cup {q})
      <3>1. CommonSymbol(s) => \A j \in K : /\ ~StrongSymbol(pending[j].symbol)
                                            /\ ~CommonSymbol(pending[j].symbol)
        BY <1>3, <1>7 DEF Wins, WeakWins, ReferenceWins, StrongSymbol, WeakSymbol,
                          CommonSymbol, Replaces
      <3>2. s.size <= s.size /\ s.value <= s.value
        BY <1>1
      <3> QED
        BY <1>1, <1>2, <2>1, <3>1, <3>2 DEF CommonWins, CommonSymbol, StrongSymbol
    <2>5. WeakWins(e, K \cup {q})
      <3>1. WeakSymbol(s) => \A j \in K : pending[j].symbol.place = "undef"
        BY <1>3, <1>7 DEF Wins, ReferenceWins, StrongSymbol, WeakSymbol,
                          CommonSymbol, Replaces
      <3>2. q <= q
        BY <1>1
      <3> QED
        BY <1>1, <2>1, <2>2, <3>1, <3>2 DEF WeakWins, CommonSymbol, StrongSymbol, WeakSymbol
    <2> QED
      BY <1>7, <2>1, <2>3, <2>4, <2>5 DEF Wins, ReferenceWins
  <1>8. CASE s.place = "common" /\ o.symbol.place = "common"
    <2>1. /\ e.symbol = [o.symbol EXCEPT !.size = Larger(@, s.size), !.value = Larger(@, s.value)]
          /\ e.source = o.source
      BY <1>8 DEF MergedSymbol, Replaces
    <2>2. /\ e.symbol.place = "common" /\ e.symbol.bind = o.symbol.bind
          /\ e.symbol.size = Larger(o.symbol.size, s.size)
          /\ e.symbol.value = Larger(o.symbol.value, s.value)
      BY <1>3, <1>8, <2>1 DEF Candidate
    <2>3. PICK a \in Nat, b \in Nat : a = e.symbol.size /\ b = e.symbol.value
      BY <1>1, <1>3, <2>2 DEF Larger
    <2>4. /\ o.symbol.size <= a /\ s.size <= a /\ (a = o.symbol.size \/ a = s.size)
          /\ o.symbol.value <= b /\ s.value <= b /\ (b = o.symbol.value \/ b = s.value)
      BY <1>1, <1>3, <2>2, <2>3 DEF Larger
    <2>5. \A k \in K : ~StrongSymbol(pending[k].symbol)
      BY <1>8 DEF Wins, CommonWins, CommonSymbol
    <2>6. \A k \in K : CommonSymbol(pending[k].symbol) =>
              pending[k].symbol.size <= a /\ pending[k].symbol.value <= b
      <3> SUFFICES ASSUME NEW k \in K, CommonSymbol(pending[k].symbol)
                   PROVE  pending[k].symbol.size <= a /\ pending[k].symbol.value <= b
        OBVIOUS
      <3>1. pending[k].symbol.size <= o.symbol.size /\ pending[k].symbol.value <= o.symbol.value
        BY <1>8 DEF Wins, CommonWins, CommonSymbol
      <3>2. pending[k].symbol.size \in Nat /\ pending[k].symbol.value \in Nat
        BY <1>4
      <3> QED
        BY <1>3, <2>4, <3>1, <3>2
    <2>7. \E k \in K : CommonSymbol(pending[k].symbol) /\ pending[k].source = o.source
      BY <1>8 DEF Wins, CommonWins, CommonSymbol
    <2>8. \E k \in K : CommonSymbol(pending[k].symbol) /\ pending[k].symbol.size = o.symbol.size
      BY <1>8 DEF Wins, CommonWins, CommonSymbol
    <2>9. \E k \in K : CommonSymbol(pending[k].symbol) /\ pending[k].symbol.value = o.symbol.value
      BY <1>8 DEF Wins, CommonWins, CommonSymbol
    <2>10. o.symbol.bind = "global" /\ CommonSymbol(s) /\ ~StrongSymbol(s)
      BY <1>8 DEF Wins, CommonWins, CommonSymbol, StrongSymbol
    <2>11. CommonWins(e, K \cup {q})
      BY <1>1, <2>1, <2>2, <2>3, <2>4, <2>5, <2>6, <2>7, <2>8, <2>9, <2>10 DEF CommonWins
    <2> QED
      BY <2>2, <2>11 DEF Wins, StrongWins, WeakWins, ReferenceWins, StrongSymbol, WeakSymbol
  <1>9. CASE /\ s.place # "undef" /\ ~Replaces(o.symbol, s)
             /\ ~(s.place = "common" /\ o.symbol.place = "common")
    <2>1. e.symbol = o.symbol /\ e.source = o.source
      BY <1>9 DEF MergedSymbol
    <2>2. o.symbol.place # "undef"
      BY <1>9 DEF Replaces
    <2>3. StrongWins(e, K \cup {q})
      BY <1>1, <1>2, <1>9, <2>1 DEF Wins, StrongWins, StrongSymbol, FromOne, TwoStrong
    <2>4. CommonWins(e, K \cup {q})
      BY <1>1, <1>2, <1>9, <2>1 DEF Wins, CommonWins, CommonSymbol, StrongSymbol, Replaces
    <2>5. WeakWins(e, K \cup {q})
      <3> SUFFICES ASSUME WeakSymbol(o.symbol)
                   PROVE  WeakWins(e, K \cup {q})
        BY <2>1 DEF WeakWins
      <3>1. ~StrongSymbol(s) /\ ~CommonSymbol(s)
        BY <1>9 DEF StrongSymbol, CommonSymbol, WeakSymbol, Replaces
      <3>2. /\ \A k \in K : ~StrongSymbol(pending[k].symbol) /\ ~CommonSymbol(pending[k].symbol)
            /\ \E k \in K : FromOne(o, k) /\ \A j \in K : WeakSymbol(pending[j].symbol) => k <= j
        BY DEF Wins, WeakWins
      <3>3. PICK k \in K : FromOne(o, k) /\ \A j \in K : WeakSymbol(pending[j].symbol) => k <= j
        BY <3>2
      <3>4. k <= q /\ FromOne(e, k)
        BY <1>1, <1>4, <2>1, <3>3 DEF FromOne
      <3> QED
        BY <1>1, <3>1, <3>2, <3>3, <3>4 DEF WeakWins
    <2> QED
      BY <2>1, <2>2, <2>3, <2>4, <2>5 DEF Wins, ReferenceWins
  <1> QED
    BY <1>5, <1>6, <1>7, <1>8, <1>9

LEMMA MergeNameStep == PartInv /\ MergeName => PartInv'
  <1> SUFFICES ASSUME PartInv, MergeName
               PROVE  PartInv'
    OBVIOUS
  <1> PICK h, o : h = Home /\ o = canonical[h]
    OBVIOUS
  <1> DEFINE e == [symbol  |-> MergedSymbol(o.symbol, Symbol),
                   source  |-> IF Replaces(o.symbol, Symbol) THEN Source ELSE o.source,
                   sources |-> o.sources \cup Sources]
  <1>1. /\ Merging /\ ~Refused(Symbol) /\ Symbol.name # NoName /\ Homes # {}
        /\ ~TwoStrong(o.symbol, Symbol) /\ canonical' = [canonical EXCEPT ![h] = e]
        /\ pos' = pos + 1 /\ UNCHANGED <<input, marks, forced, locals, pending, stage>>
    BY DEF MergeName, SameName, Merge, Held, SourcesOfBoth
  <1>2. h \in DOMAIN canonical /\ o.symbol.name = Symbol.name
    BY <1>1 DEF Home, Homes
  <1>3. PICK q : q = pos
    OBVIOUS
  <1>4. /\ Symbol = pending[q].symbol /\ Source = pending[q].source /\ q \in Nat
        /\ Symbol \in Candidate /\ Source \in Nat /\ q - 1 \in Nat
        /\ MergedTo(q - 1) /\ 1 .. q = 1 .. q - 1 \cup {q} /\ q \in 1 .. Len(pending)
    BY <1>1, <1>3, MergingFacts
  <1>5. canonical \in Seq(Canonical) /\ o \in Canonical /\ o.symbol \in Candidate
        /\ DOMAIN canonical = 1 .. Len(canonical) /\ Len(canonical) \in Nat
    <2>1. /\ canonical \in Seq(Canonical)
          /\ DOMAIN canonical = 1 .. Len(canonical) /\ Len(canonical) \in Nat
      BY PendingTypes
    <2>2. canonical[h] \in Canonical
      BY <1>2, <2>1, ElementOfSeq
    <2>3. o \in Canonical
      BY <2>2
    <2> QED
      BY <2>1, <2>3 DEF Canonical
  <1>6. MergedSymbol(o.symbol, Symbol) \in Candidate /\ MergedSymbol(o.symbol, Symbol).name = Symbol.name
    <2>1. CASE o.symbol.place = "common" /\ Symbol.place = "common"
      <3>1. PICK a \in Nat, b \in Nat : /\ a = Larger(o.symbol.size, Symbol.size)
                                        /\ b = Larger(o.symbol.value, Symbol.value)
        BY <1>4, <1>5 DEF Larger, Candidate
      <3>2. MergedSymbol(o.symbol, Symbol) = [o.symbol EXCEPT !.size = a, !.value = b]
        BY <2>1, <3>1 DEF MergedSymbol
      <3> QED
        BY <1>2, <1>5, <3>2 DEF Candidate
    <2>2. CASE ~(o.symbol.place = "common" /\ Symbol.place = "common")
      BY <1>2, <1>4, <1>5, <2>2 DEF MergedSymbol
    <2> QED
      BY <2>1, <2>2
  <1>7. e \in Canonical
    BY <1>4, <1>5, <1>6 DEF Canonical, Sources
  <1>8. /\ canonical' \in Seq(Canonical) /\ DOMAIN canonical' = DOMAIN canonical \cup {h}
        /\ canonical'[h] = e /\ \A c \in DOMAIN canonical : c = h \/ canonical'[c] = canonical[c]
    BY <1>1, <1>2, <1>5, <1>7, ExceptSeq
  <1>9. /\ e.symbol = MergedSymbol(o.symbol, Symbol) /\ e.sources = o.sources \cup Sources
        /\ e.source = IF Replaces(o.symbol, Symbol) THEN Source ELSE o.source
    OBVIOUS
  <1> HIDE DEF e
  <1>10. Kin(e, q) = Kin(o, q - 1) \cup {q}
    BY <1>1, <1>2, <1>4, <1>6, <1>9 DEF Kin
  <1>11. Wins(o, Kin(o, q - 1))
    BY <1>2, <1>4 DEF MergedTo
  <1>12. Kin(o, q - 1) \in SUBSET (1 .. q - 1) /\ \A k \in Kin(o, q - 1) : pending[k] \in Pending
    <2>1. \A k \in 1 .. q - 1 : k \in DOMAIN pending
      BY <1>4, PendingTypes
    <2> QED
      BY <2>1, PendingTypes, ElementOfSeq DEF Kin
  <1>13. PICK K : K = Kin(o, q - 1)
    OBVIOUS
  <1>14. Wins(e, K \cup {q})
    BY <1>1, <1>3, <1>5, <1>9, <1>11, <1>12, <1>13, MergedWins
  <1>15. Wins(e, Kin(e, q)) /\ e.symbol.name = Symbol.name
    BY <1>6, <1>9, <1>10, <1>13, <1>14
  <1> QED
    BY <1>1, <1>2, <1>3, <1>8, <1>9, <1>15, EntryStep


(* A pending definition is an input symbol of a surviving section.         *)
LEMMA DefinedOrigin ==
  ASSUME PartInv, stage \in {"merge", "emitted"}, NEW k \in DOMAIN pending,
         pending[k].symbol.place # "undef"
  PROVE  /\ pending[k].source \in DOMAIN input /\ pending[k].source \in TakenTo(Len(input))
         /\ ~Lost(pending[k].source) /\ pending[k].symbol = input[pending[k].source]
         /\ Nonlocal(input[pending[k].source])
  <1>1. PendingFrom(Len(input))
    BY DEF PartInv
  <1>2. \A n, b : Reference(n, b).place = "undef"
    BY DEF Reference
  <1>3. pending[k].source # 0
    BY <1>1, <1>2 DEF PendingFrom
  <1>4. /\ pending[k].source \in TakenTo(Len(input))
        /\ pending[k].symbol = KeptAt(pending[k].source)
    BY <1>1, <1>3 DEF PendingFrom
  <1>5. ~Lost(pending[k].source)
    BY <1>2, <1>4 DEF KeptAt
  <1> QED
    BY <1>4, <1>5, PendingTypes DEF KeptAt, TakenTo

LEMMA RefusedInMerge ==
  ASSUME PartInv, Refusable, stage' = "refused",
         UNCHANGED <<input, marks, forced, pos, locals, pending, canonical>>
  PROVE  PartInv'
  <1>1. Refusable'
    BY DEF Refusable
  <1>2. PartTypeOK'
    BY DEF PartInv, PartTypeOK
  <1> QED
    BY <1>1, <1>2 DEF PartInv

LEMMA RefuseCommonStep == PartInv /\ RefuseCommon => PartInv'
  <1> SUFFICES ASSUME PartInv, RefuseCommon
               PROVE  PartInv'
    OBVIOUS
  <1>1. /\ Merging /\ Refused(Symbol) /\ stage' = "refused" /\ stage = "merge"
        /\ UNCHANGED <<input, marks, forced, pos, locals, pending, canonical>>
    BY DEF RefuseCommon, Refuse, Merging
  <1>2. pos \in DOMAIN pending /\ Symbol = pending[pos].symbol /\ Symbol.place = "common"
    BY <1>1 DEF Merging, Symbol, Refused
  <1>3. /\ pending[pos].source \in DOMAIN input /\ Symbol = input[pending[pos].source]
        /\ Nonlocal(input[pending[pos].source])
    BY <1>1, <1>2, DefinedOrigin
  <1>4. Refusable
    BY <1>1, <1>3 DEF Refusable
  <1> QED
    BY <1>1, <1>4, RefusedInMerge

LEMMA MergeConflictStep == PartInv /\ MergeConflict => PartInv'
  <1> SUFFICES ASSUME PartInv, MergeConflict
               PROVE  PartInv'
    OBVIOUS
  <1> PICK o : o = canonical[Home]
    OBVIOUS
  <1>1. /\ Merging /\ Symbol.name # NoName /\ Homes # {} /\ TwoStrong(o.symbol, Symbol)
        /\ stage' = "refused" /\ stage = "merge"
        /\ UNCHANGED <<input, marks, forced, pos, locals, pending, canonical>>
    BY DEF MergeConflict, SameName, Refuse, Merging, Held
  <1>2. Home \in DOMAIN canonical /\ o.symbol.name = Symbol.name
    BY <1>1 DEF Home, Homes
  <1>3. PICK q : q = pos
    OBVIOUS
  <1>4. /\ Symbol = pending[q].symbol /\ Source = pending[q].source /\ q \in Nat
        /\ Source \in Nat /\ MergedTo(q - 1) /\ q \in 1 .. Len(pending)
        /\ Source # 0 => \A k \in 1 .. q - 1 : pending[k].source \in 1 .. Source - 1
    BY <1>1, <1>3, MergingFacts
  <1>5. Wins(o, Kin(o, q - 1))
    BY <1>2, <1>4 DEF MergedTo
  <1>6. PICK k \in Kin(o, q - 1) : FromOne(o, k)
    BY <1>1, <1>5 DEF Wins, StrongWins, TwoStrong, StrongSymbol
  <1>7. k \in 1 .. q - 1 /\ pending[k].symbol = o.symbol /\ k \in DOMAIN pending /\ q \in DOMAIN pending
    BY <1>4, <1>6, PendingTypes DEF Kin, FromOne
  <1>8. /\ pending[k].source \in DOMAIN input /\ o.symbol = input[pending[k].source]
        /\ Source \in DOMAIN input /\ Symbol = input[Source] /\ Source # 0
    <2>1. pending[k].symbol.place # "undef" /\ pending[q].symbol.place # "undef"
      BY <1>1, <1>4, <1>7 DEF TwoStrong
    <2>2. /\ pending[k].source \in DOMAIN input /\ o.symbol = input[pending[k].source]
      BY <1>1, <1>7, <2>1, DefinedOrigin
    <2>3. pending[q].source \in DOMAIN input /\ pending[q].symbol = input[pending[q].source]
      BY <1>1, <1>7, <2>1, DefinedOrigin
    <2> QED
      BY <1>4, <2>2, <2>3, PendingTypes
  <1>9. pending[k].source # Source
    BY <1>4, <1>7, <1>8
  <1>10. Refusable
    BY <1>1, <1>2, <1>8, <1>9 DEF Refusable, TwoStrong, StrongSymbol
  <1> QED
    BY <1>1, <1>10, RefusedInMerge

LEMMA EndMergeStep == PartInv /\ EndMerge => PartInv'
  <1> SUFFICES ASSUME PartInv, EndMerge
               PROVE  PartInv'
    OBVIOUS
  <1>1. /\ stage = "merge" /\ pos > Len(pending) /\ stage' = "emitted"
        /\ UNCHANGED <<input, marks, forced, pos, locals, pending, canonical>>
    BY DEF EndMerge
  <1>2. PICK m \in 0 .. Len(pending) : pos = m + 1 /\ MergedTo(m)
    BY <1>1 DEF PartInv
  <1>3. m = Len(pending)
    <2>1. PICK n \in Nat : n = Len(pending)
      BY PendingTypes
    <2>2. m \in 0 .. n /\ m + 1 > n
      BY <1>1, <1>2, <2>1
    <2> QED
      BY <2>1, <2>2
  <1>4. PICK z, w : z = Len(input) /\ w = Len(forced) /\ PendingFrom(z) /\ ForcedTo(w)
    BY <1>1 DEF PartInv
  <1>5. PendingFrom(z)' /\ ForcedTo(w)' /\ MergedTo(m)'
    BY <1>1, <1>2, <1>4, PendingStays, ForcedStays, MergedStays
  <1>6. PendingFrom(Len(input))' /\ ForcedTo(Len(forced))' /\ MergedTo(Len(pending))'
    <2>1. z = Len(input)' /\ w = Len(forced)' /\ m = Len(pending)'
      BY <1>1, <1>3, <1>4
    <2>2. PendingFrom(Len(input))'
      BY <1>5, <2>1 DEF PendingFrom, TakenTo
    <2>3. ForcedTo(Len(forced))'
      BY <1>5, <2>1 DEF ForcedTo
    <2>4. MergedTo(Len(pending))'
      BY <1>5, <2>1 DEF MergedTo, Kin
    <2> QED
      BY <2>2, <2>3, <2>4
  <1>7. PartTypeOK'
    BY <1>1 DEF PartInv, PartTypeOK
  <1> QED
    BY <1>1, <1>6, <1>7 DEF PartInv

LEMMA PartInvStays ==
  ASSUME PartInv, UNCHANGED partialVars
  PROVE  PartInv'
  <1>1. UNCHANGED <<input, marks, forced, pos, locals, pending, canonical, stage>>
    BY DEF partialVars
  <1>2. \A m : PendingFrom(m) => PendingFrom(m)'
    BY <1>1, PendingStays
  <1>3. \A m : ForcedTo(m) => ForcedTo(m)'
    BY <1>1, ForcedStays
  <1>4. \A m : MergedTo(m) => MergedTo(m)'
    BY <1>1, MergedStays
  <1>5. Refusable => Refusable'
    BY <1>1 DEF Refusable
  <1> QED
    BY <1>1, <1>2, <1>3, <1>4, <1>5 DEF PartInv, PartTypeOK

LEMMA PartInvStep == PartInv /\ PartialNext => PartInv'
  BY RefuseSymbolStep, CollectSymbolStep, EndCollectStep, ForceNameStep, EndForceStep,
     RefuseCommonStep, EnterSymbolStep, MergeNameStep, MergeConflictStep, EndMergeStep
     DEF PartialNext


LEMMA PartInvInit == BothInit => PartInv
  <1> SUFFICES ASSUME BothInit
               PROVE  PartInv
    OBVIOUS
  <1>0. PICK s \in Streams : \E c \in CutsOf(s) :
            BeginPartial(SubSeq(s, 1, c.first), c.marks, c.forced)
    BY DEF BothInit
  <1>1. PICK c \in CutsOf(s) : BeginPartial(SubSeq(s, 1, c.first), c.marks, c.forced)
    BY <1>0
  <1>2. /\ input = SubSeq(s, 1, c.first) /\ forced = c.forced /\ pos = 1 /\ stage = "collect"
        /\ locals = <<>> /\ pending = <<>> /\ canonical = <<>>
    BY <1>1 DEF BeginPartial
  <1>3. s \in Seq(Candidate) /\ c \in Cut /\ c.first <= Len(s)
    BY <1>1, StreamsAssumption, CutsAssumption
  <1>4. c.first \in Nat /\ c.forced \in Seq(Names \cup {NoName})
    BY <1>3 DEF Cut
  <1>5. input \in Seq(Candidate) /\ Len(input) \in Nat
    <2>1. Len(s) \in Nat
      BY <1>3, LenProperties
    <2>2. \A i \in 1 .. c.first : s[i] \in Candidate
      BY <1>3, <1>4, <2>1, ElementOfSeq
    <2> QED
      BY <1>2, <1>3, <1>4, <2>1, <2>2, SubSeqProperties, LenProperties
  <1>6. PartTypeOK
    BY <1>2, <1>4, <1>5 DEF PartTypeOK
  <1>7. DOMAIN locals = {} /\ DOMAIN pending = {}
    BY <1>2
  <1>8. PendingFrom(pos - 1)
    BY <1>2, <1>7 DEF PendingFrom, TakenTo
  <1> QED
    BY <1>2, <1>5, <1>6, <1>7, <1>8 DEF PartInv

LEMMA PartInvariance == BothSpec => []PartInv
  <1>1. PartInv /\ [BothNext \/ BothSettled]_bothVars => PartInv'
    <2> SUFFICES ASSUME PartInv, [BothNext \/ BothSettled]_bothVars
                 PROVE  PartInv'
      OBVIOUS
    <2>1. CASE LinkPart
      BY <2>1, PartInvStep DEF LinkPart
    <2>2. CASE UNCHANGED partialVars
      BY <2>2, PartInvStays
    <2> QED
      BY <2>1, <2>2 DEF BothNext, BothSettled, LinkWhole, EndWhole, EndPart, Relink, EndRelink,
                        bothVars
  <1> QED
    BY <1>1, PartInvInit, PTL DEF BothSpec

-----------------------------------------------------------------------------
(* Every collected symbol stands in one entry of the output.               *)
LEMMA InvMapsSymbols == PartInv => EverySymbolIsMapped
  <1> SUFFICES ASSUME PartInv, stage = "emitted", NEW i \in DOMAIN input
               PROVE  LET targets == {k \in DOMAIN canonical : i \in canonical[k].sources}
                      IN /\ Nonlocal(input[i]) /\ (Lost(i) => "needed" \in marks[i]) =>
                              /\ Cardinality(targets) = 1
                              /\ \A k \in targets :
                                   /\ canonical[k].symbol.name = input[i].name
                                   /\ Defines(input[i]) /\ ~Lost(i) =>
                                        Defines(canonical[k].symbol)
                         /\ \A k \in targets : Lost(i) =>
                              /\ "needed" \in marks[i]
                              /\ canonical[k].source = i => ~Defines(canonical[k].symbol)
    BY DEF EverySymbolIsMapped
  <1> DEFINE targets == {k \in DOMAIN canonical : i \in canonical[k].sources}
  <1>1. PICK n \in Nat : n = Len(pending) /\ MergedTo(n) /\ DOMAIN pending = 1 .. n
    BY PendingTypes DEF PartInv
  <1>2. PICK z \in Nat : z = Len(input) /\ PendingFrom(z) /\ DOMAIN input = 1 .. z
    BY PendingTypes DEF PartInv
  <1>3. \A c \in targets : \E k \in Kin(canonical[c], n) :
            /\ pending[k].source = i /\ k \in 1 .. n
            /\ pending[k].symbol.name = canonical[c].symbol.name
            /\ i \in TakenTo(z) /\ pending[k].symbol = KeptAt(i)
    <2> SUFFICES ASSUME NEW c \in targets
                 PROVE  \E k \in Kin(canonical[c], n) :
                           /\ pending[k].source = i /\ k \in 1 .. n
                           /\ pending[k].symbol.name = canonical[c].symbol.name
                           /\ i \in TakenTo(z) /\ pending[k].symbol = KeptAt(i)
      OBVIOUS
    <2>1. PICK k \in Kin(canonical[c], n) : i # 0 /\ pending[k].source = i
      BY <1>1 DEF MergedTo
    <2>2. k \in 1 .. n /\ pending[k].symbol.name = canonical[c].symbol.name
      BY <2>1 DEF Kin
    <2> QED
      BY <1>1, <1>2, <2>1, <2>2 DEF PendingFrom
  <1>4. /\ KeptAt(i).name = input[i].name /\ KeptAt(i) \in Candidate
        /\ input[i] \in Candidate
    BY InputIsCandidate DEF PartInv
  <1>5. ASSUME Nonlocal(input[i]), Lost(i) => "needed" \in marks[i]
        PROVE  /\ Cardinality(targets) = 1
               /\ \A k \in targets :
                    /\ canonical[k].symbol.name = input[i].name
                    /\ Defines(input[i]) /\ ~Lost(i) => Defines(canonical[k].symbol)
    <2>1. i \in TakenTo(z)
      BY <1>2, <1>5 DEF TakenTo, DropsAt, Nonlocal
    <2>2. PICK k \in 1 .. n : pending[k].source = i
      BY <1>1, <1>2, <2>1 DEF PendingFrom
    <2>3. i # 0
      BY <1>2
    <2>4. PICK c \in DOMAIN canonical : i \in canonical[c].sources
      BY <1>1, <2>2, <2>3 DEF MergedTo
    <2>5. \A d \in targets : d = c
      BY <1>1, <2>4 DEF MergedTo
    <2>6. targets = {c}
      BY <2>4, <2>5
    <2>7. Cardinality(targets) = 1
      BY <2>6, FS_Singleton
    <2>8. canonical[c].symbol.name = input[i].name
      BY <1>3, <1>4, <2>6
    <2>9. ASSUME Defines(input[i]), ~Lost(i)
          PROVE  Defines(canonical[c].symbol)
      <3>1. PICK j \in Kin(canonical[c], n) : pending[j].source = i /\ pending[j].symbol = KeptAt(i)
        BY <1>3, <2>6
      <3>2. pending[j].symbol = input[i] /\ pending[j].symbol.place # "undef"
        BY <2>9, <3>1 DEF KeptAt, Defines
      <3>3. canonical[c].symbol.place # "undef"
        BY <1>1, <2>4, <3>1, <3>2 DEF MergedTo, Wins, ReferenceWins
      <3>4. canonical[c].symbol.name # NoName
        BY <2>8, <2>9 DEF Defines
      <3>5. canonical[c].symbol \in Candidate
        BY <2>4, EntryType
      <3>6. Nonlocal(canonical[c].symbol)
        BY <1>1, <2>4 DEF MergedTo, Wins
      <3> QED
        BY <3>3, <3>4, <3>6 DEF Defines
    <2> QED
      BY <2>6, <2>7, <2>8, <2>9
  <1>6. ASSUME NEW c \in targets, Lost(i)
        PROVE  /\ "needed" \in marks[i]
               /\ canonical[c].source = i => ~Defines(canonical[c].symbol)
    <2>1. i \in TakenTo(z)
      BY <1>3
    <2>2. "needed" \in marks[i]
      BY <1>6, <2>1 DEF TakenTo, DropsAt
    <2>3. ASSUME canonical[c].source = i, Defines(canonical[c].symbol)
          PROVE  FALSE
      <3>1. \E k \in Kin(canonical[c], n) : /\ pending[k].source = i
                                            /\ pending[k].symbol.place # "undef"
        <4>1. Wins(canonical[c], Kin(canonical[c], n))
          BY <1>1 DEF MergedTo
        <4>2. canonical[c].symbol \in Candidate
          BY EntryType
        <4>3. \/ StrongSymbol(canonical[c].symbol) \/ WeakSymbol(canonical[c].symbol)
              \/ CommonSymbol(canonical[c].symbol)
          BY <2>3, <4>2 DEF StrongSymbol, WeakSymbol, CommonSymbol, Defines, Nonlocal, Candidate
        <4> QED
          BY <2>3, <4>1, <4>3 DEF Wins, StrongWins, WeakWins, CommonWins, FromOne, StrongSymbol,
                                  WeakSymbol, CommonSymbol
      <3>2. PICK k \in 1 .. n : pending[k].source = i /\ pending[k].symbol.place # "undef"
        BY <3>1 DEF Kin
      <3> QED
        BY <1>1, <1>6, <3>2, DefinedOrigin
    <2> QED
      BY <2>2, <2>3
  <1> QED
    BY <1>5, <1>6


(* The entry of a name has the definition that ranks highest.              *)
LEMMA InvRanks == PartInv => OutputIsOfHighestRank
  <1> SUFFICES ASSUME PartInv, stage = "emitted"
               PROVE  OutputIsOfHighestRank
    BY DEF OutputIsOfHighestRank
  <1>1. PICK m \in Nat : m = Len(pending) /\ MergedTo(m) /\ DOMAIN pending = 1 .. m
    BY PendingTypes DEF PartInv
  <1>2. PICK z \in Nat : z = Len(input) /\ PendingFrom(z) /\ DOMAIN input = 1 .. z
    BY PendingTypes DEF PartInv
  <1> SUFFICES ASSUME NEW j \in DOMAIN canonical, NEW k \in DOMAIN canonical,
                      canonical[k].symbol.name # NoName
               PROVE
        LET n == canonical[k].symbol.name
            of(p, b) == {i \in DOMAIN input :
                           /\ input[i].name = n /\ input[i].place = p /\ input[i].bind = b
                           /\ ~Lost(i)}
            strong == of("section", "global")
            common == of("common", "global")
            weak   == of("section", "weak")
        IN /\ canonical[j].symbol.name = n => j = k
           /\ Cardinality(strong) <= 1
           /\ strong # {} => canonical[k].source \in strong
           /\ strong = {} /\ common # {} => /\ canonical[k].symbol.place = "common"
                                           /\ canonical[k].source \in common
           /\ strong = {} /\ common = {} /\ weak # {} =>
                canonical[k].source \in weak /\ \A i \in weak : canonical[k].source <= i
    BY DEF OutputIsOfHighestRank
  <1> DEFINE n == canonical[k].symbol.name
             of(p, b) == {i \in DOMAIN input :
                            /\ input[i].name = n /\ input[i].place = p /\ input[i].bind = b
                            /\ ~Lost(i)}
             strong == of("section", "global")
             common == of("common", "global")
             weak   == of("section", "weak")
             e == canonical[k]
             K == Kin(e, m)
  <1>3. e \in Canonical /\ e.symbol \in Candidate
    BY EntryType
  <1>4. Wins(e, K) /\ Nonlocal(e.symbol)
    BY <1>1 DEF MergedTo, Wins
  <1>5. canonical[j].symbol.name = n => j = k
    BY <1>1 DEF MergedTo
  (* The definitions of the name are its pending symbols.                  *)
  <1>6. ASSUME NEW i \in DOMAIN input, input[i].name = n, ~Lost(i),
               input[i].bind \in {"global", "weak"}
        PROVE  \E q \in K : pending[q].source = i /\ pending[q].symbol = input[i]
    <2>1. i \in TakenTo(z) /\ i # 0
      BY <1>2, <1>6 DEF TakenTo, DropsAt, Nonlocal
    <2>2. PICK q \in DOMAIN pending : pending[q].source = i
      BY <1>2, <2>1 DEF PendingFrom
    <2>3. pending[q].symbol = input[i]
      BY <1>2, <1>6, <2>1, <2>2 DEF PendingFrom, KeptAt
    <2> QED
      BY <1>1, <1>6, <2>2, <2>3 DEF Kin
  <1>7. ASSUME NEW q \in K, pending[q].symbol.place # "undef"
        PROVE  /\ pending[q].source \in of(pending[q].symbol.place, pending[q].symbol.bind)
               /\ pending[q].symbol = input[pending[q].source] /\ q \in 1 .. m
    <2>1. q \in DOMAIN pending /\ pending[q].symbol.name = n
      BY <1>1 DEF Kin
    <2> QED
      BY <1>1, <1>7, <2>1, DefinedOrigin
  <1>8. \A i \in strong : \E q \in K : /\ pending[q].source = i /\ StrongSymbol(pending[q].symbol)
    BY <1>6 DEF StrongSymbol
  <1>9. \A i \in common : \E q \in K : /\ pending[q].source = i /\ CommonSymbol(pending[q].symbol)
    BY <1>6 DEF CommonSymbol
  <1>10. \A i \in weak : \E q \in K : /\ pending[q].source = i /\ WeakSymbol(pending[q].symbol)
    BY <1>6 DEF WeakSymbol
  <1>11. \A q \in K : StrongSymbol(pending[q].symbol) => pending[q].source \in strong
    BY <1>7 DEF StrongSymbol
  <1>12. \A q \in K : CommonSymbol(pending[q].symbol) => pending[q].source \in common
    <2> SUFFICES ASSUME NEW q \in K, CommonSymbol(pending[q].symbol)
                 PROVE  pending[q].source \in common
      OBVIOUS
    <2>1. pending[q].source \in of("common", pending[q].symbol.bind) /\ q \in 1 .. m
      BY <1>7 DEF CommonSymbol
    <2>2. pending[q].symbol.bind = "global"
      BY <1>1, <2>1 DEF MergedTo, Refused, CommonSymbol
    <2> QED
      BY <2>1, <2>2
  <1>13. \A q \in K : WeakSymbol(pending[q].symbol) => pending[q].source \in weak
    BY <1>7 DEF WeakSymbol
  <1>14. StrongSymbol(e.symbol) \/ WeakSymbol(e.symbol) \/ CommonSymbol(e.symbol)
           \/ e.symbol.place = "undef"
    BY <1>3, <1>4 DEF StrongSymbol, WeakSymbol, CommonSymbol, Nonlocal, Candidate
  <1> HIDE DEF K, e, strong, common, weak, of, n
  <1>15. strong # {} => StrongSymbol(e.symbol)
    BY <1>4, <1>8, <1>14 DEF Wins, CommonWins, WeakWins, ReferenceWins, StrongSymbol
  <1>16. strong = {} /\ common # {} => CommonSymbol(e.symbol)
    <2>1. StrongSymbol(e.symbol) => strong # {}
      BY <1>4, <1>11 DEF Wins, StrongWins, FromOne
    <2> QED
      BY <1>4, <1>9, <1>14, <2>1 DEF Wins, WeakWins, ReferenceWins, CommonSymbol
  <1>17. strong = {} /\ common = {} /\ weak # {} => WeakSymbol(e.symbol)
    <2>1. StrongSymbol(e.symbol) => strong # {}
      BY <1>4, <1>11 DEF Wins, StrongWins, FromOne
    <2>2. CommonSymbol(e.symbol) => common # {}
      BY <1>4, <1>12 DEF Wins, CommonWins, CommonSymbol
    <2> QED
      BY <1>4, <1>10, <1>14, <2>1, <2>2 DEF Wins, ReferenceWins, WeakSymbol
  <1>18. strong # {} => strong = {e.source}
    <2> SUFFICES ASSUME strong # {}
                 PROVE  strong = {e.source}
      OBVIOUS
    <2>1. PICK q \in K : FromOne(e, q) /\ \A p \in K : StrongSymbol(pending[p].symbol) => p = q
      BY <1>4, <1>15 DEF Wins, StrongWins
    <2>2. \A i \in strong : i = pending[q].source
      BY <1>8, <2>1
    <2> QED
      BY <2>1, <2>2 DEF FromOne
  <1>19. Cardinality(strong) <= 1
    <2>1. Cardinality({}) = 0 /\ Cardinality({e.source}) = 1
      BY FS_EmptySet, FS_Singleton
    <2> QED
      BY <1>18, <2>1
  <1>20. strong = {} /\ common # {} => e.symbol.place = "common" /\ e.source \in common
    BY <1>4, <1>12, <1>16 DEF Wins, CommonWins, CommonSymbol
  <1>21. strong = {} /\ common = {} /\ weak # {} =>
            e.source \in weak /\ \A i \in weak : e.source <= i
    <2> SUFFICES ASSUME strong = {}, common = {}, weak # {}
                 PROVE  e.source \in weak /\ \A i \in weak : e.source <= i
      OBVIOUS
    <2>1. PICK q \in K : FromOne(e, q) /\ \A p \in K : WeakSymbol(pending[p].symbol) => q <= p
      BY <1>4, <1>17 DEF Wins, WeakWins
    <2>2. pending[q].source \in weak /\ e.source = pending[q].source
      BY <1>13, <1>17, <2>1 DEF FromOne
    <2>3. ASSUME NEW i \in weak
          PROVE  e.source <= i
      <3>1. PICK p \in K : pending[p].source = i /\ WeakSymbol(pending[p].symbol)
        BY <1>10
      <3>2. q <= p
        BY <2>1, <3>1
      <3>3. q \in 1 .. m /\ p \in 1 .. m
        BY DEF K, Kin
      <3>4. i \in Nat /\ i # 0 /\ pending[q].source \in Nat
        BY <1>2, <2>2 DEF weak, of
      <3>5. q < p => pending[q].source \in 1 .. i - 1
        BY <1>1, <1>2, <3>1, <3>3, <3>4 DEF PendingFrom
      <3> QED
        BY <2>2, <3>1, <3>2, <3>3, <3>4, <3>5
    <2> QED
      BY <2>2, <2>3
  <1> QED
    BY <1>5, <1>18, <1>19, <1>20, <1>21 DEF e, strong, common, weak, of, n

(* Whatever the symbols, marks, forced names and cuts, the symbol table of *)
(* a partial link stands for its inputs: every symbol a later link can name*)
(* has one entry, and the entry of a name is its definition of the highest *)
(* rank (canonicalize_nonlocal_symbols).                                   *)
THEOREM PartialLinkStandsForInputs == BothSpec => []OutputStandsForInputs
  <1>1. PartInv => OutputStandsForInputs
    BY InvMapsSymbols, InvRanks DEF OutputStandsForInputs
  <1> QED
    BY <1>1, PartInvariance, PTL


-----------------------------------------------------------------------------
(* The output as the input of a later link.                                *)
LEMMA EmittedIsRead ==
  ASSUME PartInv
  PROVE  /\ Emitted \in Seq(Candidate)
         /\ Len(Emitted) = Len(locals) + Len(canonical)
         /\ \A k \in 1 .. Len(locals) : Emitted[k] = input[locals[k]]
         /\ \A k \in 1 .. Len(canonical) : Emitted[Len(locals) + k] = canonical[k].symbol
  <1>1. PICK f : f = [k \in DOMAIN locals |-> input[locals[k]]]
    OBVIOUS
  <1>2. PICK g : g = [k \in DOMAIN canonical |-> canonical[k].symbol]
    OBVIOUS
  <1>3. /\ input \in Seq(Candidate) /\ locals \in Seq(DOMAIN input)
        /\ canonical \in Seq(Canonical)
    BY DEF PartInv, PartTypeOK
  <1>4. /\ Len(locals) \in Nat /\ DOMAIN locals = 1 .. Len(locals)
        /\ Len(canonical) \in Nat /\ DOMAIN canonical = 1 .. Len(canonical)
    BY <1>3, LenProperties
  <1>5. f \in Seq(Candidate) /\ Len(f) = Len(locals)
    <2>1. \A k \in 1 .. Len(locals) : f[k] \in Candidate
      <3> SUFFICES ASSUME NEW k \in 1 .. Len(locals) PROVE input[locals[k]] \in Candidate
        BY <1>1, <1>4
      <3>1. locals[k] \in DOMAIN input
        BY <1>3, ElementOfSeq
      <3>2. locals[k] \in 1 .. Len(input)
        BY <1>3, <3>1, LenProperties
      <3> QED
        BY <1>3, <3>2, ElementOfSeq
    <2>2. f = [k \in 1 .. Len(locals) |-> f[k]]
      BY <1>1, <1>4
    <2>3. f \in [1 .. Len(locals) -> Candidate]
      BY <2>1, <2>2
    <2> QED
      BY <1>4, <2>3, IsASeq, LenProperties
  <1>6. g \in Seq(Candidate) /\ Len(g) = Len(canonical)
    <2>1. \A k \in 1 .. Len(canonical) : g[k] \in Candidate
      <3> SUFFICES ASSUME NEW k \in 1 .. Len(canonical) PROVE canonical[k].symbol \in Candidate
        BY <1>2, <1>4
      <3>1. canonical[k] \in Canonical
        BY <1>3, ElementOfSeq
      <3> QED
        BY <3>1 DEF Canonical
    <2>2. g = [k \in 1 .. Len(canonical) |-> g[k]]
      BY <1>2, <1>4
    <2>3. g \in [1 .. Len(canonical) -> Candidate]
      BY <2>1, <2>2
    <2> QED
      BY <1>4, <2>3, IsASeq, LenProperties
  <1>7. Emitted = f \o g
    BY <1>1, <1>2 DEF Emitted
  <1>8. /\ f \o g \in Seq(Candidate) /\ Len(f \o g) = Len(f) + Len(g)
        /\ \A i \in 1 .. Len(f) + Len(g) :
              (f \o g)[i] = IF i <= Len(f) THEN f[i] ELSE g[i - Len(f)]
    BY <1>5, <1>6, ConcatProperties
  <1>9. ASSUME NEW k \in 1 .. Len(locals) PROVE Emitted[k] = input[locals[k]]
    BY <1>1, <1>4, <1>5, <1>6, <1>7, <1>8
  <1>10. ASSUME NEW k \in 1 .. Len(canonical)
         PROVE  Emitted[Len(locals) + k] = canonical[k].symbol
    <2>1. /\ Len(locals) + k \in 1 .. Len(f) + Len(g) /\ ~(Len(locals) + k <= Len(f))
          /\ Len(locals) + k - Len(f) = k
      BY <1>4, <1>5, <1>6
    <2> QED
      BY <1>2, <1>4, <1>7, <1>8, <2>1
  <1> QED
    BY <1>4, <1>5, <1>6, <1>7, <1>8, <1>9, <1>10

(* The resolver at work in either link.                                    *)
LinkInv == PartInv /\ ResolveInv /\ CommonInv /\ rest \in Seq(Candidate)

LEMMA LinkInvInit == BothInit => LinkInv
  <1> SUFFICES ASSUME BothInit PROVE LinkInv
    OBVIOUS
  <1>1. PICK s \in Streams : \E c \in CutsOf(s) :
            Begin(s) /\ rest = SubSeq(s, c.first + 1, Len(s))
    BY DEF BothInit
  <1>2. PICK c \in CutsOf(s) : Begin(s) /\ rest = SubSeq(s, c.first + 1, Len(s))
    BY <1>1
  <1>3. s \in Seq(Candidate) /\ c.first \in Nat /\ Len(s) \in Nat
    BY <1>2, StreamsAssumption, CutsAssumption, LenProperties DEF Cut
  <1>4. Fresh
    BY <1>2, BeginsFresh DEF ResolveInit
  <1>5. rest \in Seq(Candidate)
    <2>1. \A i \in c.first + 1 .. Len(s) : s[i] \in Candidate
      BY <1>3, ElementOfSeq
    <2> QED
      BY <1>2, <1>3, <2>1, SubSeqProperties
  <1> QED
    BY <1>4, <1>5, PartInvInit, FreshIsResolved, FreshHasNoStorage DEF LinkInv

LEMMA ResolvedStays ==
  ASSUME ResolveInv, CommonInv, UNCHANGED resolveVars
  PROVE  ResolveInv' /\ CommonInv'
  BY ResolveInvStep, CommonInvStep

LEMMA FreshAgain == (Fresh => ResolveInv /\ CommonInv) /\ (Fresh' => ResolveInv' /\ CommonInv')
  <1>1. Fresh => ResolveInv /\ CommonInv
    BY FreshIsResolved, FreshHasNoStorage
  <1> QED
    BY <1>1, PTL

LEMMA LinkInvariance == BothSpec => []LinkInv
  <1>1. LinkInv /\ [BothNext \/ BothSettled]_bothVars => rest' \in Seq(Candidate)
    BY DEF LinkInv, BothNext, BothSettled, LinkWhole, EndWhole, LinkPart, EndPart, Relink,
           EndRelink, bothVars
  <1>2. LinkInv /\ [BothNext \/ BothSettled]_bothVars => ResolveInv' /\ CommonInv'
    <2> SUFFICES ASSUME LinkInv, [BothNext \/ BothSettled]_bothVars
                 PROVE  ResolveInv' /\ CommonInv'
      OBVIOUS
    <2>1. CASE ResolveNext
      BY <2>1, ResolveInvStep, CommonInvStep DEF LinkInv
    <2>2. CASE UNCHANGED resolveVars
      BY <2>2, ResolvedStays DEF LinkInv
    <2>3. CASE Restart(Emitted \o rest)
      <3>1. Emitted \in Seq(Candidate) /\ rest \in Seq(Candidate)
        BY EmittedIsRead DEF LinkInv
      <3>2. Emitted \o rest \in Seq(Candidate)
        BY <3>1, ConcatProperties
      <3>3. Fresh'
        BY <2>3, <3>2 DEF Restart, Fresh
      <3> QED
        BY <3>3, FreshAgain
    <2> QED
      BY <2>1, <2>2, <2>3 DEF BothNext, BothSettled, LinkWhole, EndWhole, LinkPart, EndPart,
                              Relink, EndRelink, bothVars
  <1>3. BothSpec => []PartInv
    BY PartInvariance
  <1>4. LinkInv /\ PartInv' /\ [BothNext \/ BothSettled]_bothVars => LinkInv'
    BY <1>1, <1>2 DEF LinkInv
  <1> QED
    BY <1>3, <1>4, LinkInvInit, PTL DEF BothSpec

(* Whether the objects are linked at once or after a partial link of some  *)
(* of them, the names are bound by rank, with one strong definition each,  *)
(* and the commons have storage of their own.                              *)
THEOREM BothLinksBindByRank ==
    BothSpec => [](BoundByRank /\ OneStrongDefinition /\ CommonsDoNotOverlap)
  <1>1. LinkInv => BoundByRank /\ OneStrongDefinition /\ CommonsDoNotOverlap
    BY BindingGivesRank DEF LinkInv, ResolveInv, CommonInv
  <1> QED
    BY <1>1, LinkInvariance, PTL

-----------------------------------------------------------------------------

(* A partial link that may be compared with the link of all symbols.       *)
Unmarked ==
    /\ \A i \in DOMAIN input : marks[i] = {}
    /\ \A j \in DOMAIN forced : forced[j] # NoName
    /\ \A i \in DOMAIN input : Nonlocal(input[i]) /\ input[i].name = NoName => ~Refused(input[i])
Merged == PartInv /\ stage = "emitted" /\ Unmarked

(* The pending symbols are the nonlocal ones of the input and the forced   *)
(* names that the input does not mention.                                  *)
LEMMA PendingIsInput ==
  ASSUME Merged
  PROVE  /\ \A k \in DOMAIN pending :
              /\ Nonlocal(pending[k].symbol) /\ ~Refused(pending[k].symbol)
              /\ pending[k].source # 0 => /\ pending[k].source \in DOMAIN input
                                          /\ pending[k].symbol = input[pending[k].source]
              /\ pending[k].source = 0 => /\ pending[k].symbol.place = "undef"
                                          /\ pending[k].symbol.bind = "global"
                                          /\ pending[k].symbol.name # NoName
         /\ \A i \in DOMAIN input : Nonlocal(input[i]) =>
              \E k \in DOMAIN pending : pending[k].source = i /\ pending[k].symbol = input[i]
         /\ \A i \in DOMAIN input : input[i].bind # "unique"
         /\ \A j, k \in DOMAIN pending :
              pending[j].source # 0 /\ pending[k].source # 0 /\ j <= k =>
                  pending[j].source <= pending[k].source
         /\ \A k \in DOMAIN pending : pending[k].source = 0 =>
              \A i \in DOMAIN input : Nonlocal(input[i]) => input[i].name # pending[k].symbol.name
  <1>1. /\ PendingFrom(Len(input)) /\ MergedTo(Len(pending))
        /\ pending \in Seq(Pending) /\ input \in Seq(Candidate)
    BY DEF Merged, PartInv, PartTypeOK
  <1>2. /\ DOMAIN input = 1 .. Len(input) /\ Len(input) \in Nat
        /\ DOMAIN pending = 1 .. Len(pending) /\ Len(pending) \in Nat
    BY <1>1, LenProperties
  <1>3. \A i \in DOMAIN input : ~Lost(i)
    BY DEF Merged, Unmarked, Lost
  <1>4. \A i \in DOMAIN input : ~DropsAt(i) /\ KeptAt(i) = input[i]
    BY <1>3 DEF DropsAt, KeptAt
  <1>5. \A i \in DOMAIN input : i \in TakenTo(Len(input)) <=> Nonlocal(input[i])
    BY <1>2, <1>4 DEF TakenTo
  <1>6. TakenTo(Len(input)) \subseteq DOMAIN input
    BY <1>2 DEF TakenTo
  <1>7. \A k \in DOMAIN pending : ~Refused(pending[k].symbol)
    BY <1>1, <1>2 DEF MergedTo
  <1>8. \A k \in DOMAIN pending :
              /\ Nonlocal(pending[k].symbol)
              /\ pending[k].source # 0 => /\ pending[k].source \in DOMAIN input
                                          /\ pending[k].symbol = input[pending[k].source]
    BY <1>1, <1>4, <1>6 DEF PendingFrom
  <1>9. ASSUME NEW k \in DOMAIN pending, pending[k].source = 0
        PROVE  /\ pending[k].symbol.place = "undef" /\ pending[k].symbol.bind = "global"
               /\ pending[k].symbol.name # NoName
               /\ \A i \in DOMAIN input :
                     Nonlocal(input[i]) => input[i].name # pending[k].symbol.name
    <2>1. PICK x : x = pending[k].symbol.name
      OBVIOUS
    <2>2. /\ pending[k].symbol = Reference(x, "global") /\ x # NoName
          /\ \A i \in TakenTo(Len(input)) : input[i].name # x
      BY <1>1, <1>9, <2>1 DEF PendingFrom
    <2>3. pending[k].symbol.place = "undef" /\ pending[k].symbol.bind = "global"
      BY <2>2 DEF Reference
    <2> QED
      BY <1>5, <2>1, <2>2, <2>3
  <1>10. \A i \in DOMAIN input : Nonlocal(input[i]) =>
              \E k \in DOMAIN pending : pending[k].source = i /\ pending[k].symbol = input[i]
    <2> SUFFICES ASSUME NEW i \in DOMAIN input, Nonlocal(input[i])
                 PROVE  \E k \in DOMAIN pending : pending[k].source = i /\ pending[k].symbol = input[i]
      OBVIOUS
    <2>1. PICK k \in DOMAIN pending : pending[k].source = i
      BY <1>1, <1>5 DEF PendingFrom
    <2>2. pending[k].source # 0
      BY <1>2, <2>1
    <2> QED
      BY <1>8, <2>1, <2>2
  <1>11. ASSUME NEW j \in DOMAIN pending, NEW k \in DOMAIN pending,
                pending[j].source # 0, pending[k].source # 0, j <= k
         PROVE  pending[j].source <= pending[k].source
    <2>1. pending[k].source \in Nat
      BY <1>2, <1>8, <1>11
    <2>2. CASE j = k
      BY <2>1, <2>2
    <2>3. CASE j < k
      <3>1. pending[j].source \in 1 .. pending[k].source - 1
        BY <1>1, <1>11, <2>3 DEF PendingFrom
      <3> QED
        BY <2>1, <3>1
    <2> QED
      BY <1>2, <1>11, <2>2, <2>3
  <1>12. \A i \in DOMAIN input : input[i].bind # "unique"
    BY <1>1, <1>2 DEF PendingFrom
  <1> QED
    BY <1>7, <1>8, <1>9, <1>10, <1>11, <1>12

(* The input's symbols of an entry's name, and how the entry comes to be   *)
(* theirs.                                                                 *)
LEMMA EntryOfName ==
  ASSUME Merged, NEW c \in DOMAIN canonical, NEW e, e = canonical[c], NEW n \in Names,
         e.symbol.name = n
  PROVE  \E K : /\ Wins(e, K) /\ K \subseteq DOMAIN pending
                /\ \A i \in DOMAIN input : Nonlocal(input[i]) /\ input[i].name = n =>
                      \E k \in K : pending[k].source = i /\ pending[k].symbol = input[i]
                /\ \A k \in K : pending[k].symbol.name = n
  <1>1. PICK K : K = Kin(e, Len(pending))
    OBVIOUS
  <1>2. MergedTo(Len(pending)) /\ DOMAIN pending = 1 .. Len(pending) /\ n # NoName
    BY NoNameAssumption, LenProperties DEF Merged, PartInv, PartTypeOK
  <1>3. Wins(e, K) /\ K \subseteq DOMAIN pending
    BY <1>1, <1>2 DEF MergedTo, Kin
  <1>4. \A k \in DOMAIN pending : k \in K <=> pending[k].symbol.name = n
    BY <1>1, <1>2 DEF Kin
  <1> QED
    BY <1>3, <1>4, PendingIsInput

LEMMA EntryRanks ==
  ASSUME Merged, NEW c \in DOMAIN canonical, NEW e, e = canonical[c], NEW n \in Names,
         e.symbol.name = n
  PROVE  /\ e.symbol \in Candidate /\ Nonlocal(e.symbol) /\ ~Refused(e.symbol)
         /\ StrongSymbol(e.symbol) =>
              e.source \in StrongsOf(input, n) /\ input[e.source] = e.symbol
         /\ \A i, j \in StrongsOf(input, n) : i = j
         /\ ~StrongSymbol(e.symbol) => StrongsOf(input, n) = {}
         /\ CommonSymbol(e.symbol) => Asked(input, n, e.symbol.size, e.symbol.value)
         /\ ~StrongSymbol(e.symbol) /\ ~CommonSymbol(e.symbol) => CommonsOf(input, n) = {}
         /\ WeakSymbol(e.symbol) =>
              /\ e.source \in WeaksOf(input, n) /\ input[e.source] = e.symbol
              /\ \A i \in WeaksOf(input, n) : e.source <= i
         /\ SymbolsOf(input, n) = {} <=> e.symbol.place = "undef"
  <1>1. PICK K : /\ Wins(e, K) /\ K \subseteq DOMAIN pending
                 /\ \A i \in DOMAIN input : Nonlocal(input[i]) /\ input[i].name = n =>
                       \E k \in K : pending[k].source = i /\ pending[k].symbol = input[i]
                 /\ \A k \in K : pending[k].symbol.name = n
    BY EntryOfName
  <1>2. /\ e.symbol \in Candidate /\ Nonlocal(e.symbol)
    BY <1>1, EntryType DEF Merged, Wins
  <1>3. n # NoName /\ PartInv
    BY NoNameAssumption DEF Merged
  <1>4. \A i \in SymbolsOf(input, n) :
           \E k \in K : pending[k].source = i /\ pending[k].symbol = input[i]
    BY <1>1 DEF SymbolsOf, Defines
  <1>5. ASSUME NEW k \in K, pending[k].symbol.place # "undef"
        PROVE  /\ pending[k].source \in SymbolsOf(input, n)
               /\ input[pending[k].source] = pending[k].symbol
    <2>1. k \in DOMAIN pending /\ pending[k].symbol.name = n
      BY <1>1
    <2>2. /\ pending[k].source \in DOMAIN input /\ input[pending[k].source] = pending[k].symbol
          /\ Nonlocal(pending[k].symbol)
      BY <1>5, <2>1, PendingIsInput
    <2>3. PICK i \in DOMAIN input : i = pending[k].source /\ input[i] = pending[k].symbol
      BY <2>2
    <2>4. Defines(input[i]) /\ input[i].name = n
      BY <1>3, <1>5, <2>1, <2>2, <2>3 DEF Defines
    <2> QED
      BY <2>3, <2>4 DEF SymbolsOf
  <1>6. StrongSymbol(e.symbol) \/ WeakSymbol(e.symbol) \/ CommonSymbol(e.symbol)
        \/ e.symbol.place = "undef"
    BY <1>2 DEF StrongSymbol, WeakSymbol, CommonSymbol, Candidate, Nonlocal
  <1>7. ASSUME StrongSymbol(e.symbol)
        PROVE  e.source \in StrongsOf(input, n) /\ input[e.source] = e.symbol
    <2>1. PICK k \in K : FromOne(e, k)
      BY <1>1, <1>7 DEF Wins, StrongWins
    <2>2. /\ pending[k].symbol = e.symbol /\ pending[k].source = e.source
          /\ e.symbol.place = "section" /\ e.symbol.bind = "global"
      BY <1>7, <2>1 DEF FromOne, StrongSymbol
    <2>3. e.source \in SymbolsOf(input, n) /\ input[e.source] = e.symbol
      BY <1>5, <2>2
    <2> QED
      BY <2>2, <2>3 DEF StrongsOf
  <1>8. ASSUME ~StrongSymbol(e.symbol), NEW i \in StrongsOf(input, n)
        PROVE  FALSE
    <2>1. i \in SymbolsOf(input, n) /\ StrongSymbol(input[i])
      BY DEF StrongsOf, StrongSymbol
    <2>2. PICK k \in K : pending[k].symbol = input[i]
      BY <1>4, <2>1
    <2>3. StrongSymbol(pending[k].symbol) /\ pending[k].symbol.place # "undef"
      BY <2>1, <2>2 DEF StrongSymbol
    <2> QED
      BY <1>1, <1>6, <1>8, <2>3 DEF Wins, CommonWins, WeakWins, ReferenceWins
  <1>9. ASSUME NEW i \in StrongsOf(input, n), NEW j \in StrongsOf(input, n)
         PROVE  i = j
    <2>1. StrongSymbol(e.symbol)
      BY <1>8, <1>9
    <2>2. PICK k \in K : \A m \in K : StrongSymbol(pending[m].symbol) => m = k
      BY <1>1, <2>1 DEF Wins, StrongWins
    <2>3. ASSUME NEW x \in StrongsOf(input, n) PROVE x = pending[k].source
      <3>1. x \in SymbolsOf(input, n) /\ StrongSymbol(input[x])
        BY DEF StrongsOf, StrongSymbol
      <3>2. PICK m \in K : pending[m].source = x /\ pending[m].symbol = input[x]
        BY <1>4, <3>1
      <3> QED
        BY <2>2, <3>1, <3>2
    <2> QED
      BY <1>9, <2>3
  <1>10. ASSUME CommonSymbol(e.symbol)
        PROVE  Asked(input, n, e.symbol.size, e.symbol.value) /\ e.symbol.bind = "global"
    <2>0. /\ e.symbol.bind = "global"
          /\ \E k \in K : CommonSymbol(pending[k].symbol) /\ pending[k].symbol.size = e.symbol.size
          /\ \E k \in K : CommonSymbol(pending[k].symbol) /\ pending[k].symbol.value = e.symbol.value
          /\ \A k \in K : CommonSymbol(pending[k].symbol) =>
                /\ pending[k].symbol.size <= e.symbol.size
                /\ pending[k].symbol.value <= e.symbol.value
      BY <1>1, <1>10 DEF Wins, CommonWins
    <2>1. StrongsOf(input, n) = {}
      BY <1>8, <1>10 DEF StrongSymbol, CommonSymbol
    <2>2. \A k \in K : CommonSymbol(pending[k].symbol) =>
             /\ pending[k].source \in CommonsOf(input, n)
             /\ input[pending[k].source] = pending[k].symbol
      BY <1>5 DEF CommonSymbol, CommonsOf
    <2>3. \A i \in CommonsOf(input, n) :
             \E k \in K : CommonSymbol(pending[k].symbol) /\ pending[k].symbol = input[i]
      BY <1>4 DEF CommonsOf, CommonSymbol
    <2>4. \E i \in CommonsOf(input, n) : input[i].size = e.symbol.size
      BY <2>0, <2>2
    <2>5. \E i \in CommonsOf(input, n) : input[i].value = e.symbol.value
      BY <2>0, <2>2
    <2>6. \A i \in CommonsOf(input, n) :
             input[i].size <= e.symbol.size /\ input[i].value <= e.symbol.value
      BY <2>0, <2>3
    <2> QED
      BY <2>0, <2>1, <2>4, <2>5, <2>6 DEF Asked
  <1>11. ASSUME ~StrongSymbol(e.symbol), ~CommonSymbol(e.symbol), NEW i \in CommonsOf(input, n)
         PROVE  FALSE
    <2>1. i \in SymbolsOf(input, n) /\ CommonSymbol(input[i])
      BY DEF CommonsOf, CommonSymbol
    <2>2. PICK k \in K : pending[k].symbol = input[i]
      BY <1>4, <2>1
    <2>3. CommonSymbol(pending[k].symbol) /\ pending[k].symbol.place # "undef"
      BY <2>1, <2>2 DEF CommonSymbol
    <2> QED
      BY <1>1, <1>6, <1>11, <2>3 DEF Wins, WeakWins, ReferenceWins
  <1>12. ASSUME WeakSymbol(e.symbol)
         PROVE  /\ e.source \in WeaksOf(input, n) /\ input[e.source] = e.symbol
                /\ \A i \in WeaksOf(input, n) : e.source <= i
    <2>1. PICK k \in K : /\ FromOne(e, k)
                         /\ \A j \in K : WeakSymbol(pending[j].symbol) => k <= j
      BY <1>1, <1>12 DEF Wins, WeakWins
    <2>2. /\ pending[k].symbol = e.symbol /\ pending[k].source = e.source
          /\ e.symbol.place = "section" /\ e.symbol.bind = "weak"
      BY <1>12, <2>1 DEF FromOne, WeakSymbol
    <2>3. e.source \in SymbolsOf(input, n) /\ input[e.source] = e.symbol
      BY <1>5, <2>2
    <2>4. ASSUME NEW i \in WeaksOf(input, n) PROVE e.source <= i
      <3>1. i \in SymbolsOf(input, n) /\ WeakSymbol(input[i])
        BY DEF WeaksOf, WeakSymbol
      <3>2. PICK j \in K : pending[j].source = i /\ pending[j].symbol = input[i]
        BY <1>4, <3>1
      <3>3. k <= j
        BY <2>1, <3>1, <3>2
      <3>4. i # 0 /\ e.source # 0
        BY <1>3, <2>3, <3>1, PendingTypes DEF SymbolsOf
      <3> QED
        BY <1>1, <2>2, <3>2, <3>3, <3>4, PendingIsInput
    <2> QED
      BY <2>2, <2>3, <2>4 DEF WeaksOf
  <1>13. ASSUME e.symbol.place = "undef", NEW i \in SymbolsOf(input, n)
         PROVE  FALSE
    <2>1. PICK k \in K : pending[k].symbol = input[i]
      BY <1>4
    <2>2. pending[k].symbol.place = "undef"
      BY <1>1, <1>13 DEF Wins, ReferenceWins
    <2> QED
      BY <2>1, <2>2 DEF SymbolsOf, Defines
  <1>14. SymbolsOf(input, n) = {} => e.symbol.place = "undef"
    BY <1>6, <1>7, <1>10, <1>12 DEF StrongsOf, WeaksOf, Asked, CommonsOf
  <1>15. ~Refused(e.symbol)
    <2> SUFFICES ASSUME CommonSymbol(e.symbol) PROVE e.symbol.bind = "global" /\ PowerOfTwo(e.symbol.value)
      BY DEF Refused, CommonSymbol
    <2>1. PICK k \in K : CommonSymbol(pending[k].symbol) /\ pending[k].symbol.value = e.symbol.value
      BY <1>1 DEF Wins, CommonWins
    <2>2. ~Refused(pending[k].symbol)
      BY <1>1, PendingIsInput
    <2> QED
      BY <1>10, <2>1, <2>2 DEF Refused, CommonSymbol
  <1> QED
    BY <1>2, <1>7, <1>8, <1>10, <1>11, <1>12, <1>13, <1>14, <1>15, <1>9

-----------------------------------------------------------------------------
(* The symbols of the output.                                              *)
LEMMA OriginsAre ==
  ASSUME PartInv
  PROVE  /\ Origins \in Seq(Nat) /\ Len(Origins) = Len(locals) + Len(canonical)
         /\ \A c \in 1 .. Len(canonical) : Origins[Len(locals) + c] = canonical[c].source
  <1>1. PICK g : g = [k \in DOMAIN canonical |-> canonical[k].source]
    OBVIOUS
  <1>2. /\ locals \in Seq(Nat) /\ Len(locals) \in Nat
    <2>1. locals \in Seq(DOMAIN input) /\ DOMAIN input \subseteq Nat
      BY PendingTypes DEF PartInv, PartTypeOK
    <2>2. /\ DOMAIN locals = 1 .. Len(locals) /\ Len(locals) \in Nat
          /\ locals \in [1 .. Len(locals) -> DOMAIN input]
      BY <2>1, LenProperties
    <2>3. locals \in [1 .. Len(locals) -> Nat]
      BY <2>1, <2>2
    <2> QED
      BY <2>2, <2>3, IsASeq
  <1>3. /\ Len(canonical) \in Nat /\ DOMAIN canonical = 1 .. Len(canonical)
    BY PendingTypes
  <1>4. g \in [1 .. Len(canonical) -> Nat]
    <2>1. \A c \in DOMAIN canonical : canonical[c].source \in Nat
      BY EntryType DEF Canonical
    <2> QED
      BY <1>1, <1>3, <2>1
  <1>5. g \in Seq(Nat) /\ Len(g) = Len(canonical)
    BY <1>3, <1>4, IsASeq, LenProperties
  <1>6. Origins = locals \o g
    BY <1>1 DEF Origins
  <1>7. /\ locals \o g \in Seq(Nat) /\ Len(locals \o g) = Len(locals) + Len(g)
        /\ \A i \in 1 .. Len(locals) + Len(g) :
              (locals \o g)[i] = IF i <= Len(locals) THEN locals[i] ELSE g[i - Len(locals)]
    BY <1>2, <1>5, ConcatProperties
  <1>8. ASSUME NEW c \in 1 .. Len(canonical)
        PROVE  Origins[Len(locals) + c] = canonical[c].source
    <2>1. /\ Len(locals) + c \in 1 .. Len(locals) + Len(g) /\ ~(Len(locals) + c <= Len(locals))
          /\ Len(locals) + c - Len(locals) = c
      BY <1>2, <1>3, <1>5
    <2> QED
      BY <1>1, <1>3, <1>6, <1>7, <2>1
  <1> QED
    BY <1>5, <1>6, <1>7, <1>8

(* A symbol written is a local, or the symbol of an entry.                 *)
LEMMA EmittedIs ==
  ASSUME PartInv, NEW j \in DOMAIN Emitted
  PROVE  \/ /\ Emitted[j].bind = "local"
            /\ \E i \in DOMAIN input : Emitted[j] = input[i]
         \/ \E c \in DOMAIN canonical : /\ j = Len(locals) + c
                                        /\ Emitted[j] = canonical[c].symbol
                                        /\ Origins[j] = canonical[c].source
  <1>1. /\ Len(locals) \in Nat /\ DOMAIN locals = 1 .. Len(locals)
        /\ Len(canonical) \in Nat /\ DOMAIN canonical = 1 .. Len(canonical)
    BY PendingTypes, LenProperties DEF PartInv, PartTypeOK
  <1>2. j \in 1 .. Len(locals) + Len(canonical)
    BY EmittedIsRead, LenProperties
  <1>3. CASE j <= Len(locals)
    <2>1. j \in 1 .. Len(locals) /\ Emitted[j] = input[locals[j]] /\ input[locals[j]].bind = "local"
      BY <1>1, <1>2, <1>3, EmittedIsRead DEF PartInv
    <2>2. locals[j] \in DOMAIN input
      BY <2>1, ElementOfSeq DEF PartInv, PartTypeOK
    <2> QED
      BY <2>1, <2>2
  <1>4. CASE ~(j <= Len(locals))
    <2>1. PICK c \in 1 .. Len(canonical) : j = Len(locals) + c
      <3>1. j - Len(locals) \in 1 .. Len(canonical) /\ j = Len(locals) + (j - Len(locals))
        BY <1>1, <1>2, <1>4
      <3> QED
        BY <3>1
    <2> QED
      BY <1>1, <2>1, EmittedIsRead, OriginsAre
  <1> QED
    BY <1>3, <1>4

LEMMA EntryIsEmitted ==
  ASSUME PartInv, NEW c \in DOMAIN canonical
  PROVE  \E j \in DOMAIN Emitted : /\ j = Len(locals) + c /\ j # 0
                                   /\ Emitted[j] = canonical[c].symbol
                                   /\ Origins[j] = canonical[c].source
  <1>1. /\ Len(locals) \in Nat /\ Len(canonical) \in Nat /\ c \in 1 .. Len(canonical)
    BY PendingTypes, LenProperties DEF PartInv, PartTypeOK
  <1>2. Len(locals) + c \in 1 .. Len(locals) + Len(canonical)
    BY <1>1
  <1>3. DOMAIN Emitted = 1 .. Len(locals) + Len(canonical)
    BY EmittedIsRead, LenProperties
  <1> QED
    BY <1>1, <1>2, <1>3, EmittedIsRead, OriginsAre

(* The entry of a name that the input mentions.                            *)
LEMMA NameHasEntry ==
  ASSUME Merged, NEW i \in DOMAIN input, Nonlocal(input[i])
  PROVE  \E c \in DOMAIN canonical :
            canonical[c].symbol.name = input[i].name /\ i \in canonical[c].sources
  <1>1. PICK k \in DOMAIN pending : pending[k].source = i /\ pending[k].symbol = input[i]
    BY PendingIsInput
  <1>2. MergedTo(Len(pending)) /\ k \in 1 .. Len(pending) /\ i # 0
    BY PendingTypes DEF Merged, PartInv
  <1> QED
    BY <1>1, <1>2 DEF MergedTo

(* What the output says of a name, by what the input says of it.           *)
LEMMA EmittedOfName ==
  ASSUME Merged, NEW n \in Names
  PROVE  /\ SymbolsOf(input, n) = {} <=> SymbolsOf(Emitted, n) = {}
         /\ \A i, j \in SymbolsOf(Emitted, n) : i = j
         /\ \A i, j \in StrongsOf(input, n) : i = j
         /\ \A j \in StrongsOf(Emitted, n) :
              Origins[j] \in StrongsOf(input, n) /\ input[Origins[j]] = Emitted[j]
         /\ StrongsOf(Emitted, n) = {} => StrongsOf(input, n) = {}
         /\ \A j \in CommonsOf(Emitted, n) :
              Asked(input, n, Emitted[j].size, Emitted[j].value)
         /\ StrongsOf(Emitted, n) = {} /\ CommonsOf(Emitted, n) = {} => CommonsOf(input, n) = {}
         /\ \A j \in WeaksOf(Emitted, n) :
              /\ Origins[j] \in WeaksOf(input, n) /\ input[Origins[j]] = Emitted[j]
              /\ \A i \in WeaksOf(input, n) : Origins[j] <= i
  <1>1. PartInv /\ n # NoName /\ MergedTo(Len(pending))
    BY NoNameAssumption DEF Merged, PartInv
  <1>2. ASSUME NEW j \in SymbolsOf(Emitted, n)
        PROVE  \E c \in DOMAIN canonical : /\ j = Len(locals) + c
                                           /\ Emitted[j] = canonical[c].symbol
                                           /\ Origins[j] = canonical[c].source
                                           /\ canonical[c].symbol.name = n
    <2>1. j \in DOMAIN Emitted /\ Defines(Emitted[j]) /\ Emitted[j].name = n
      BY DEF SymbolsOf
    <2>2. Emitted[j].bind # "local"
      BY <2>1 DEF Defines, Nonlocal
    <2> QED
      BY <1>1, <2>1, <2>2, EmittedIs
  <1>3. CASE \A c \in DOMAIN canonical : canonical[c].symbol.name # n
    <2>1. SymbolsOf(Emitted, n) = {}
      BY <1>2, <1>3
    <2>2. SymbolsOf(input, n) = {}
      BY <1>3, NameHasEntry DEF SymbolsOf, Defines
    <2> QED
      BY <2>1, <2>2 DEF StrongsOf, CommonsOf, WeaksOf
  <1>4. ASSUME NEW c \in DOMAIN canonical, canonical[c].symbol.name = n
        PROVE  /\ SymbolsOf(input, n) = {} <=> SymbolsOf(Emitted, n) = {}
               /\ \A i, j \in SymbolsOf(Emitted, n) : i = j
               /\ \A i, j \in StrongsOf(input, n) : i = j
               /\ \A j \in StrongsOf(Emitted, n) :
                    Origins[j] \in StrongsOf(input, n) /\ input[Origins[j]] = Emitted[j]
               /\ StrongsOf(Emitted, n) = {} => StrongsOf(input, n) = {}
               /\ \A j \in CommonsOf(Emitted, n) :
                    Asked(input, n, Emitted[j].size, Emitted[j].value)
               /\ StrongsOf(Emitted, n) = {} /\ CommonsOf(Emitted, n) = {} =>
                    CommonsOf(input, n) = {}
               /\ \A j \in WeaksOf(Emitted, n) :
                    /\ Origins[j] \in WeaksOf(input, n) /\ input[Origins[j]] = Emitted[j]
                    /\ \A i \in WeaksOf(input, n) : Origins[j] <= i
    <2>1. PICK e : e = canonical[c]
      OBVIOUS
    <2>2. PICK k \in DOMAIN Emitted : /\ k = Len(locals) + c
                                      /\ Emitted[k] = e.symbol /\ Origins[k] = e.source
      BY <1>1, <2>1, EntryIsEmitted
    <2>3. \A d \in DOMAIN canonical : canonical[d].symbol.name = n => d = c
      BY <1>1, <1>4 DEF MergedTo
    <2>4. \A j \in SymbolsOf(Emitted, n) : j = k
      BY <1>2, <2>2, <2>3
    <2>5. /\ e.symbol \in Candidate /\ Nonlocal(e.symbol)
          /\ StrongSymbol(e.symbol) =>
               e.source \in StrongsOf(input, n) /\ input[e.source] = e.symbol
          /\ \A i, j \in StrongsOf(input, n) : i = j
          /\ ~StrongSymbol(e.symbol) => StrongsOf(input, n) = {}
          /\ CommonSymbol(e.symbol) => Asked(input, n, e.symbol.size, e.symbol.value)
          /\ ~StrongSymbol(e.symbol) /\ ~CommonSymbol(e.symbol) => CommonsOf(input, n) = {}
          /\ WeakSymbol(e.symbol) =>
               /\ e.source \in WeaksOf(input, n) /\ input[e.source] = e.symbol
               /\ \A i \in WeaksOf(input, n) : e.source <= i
          /\ SymbolsOf(input, n) = {} <=> e.symbol.place = "undef"
      BY <1>4, <2>1, EntryRanks
    <2>6. SymbolsOf(Emitted, n) = {} <=> e.symbol.place = "undef"
      <3>1. Defines(e.symbol) <=> e.symbol.place # "undef"
        BY <1>1, <1>4, <2>1, <2>5 DEF Defines
      <3>2. k \in SymbolsOf(Emitted, n) <=> Defines(e.symbol)
        BY <1>4, <2>1, <2>2 DEF SymbolsOf
      <3> QED
        BY <2>4, <3>1, <3>2
    <2>7. /\ k \in StrongsOf(Emitted, n) <=> StrongSymbol(e.symbol)
          /\ k \in CommonsOf(Emitted, n) <=> CommonSymbol(e.symbol)
          /\ k \in WeaksOf(Emitted, n) <=> WeakSymbol(e.symbol)
      <3>1. e.symbol.place # "undef" => k \in SymbolsOf(Emitted, n)
        BY <2>4, <2>6
      <3>2. Emitted[k] = e.symbol
        BY <2>2
      <3> QED
        BY <3>1, <3>2 DEF StrongsOf, CommonsOf, WeaksOf, StrongSymbol, CommonSymbol, WeakSymbol
    <2>8. /\ \A j \in StrongsOf(Emitted, n) : j = k
          /\ \A j \in CommonsOf(Emitted, n) : j = k
          /\ \A j \in WeaksOf(Emitted, n) : j = k
      BY <2>4 DEF StrongsOf, CommonsOf, WeaksOf
    <2>9. SymbolsOf(input, n) = {} <=> SymbolsOf(Emitted, n) = {}
      BY <2>5, <2>6
    <2>10. ASSUME NEW j \in StrongsOf(Emitted, n)
           PROVE  Origins[j] \in StrongsOf(input, n) /\ input[Origins[j]] = Emitted[j]
      BY <2>2, <2>5, <2>7, <2>8
    <2>11. ASSUME NEW j \in CommonsOf(Emitted, n)
           PROVE  Asked(input, n, Emitted[j].size, Emitted[j].value)
      BY <2>2, <2>5, <2>7, <2>8
    <2>12. ASSUME NEW j \in WeaksOf(Emitted, n)
           PROVE  /\ Origins[j] \in WeaksOf(input, n) /\ input[Origins[j]] = Emitted[j]
                  /\ \A i \in WeaksOf(input, n) : Origins[j] <= i
      BY <2>2, <2>5, <2>7, <2>8
    <2>13. StrongsOf(Emitted, n) = {} => StrongsOf(input, n) = {}
      BY <2>5, <2>7
    <2>14. StrongsOf(Emitted, n) = {} /\ CommonsOf(Emitted, n) = {} => CommonsOf(input, n) = {}
      BY <2>5, <2>7
    <2> QED
      BY <2>4, <2>5, <2>9, <2>10, <2>11, <2>12, <2>13, <2>14
  <1> QED
    BY <1>3, <1>4

-----------------------------------------------------------------------------
(* The symbols of two streams one behind the other.                        *)
LEMMA OfParts ==
  ASSUME NEW a \in Seq(Candidate), NEW r \in Seq(Candidate), NEW n
  PROVE  /\ a \o r \in Seq(Candidate)
         /\ \A i \in DOMAIN a : i # 0 /\ i \in DOMAIN (a \o r) /\ (a \o r)[i] = a[i]
         /\ \A k \in DOMAIN r : /\ k \in Nat \ {0} /\ Len(a) + k \in DOMAIN (a \o r)
                                /\ (a \o r)[Len(a) + k] = r[k]
         /\ \A i \in DOMAIN (a \o r) : i \in DOMAIN a \/ \E k \in DOMAIN r : i = Len(a) + k
         /\ SymbolsOf(a \o r, n) = SymbolsOf(a, n) \cup {Len(a) + k : k \in SymbolsOf(r, n)}
         /\ StrongsOf(a \o r, n) = StrongsOf(a, n) \cup {Len(a) + k : k \in StrongsOf(r, n)}
         /\ CommonsOf(a \o r, n) = CommonsOf(a, n) \cup {Len(a) + k : k \in CommonsOf(r, n)}
         /\ WeaksOf(a \o r, n) = WeaksOf(a, n) \cup {Len(a) + k : k \in WeaksOf(r, n)}
  <1>1. PICK s : s = a \o r
    OBVIOUS
  <1>2. PICK l \in Nat : l = Len(a)
    BY LenProperties
  <1>3. PICK m \in Nat : m = Len(r)
    BY LenProperties
  <1>4. DOMAIN a = 1 .. l /\ DOMAIN r = 1 .. m
    BY <1>2, <1>3, LenProperties
  <1>5. /\ s \in Seq(Candidate) /\ Len(s) = l + m
        /\ \A i \in 1 .. l + m : s[i] = IF i <= l THEN a[i] ELSE r[i - l]
    BY <1>1, <1>2, <1>3, ConcatProperties
  <1>6. DOMAIN s = 1 .. l + m
    BY <1>5, LenProperties
  <1>7. \A i \in DOMAIN a : i # 0 /\ i \in DOMAIN s /\ s[i] = a[i]
    BY <1>4, <1>5, <1>6
  <1>8. \A k \in DOMAIN r : k \in Nat \ {0} /\ l + k \in DOMAIN s /\ s[l + k] = r[k]
    <2> SUFFICES ASSUME NEW k \in DOMAIN r
                 PROVE  k \in Nat \ {0} /\ l + k \in DOMAIN s /\ s[l + k] = r[k]
      OBVIOUS
    <2>1. k \in 1 .. m /\ l + k \in 1 .. l + m /\ ~(l + k <= l) /\ (l + k) - l = k
      BY <1>4
    <2> QED
      BY <1>5, <1>6, <2>1
  <1>9. \A i \in DOMAIN s : i \in DOMAIN a \/ \E k \in DOMAIN r : i = l + k
    <2> SUFFICES ASSUME NEW i \in DOMAIN s, i \notin DOMAIN a
                 PROVE  \E k \in DOMAIN r : i = l + k
      OBVIOUS
    <2>1. i - l \in 1 .. m /\ i = l + (i - l)
      BY <1>4, <1>6
    <2> QED
      BY <1>4, <2>1
  <1>10. \A i \in DOMAIN s : i \in SymbolsOf(s, n) <=>
            i \in SymbolsOf(a, n) \/ \E k \in SymbolsOf(r, n) : i = l + k
    <2>1. \A i \in DOMAIN a : i \in SymbolsOf(s, n) <=> i \in SymbolsOf(a, n)
      BY <1>7 DEF SymbolsOf
    <2>2. \A k \in DOMAIN r : l + k \in SymbolsOf(s, n) <=> k \in SymbolsOf(r, n)
      BY <1>8 DEF SymbolsOf
    <2>3. \A i \in DOMAIN a : \A k \in DOMAIN r : i # l + k
      BY <1>4
    <2>4. \A j, k \in DOMAIN r : l + j = l + k => j = k
      BY <1>4
    <2>5. SymbolsOf(a, n) \subseteq DOMAIN a /\ SymbolsOf(r, n) \subseteq DOMAIN r
      BY DEF SymbolsOf
    <2> QED
      BY <1>9, <2>1, <2>2, <2>3, <2>4, <2>5
  <1>11. SymbolsOf(s, n) = SymbolsOf(a, n) \cup {l + k : k \in SymbolsOf(r, n)}
    <2>1. /\ SymbolsOf(a, n) \subseteq DOMAIN s /\ SymbolsOf(s, n) \subseteq DOMAIN s
          /\ \A k \in SymbolsOf(r, n) : l + k \in DOMAIN s
      BY <1>7, <1>8 DEF SymbolsOf
    <2> QED
      BY <1>10, <2>1
  <1>12. /\ \A i \in SymbolsOf(a, n) : s[i] = a[i]
         /\ \A k \in SymbolsOf(r, n) : s[l + k] = r[k]
    BY <1>7, <1>8 DEF SymbolsOf
  <1>13. StrongsOf(s, n) = StrongsOf(a, n) \cup {l + k : k \in StrongsOf(r, n)}
    BY <1>11, <1>12 DEF StrongsOf
  <1>14. CommonsOf(s, n) = CommonsOf(a, n) \cup {l + k : k \in CommonsOf(r, n)}
    BY <1>11, <1>12 DEF CommonsOf
  <1>15. WeaksOf(s, n) = WeaksOf(a, n) \cup {l + k : k \in WeaksOf(r, n)}
    BY <1>11, <1>12 DEF WeaksOf
  <1> QED
    BY <1>1, <1>2, <1>5, <1>7, <1>8, <1>9, <1>11, <1>13, <1>14, <1>15

(* The stream b says of every name what a says of it, but only once.       *)
Condenses(b, a, o) ==
    /\ \A i \in DOMAIN a : ~Unwelcome(a[i])
    /\ \A j \in DOMAIN b : ~Unwelcome(b[j])
    /\ \A n \in Names :
         /\ SymbolsOf(a, n) = {} <=> SymbolsOf(b, n) = {}
         /\ \A i, j \in SymbolsOf(b, n) : i = j
         /\ \A i, j \in StrongsOf(a, n) : i = j
         /\ \A j \in StrongsOf(b, n) : o[j] \in StrongsOf(a, n) /\ a[o[j]] = b[j]
         /\ StrongsOf(b, n) = {} => StrongsOf(a, n) = {}
         /\ \A j \in CommonsOf(b, n) : Asked(a, n, b[j].size, b[j].value)
         /\ StrongsOf(b, n) = {} /\ CommonsOf(b, n) = {} => CommonsOf(a, n) = {}
         /\ \A j \in WeaksOf(b, n) : /\ o[j] \in WeaksOf(a, n) /\ a[o[j]] = b[j]
                                     /\ \A i \in WeaksOf(a, n) : o[j] <= i

LEMMA SizesOfCommons ==
  ASSUME NEW s \in Seq(Candidate), NEW n, NEW i \in CommonsOf(s, n)
  PROVE  s[i].size \in Nat /\ s[i].value \in Nat
  <1>1. i \in 1 .. Len(s)
    BY LenProperties DEF CommonsOf, SymbolsOf
  <1>2. s[i] \in Candidate
    BY <1>1, ElementOfSeq
  <1> QED
    BY <1>2 DEF Candidate

(* What is asked of two streams one behind the other.                      *)
LEMMA AskedOfParts ==
  ASSUME NEW a \in Seq(Candidate), NEW r \in Seq(Candidate), NEW n, NEW z, NEW v
  PROVE  Asked(a \o r, n, z, v) <=>
           /\ StrongsOf(a, n) = {} /\ StrongsOf(r, n) = {}
           /\ (\E i \in CommonsOf(a, n) : a[i].size = z) \/ (\E k \in CommonsOf(r, n) : r[k].size = z)
           /\ (\E i \in CommonsOf(a, n) : a[i].value = v) \/ (\E k \in CommonsOf(r, n) : r[k].value = v)
           /\ \A i \in CommonsOf(a, n) : a[i].size <= z /\ a[i].value <= v
           /\ \A k \in CommonsOf(r, n) : r[k].size <= z /\ r[k].value <= v
  <1>1. PICK s, l : s = a \o r /\ l = Len(a)
    OBVIOUS
  <1>2. /\ CommonsOf(s, n) = CommonsOf(a, n) \cup {l + k : k \in CommonsOf(r, n)}
        /\ StrongsOf(s, n) = {} <=> StrongsOf(a, n) = {} /\ StrongsOf(r, n) = {}
        /\ \A i \in CommonsOf(a, n) : s[i] = a[i]
        /\ \A k \in CommonsOf(r, n) : s[l + k] = r[k]
    <2>1. /\ StrongsOf(s, n) = StrongsOf(a, n) \cup {l + k : k \in StrongsOf(r, n)}
          /\ CommonsOf(s, n) = CommonsOf(a, n) \cup {l + k : k \in CommonsOf(r, n)}
          /\ \A i \in DOMAIN a : s[i] = a[i]
          /\ \A k \in DOMAIN r : s[l + k] = r[k]
      BY <1>1, OfParts
    <2>2. /\ \A i \in CommonsOf(a, n) : i \in DOMAIN a
          /\ \A k \in CommonsOf(r, n) : k \in DOMAIN r
      BY DEF CommonsOf, SymbolsOf
    <2>3. StrongsOf(s, n) = {} <=> StrongsOf(a, n) = {} /\ StrongsOf(r, n) = {}
      <3>1. \A k \in StrongsOf(r, n) : l + k \in StrongsOf(s, n)
        BY <2>1
      <3>2. StrongsOf(a, n) \subseteq StrongsOf(s, n)
        BY <2>1
      <3>3. \A i \in StrongsOf(s, n) :
               i \in StrongsOf(a, n) \/ \E k \in StrongsOf(r, n) : i = l + k
        BY <2>1
      <3> QED
        BY <3>1, <3>2, <3>3
    <2> QED
      BY <2>1, <2>2, <2>3
  <1>3. Asked(s, n, z, v) <=>
          /\ StrongsOf(s, n) = {}
          /\ \E i \in CommonsOf(s, n) : s[i].size = z
          /\ \E i \in CommonsOf(s, n) : s[i].value = v
          /\ \A i \in CommonsOf(s, n) : s[i].size <= z /\ s[i].value <= v
    BY DEF Asked
  <1>4. /\ (\E i \in CommonsOf(s, n) : s[i].size = z) <=>
              (\E i \in CommonsOf(a, n) : a[i].size = z) \/ (\E k \in CommonsOf(r, n) : r[k].size = z)
        /\ (\E i \in CommonsOf(s, n) : s[i].value = v) <=>
              (\E i \in CommonsOf(a, n) : a[i].value = v) \/ (\E k \in CommonsOf(r, n) : r[k].value = v)
        /\ (\A i \in CommonsOf(s, n) : s[i].size <= z /\ s[i].value <= v) <=>
              /\ \A i \in CommonsOf(a, n) : a[i].size <= z /\ a[i].value <= v
              /\ \A k \in CommonsOf(r, n) : r[k].size <= z /\ r[k].value <= v
    BY <1>2
  <1> QED
    BY <1>1, <1>2, <1>3, <1>4

LEMMA AskedOfTheCut ==
  ASSUME NEW a \in Seq(Candidate), NEW b \in Seq(Candidate), NEW r \in Seq(Candidate), NEW o,
         Condenses(b, a, o), NEW n \in Names, NEW z \in Nat, NEW v \in Nat
  PROVE  Asked(a \o r, n, z, v) <=> Asked(b \o r, n, z, v)
  <1>1. CASE StrongsOf(b, n) # {}
    <2>1. StrongsOf(a, n) # {}
      BY <1>1 DEF Condenses
    <2> QED
      BY <1>1, <2>1, AskedOfParts
  <1>2. CASE StrongsOf(b, n) = {} /\ CommonsOf(b, n) = {}
    <2>1. StrongsOf(a, n) = {} /\ CommonsOf(a, n) = {}
      BY <1>2 DEF Condenses
    <2> QED
      BY <1>2, <2>1, AskedOfParts
  <1>3. ASSUME StrongsOf(b, n) = {}, NEW k \in CommonsOf(b, n)
        PROVE  Asked(a \o r, n, z, v) <=> Asked(b \o r, n, z, v)
    <2>1. StrongsOf(a, n) = {} /\ Asked(a, n, b[k].size, b[k].value)
      BY <1>3 DEF Condenses
    <2>2. \A i \in CommonsOf(b, n) : i = k
      BY <1>3 DEF Condenses, CommonsOf
    <2>3. PICK y \in Nat : y = b[k].size
      BY <1>3, SizesOfCommons
    <2>4. PICK w \in Nat : w = b[k].value
      BY <1>3, SizesOfCommons
    <2>5. /\ \E i \in CommonsOf(a, n) : a[i].size = y
          /\ \E i \in CommonsOf(a, n) : a[i].value = w
          /\ \A i \in CommonsOf(a, n) : /\ a[i].size \in Nat /\ a[i].value \in Nat
                                        /\ a[i].size <= y /\ a[i].value <= w
      BY <2>1, <2>3, <2>4, SizesOfCommons DEF Asked
    <2>6. Asked(b \o r, n, z, v) <=>
           /\ StrongsOf(r, n) = {}
           /\ y = z \/ (\E i \in CommonsOf(r, n) : r[i].size = z)
           /\ w = v \/ (\E i \in CommonsOf(r, n) : r[i].value = v)
           /\ y <= z /\ w <= v
           /\ \A i \in CommonsOf(r, n) : r[i].size <= z /\ r[i].value <= v
      <3>1. /\ (\E i \in CommonsOf(b, n) : b[i].size = z) <=> y = z
            /\ (\E i \in CommonsOf(b, n) : b[i].value = v) <=> w = v
            /\ (\A i \in CommonsOf(b, n) : b[i].size <= z /\ b[i].value <= v) <=> y <= z /\ w <= v
        BY <1>3, <2>2, <2>3, <2>4
      <3> QED
        BY <1>3, <3>1, AskedOfParts
    <2>7. Asked(a \o r, n, z, v) <=>
           /\ StrongsOf(r, n) = {}
           /\ (\E i \in CommonsOf(a, n) : a[i].size = z) \/ (\E i \in CommonsOf(r, n) : r[i].size = z)
           /\ (\E i \in CommonsOf(a, n) : a[i].value = v) \/ (\E i \in CommonsOf(r, n) : r[i].value = v)
           /\ \A i \in CommonsOf(a, n) : a[i].size <= z /\ a[i].value <= v
           /\ \A i \in CommonsOf(r, n) : r[i].size <= z /\ r[i].value <= v
      BY <2>1, AskedOfParts
    <2>8. (\A i \in CommonsOf(a, n) : a[i].size <= z /\ a[i].value <= v) <=> y <= z /\ w <= v
      BY <2>5
    <2>9. y <= z /\ w <= v => /\ (\E i \in CommonsOf(a, n) : a[i].size = z) <=> y = z
                              /\ (\E i \in CommonsOf(a, n) : a[i].value = v) <=> w = v
      BY <2>5
    <2> QED
      BY <2>6, <2>7, <2>8, <2>9
  <1> QED
    BY <1>1, <1>2, <1>3

(* Putting the one for the other in front of other symbols is nothing that *)
(* the resolver could tell.                                                *)
LEMMA CutIsAlike ==
  ASSUME NEW a \in Seq(Candidate), NEW b \in Seq(Candidate), NEW r \in Seq(Candidate), NEW o,
         Condenses(b, a, o), NEW w,
         \A j \in DOMAIN b : w[j] = o[j],
         \A k \in DOMAIN r : w[Len(b) + k] = Len(a) + k
  PROVE  Alike(a \o r, b \o r, w)
  <1> SUFFICES ASSUME NEW n \in Names
               PROVE  /\ SymbolsOf(a \o r, n) = {} <=> SymbolsOf(b \o r, n) = {}
                      /\ StrongsOf(b \o r, n) = {} => StrongsOf(a \o r, n) = {}
                      /\ \A j \in StrongsOf(b \o r, n) :
                            /\ w[j] \in StrongsOf(a \o r, n) /\ (a \o r)[w[j]] = (b \o r)[j]
                            /\ j # 0
                      /\ \A z, v \in Nat : Asked(a \o r, n, z, v) <=> Asked(b \o r, n, z, v)
                      /\ (StrongsOf(b \o r, n) = {} /\ CommonsOf(b \o r, n) = {}) =>
                            /\ CommonsOf(a \o r, n) = {}
                            /\ WeaksOf(b \o r, n) # {} => \E j \in WeaksOf(b \o r, n) :
                                 /\ \A i \in WeaksOf(b \o r, n) : j <= i
                                 /\ w[j] \in WeaksOf(a \o r, n)
                                 /\ (a \o r)[w[j]] = (b \o r)[j] /\ j # 0
                                 /\ \A i \in WeaksOf(a \o r, n) : w[j] <= i
    BY DEF Alike
  <1>1. PICK s : s = a \o r
    OBVIOUS
  <1>2. PICK t : t = b \o r
    OBVIOUS
  <1>3. PICK l \in Nat : l = Len(a)
    BY LenProperties
  <1>4. PICK m \in Nat : m = Len(b)
    BY LenProperties
  <1>5. /\ \A i \in DOMAIN a : i # 0 /\ s[i] = a[i]
        /\ \A k \in DOMAIN r : k \in Nat \ {0} /\ s[l + k] = r[k]
        /\ SymbolsOf(s, n) = SymbolsOf(a, n) \cup {l + k : k \in SymbolsOf(r, n)}
        /\ StrongsOf(s, n) = StrongsOf(a, n) \cup {l + k : k \in StrongsOf(r, n)}
        /\ CommonsOf(s, n) = CommonsOf(a, n) \cup {l + k : k \in CommonsOf(r, n)}
        /\ WeaksOf(s, n) = WeaksOf(a, n) \cup {l + k : k \in WeaksOf(r, n)}
    <2>1. /\ \A i \in DOMAIN a : i # 0 /\ s[i] = a[i]
          /\ \A k \in DOMAIN r : k \in Nat \ {0} /\ s[l + k] = r[k]
      BY <1>1, <1>3, OfParts
    <2>2. /\ SymbolsOf(s, n) = SymbolsOf(a, n) \cup {l + k : k \in SymbolsOf(r, n)}
          /\ StrongsOf(s, n) = StrongsOf(a, n) \cup {l + k : k \in StrongsOf(r, n)}
      BY <1>1, <1>3, OfParts
    <2>3. /\ CommonsOf(s, n) = CommonsOf(a, n) \cup {l + k : k \in CommonsOf(r, n)}
          /\ WeaksOf(s, n) = WeaksOf(a, n) \cup {l + k : k \in WeaksOf(r, n)}
      BY <1>1, <1>3, OfParts
    <2> QED
      BY <2>1, <2>2, <2>3
  <1>6. /\ \A j \in DOMAIN b : j # 0 /\ t[j] = b[j]
        /\ \A k \in DOMAIN r : t[m + k] = r[k]
        /\ SymbolsOf(t, n) = SymbolsOf(b, n) \cup {m + k : k \in SymbolsOf(r, n)}
        /\ StrongsOf(t, n) = StrongsOf(b, n) \cup {m + k : k \in StrongsOf(r, n)}
        /\ CommonsOf(t, n) = CommonsOf(b, n) \cup {m + k : k \in CommonsOf(r, n)}
        /\ WeaksOf(t, n) = WeaksOf(b, n) \cup {m + k : k \in WeaksOf(r, n)}
    <2>1. /\ \A j \in DOMAIN b : j # 0 /\ t[j] = b[j]
          /\ \A k \in DOMAIN r : t[m + k] = r[k]
      BY <1>2, <1>4, OfParts
    <2>2. /\ SymbolsOf(t, n) = SymbolsOf(b, n) \cup {m + k : k \in SymbolsOf(r, n)}
          /\ StrongsOf(t, n) = StrongsOf(b, n) \cup {m + k : k \in StrongsOf(r, n)}
      BY <1>2, <1>4, OfParts
    <2>3. /\ CommonsOf(t, n) = CommonsOf(b, n) \cup {m + k : k \in CommonsOf(r, n)}
          /\ WeaksOf(t, n) = WeaksOf(b, n) \cup {m + k : k \in WeaksOf(r, n)}
      BY <1>2, <1>4, OfParts
    <2> QED
      BY <2>1, <2>2, <2>3
  <1>7. /\ \A j \in DOMAIN b : w[j] = o[j]
        /\ \A k \in DOMAIN r : w[m + k] = l + k
    BY <1>3, <1>4
  <1>8. /\ \A i \in SymbolsOf(a, n) : i \in DOMAIN a
        /\ \A i \in SymbolsOf(b, n) : i \in DOMAIN b
        /\ \A i \in SymbolsOf(r, n) : i \in DOMAIN r
        /\ \A i \in StrongsOf(a, n) : i \in DOMAIN a
        /\ \A i \in StrongsOf(b, n) : i \in DOMAIN b
        /\ \A i \in StrongsOf(r, n) : i \in DOMAIN r
        /\ \A i \in WeaksOf(a, n) : i \in DOMAIN a
        /\ \A i \in WeaksOf(b, n) : i \in DOMAIN b
        /\ \A i \in WeaksOf(r, n) : i \in DOMAIN r
    BY DEF StrongsOf, WeaksOf, SymbolsOf
  <1>9. DOMAIN a = 1 .. l /\ DOMAIN b = 1 .. m
    BY <1>3, <1>4, LenProperties
  <1>10. /\ SymbolsOf(a, n) = {} <=> SymbolsOf(b, n) = {}
         /\ \A i, j \in SymbolsOf(b, n) : i = j
         /\ \A j \in StrongsOf(b, n) : o[j] \in StrongsOf(a, n) /\ a[o[j]] = b[j]
         /\ StrongsOf(b, n) = {} => StrongsOf(a, n) = {}
         /\ StrongsOf(b, n) = {} /\ CommonsOf(b, n) = {} => CommonsOf(a, n) = {}
         /\ \A j \in WeaksOf(b, n) : /\ o[j] \in WeaksOf(a, n) /\ a[o[j]] = b[j]
                                     /\ \A i \in WeaksOf(a, n) : o[j] <= i
    BY DEF Condenses
  <1>11. SymbolsOf(s, n) = {} <=> SymbolsOf(t, n) = {}
    <2>1. CASE \E k \in SymbolsOf(r, n) : TRUE
      <3>1. PICK k \in SymbolsOf(r, n) : TRUE
        BY <2>1
      <3>2. l + k \in SymbolsOf(s, n) /\ m + k \in SymbolsOf(t, n)
        BY <1>5, <1>6
      <3> QED
        BY <3>2
    <2>2. CASE ~ \E k \in SymbolsOf(r, n) : TRUE
      <3>1. SymbolsOf(s, n) = SymbolsOf(a, n) /\ SymbolsOf(t, n) = SymbolsOf(b, n)
        BY <1>5, <1>6, <2>2
      <3> QED
        BY <1>10, <3>1
    <2> QED
      BY <2>1, <2>2
  <1>12. ASSUME StrongsOf(t, n) = {} PROVE StrongsOf(s, n) = {}
    <2>1. StrongsOf(b, n) = {} /\ \A k \in StrongsOf(r, n) : m + k \in StrongsOf(t, n)
      BY <1>6, <1>12
    <2> QED
      BY <1>5, <1>10, <1>12, <2>1
  <1>13. ASSUME NEW j \in StrongsOf(t, n)
         PROVE  w[j] \in StrongsOf(s, n) /\ s[w[j]] = t[j] /\ j # 0
    <2>1. CASE j \in StrongsOf(b, n)
      <3>1. w[j] = o[j] /\ t[j] = b[j] /\ j # 0 /\ o[j] \in StrongsOf(a, n) /\ a[o[j]] = b[j]
        BY <1>6, <1>7, <1>8, <1>10, <2>1
      <3> QED
        BY <1>5, <1>8, <3>1
    <2>2. ASSUME NEW k \in StrongsOf(r, n), j = m + k
          PROVE  w[j] \in StrongsOf(s, n) /\ s[w[j]] = t[j] /\ j # 0
      <3>1. k \in DOMAIN r /\ k \in Nat \ {0}
        BY <1>5, <1>8
      <3>2. w[j] = l + k /\ t[j] = r[k] /\ s[l + k] = r[k] /\ l + k \in StrongsOf(s, n) /\ j # 0
        BY <1>5, <1>6, <1>7, <2>2, <3>1
      <3> QED
        BY <3>2
    <2> QED
      BY <1>6, <2>1, <2>2
  <1>14. \A z, v \in Nat : Asked(s, n, z, v) <=> Asked(t, n, z, v)
    BY <1>1, <1>2, AskedOfTheCut
  <1>15. ASSUME StrongsOf(t, n) = {}, CommonsOf(t, n) = {}
         PROVE  CommonsOf(s, n) = {}
    <2>1. StrongsOf(b, n) = {} /\ CommonsOf(b, n) = {}
      BY <1>6, <1>15
    <2>2. \A k \in CommonsOf(r, n) : m + k \in CommonsOf(t, n)
      BY <1>6
    <2> QED
      BY <1>5, <1>10, <1>15, <2>1, <2>2
  <1>16. ASSUME WeaksOf(t, n) # {}
         PROVE  \E j \in WeaksOf(t, n) :
                   /\ \A i \in WeaksOf(t, n) : j <= i
                   /\ w[j] \in WeaksOf(s, n) /\ s[w[j]] = t[j] /\ j # 0
                   /\ StrongsOf(t, n) = {} /\ CommonsOf(t, n) = {} =>
                        \A i \in WeaksOf(s, n) : w[j] <= i
    <2>1. CASE WeaksOf(b, n) # {}
      <3>1. PICK j \in WeaksOf(b, n) : TRUE
        BY <2>1
      <3>2. /\ j \in 1 .. m /\ j \in DOMAIN b /\ w[j] = o[j] /\ t[j] = b[j] /\ j # 0
            /\ o[j] \in WeaksOf(a, n) /\ a[o[j]] = b[j] /\ o[j] \in 1 .. l
        BY <1>6, <1>7, <1>8, <1>9, <1>10
      <3>3. w[j] \in WeaksOf(s, n) /\ s[w[j]] = t[j] /\ j \in WeaksOf(t, n)
        BY <1>5, <1>6, <1>8, <3>2
      <3>4. ASSUME NEW i \in WeaksOf(t, n) PROVE j <= i
        <4>1. CASE i \in WeaksOf(b, n)
          <5>1. i = j
            BY <1>10, <4>1 DEF WeaksOf
          <5> QED
            BY <3>2, <5>1
        <4>2. ASSUME NEW k \in WeaksOf(r, n), i = m + k PROVE j <= i
          <5>1. k \in Nat
            BY <1>5, <1>8
          <5> QED
            BY <3>2, <4>2, <5>1
        <4> QED
          BY <1>6, <4>1, <4>2
      <3>5. ASSUME NEW i \in WeaksOf(s, n) PROVE w[j] <= i
        <4>1. CASE i \in WeaksOf(a, n)
          BY <1>10, <3>2, <4>1
        <4>2. ASSUME NEW k \in WeaksOf(r, n), i = l + k PROVE w[j] <= i
          <5>1. k \in Nat
            BY <1>5, <1>8
          <5> QED
            BY <3>2, <4>2, <5>1
        <4> QED
          BY <1>5, <4>1, <4>2
      <3> QED
        BY <3>2, <3>3, <3>4, <3>5
    <2>2. CASE WeaksOf(b, n) = {}
      <3>1. WeaksOf(r, n) \in SUBSET Nat /\ WeaksOf(r, n) # {}
        BY <1>5, <1>6, <1>8, <1>16, <2>2
      <3>2. PICK k \in WeaksOf(r, n) : \A i \in WeaksOf(r, n) : k <= i
        BY <3>1, LeastOfSet
      <3>3. k \in DOMAIN r /\ k \in Nat \ {0}
        BY <1>5, <1>8
      <3>4. /\ m + k \in WeaksOf(t, n) /\ w[m + k] = l + k /\ t[m + k] = r[k] /\ s[l + k] = r[k]
            /\ l + k \in WeaksOf(s, n) /\ m + k # 0
        BY <1>5, <1>6, <1>7, <3>3
      <3>5. \A i \in WeaksOf(t, n) : m + k <= i
        <4> SUFFICES ASSUME NEW i \in WeaksOf(t, n) PROVE m + k <= i
          OBVIOUS
        <4>1. PICK h \in WeaksOf(r, n) : i = m + h
          BY <1>6, <2>2
        <4>2. h \in Nat /\ k <= h
          BY <3>1, <3>2
        <4> QED
          BY <3>3, <4>1, <4>2
      <3>6. ASSUME StrongsOf(t, n) = {}, CommonsOf(t, n) = {}, NEW i \in WeaksOf(s, n)
            PROVE  l + k <= i
        <4>1. StrongsOf(b, n) = {} /\ CommonsOf(b, n) = {}
          BY <1>6, <3>6
        <4>2. SymbolsOf(b, n) = {}
          <5> SUFFICES ASSUME NEW j \in SymbolsOf(b, n) PROVE FALSE
            OBVIOUS
          <5>1. j \in 1 .. Len(b) /\ Defines(b[j])
            BY <1>4, <1>9 DEF SymbolsOf
          <5>2. b[j] \in Candidate
            BY <5>1, ElementOfSeq
          <5>3. b[j].place \in {"section", "common"} /\ b[j].bind \in {"global", "weak"}
            BY <5>1, <5>2 DEF Candidate, Defines, Nonlocal
          <5> QED
            BY <2>2, <4>1, <5>3 DEF StrongsOf, CommonsOf, WeaksOf
        <4>3. i \notin WeaksOf(a, n)
          BY <1>10, <4>2 DEF WeaksOf
        <4>4. PICK h \in WeaksOf(r, n) : i = l + h
          BY <1>5, <4>3
        <4>5. h \in Nat /\ k <= h
          BY <3>1, <3>2
        <4> QED
          BY <3>3, <4>4, <4>5
      <3> QED
        BY <3>4, <3>5, <3>6
    <2> QED
      BY <2>1, <2>2
  <1> QED
    BY <1>1, <1>2, <1>11, <1>12, <1>13, <1>14, <1>15, <1>16

LEMMA CutTroubles ==
  ASSUME NEW a \in Seq(Candidate), NEW b \in Seq(Candidate), NEW r \in Seq(Candidate), NEW o,
         Condenses(b, a, o)
  PROVE  Rejects(a \o r) <=> Rejects(b \o r)
  <1>1. /\ \A i \in DOMAIN (a \o r) : Unwelcome((a \o r)[i]) =>
              \E k \in DOMAIN r : Unwelcome(r[k])
        /\ \A i \in DOMAIN (b \o r) : Unwelcome((b \o r)[i]) =>
              \E k \in DOMAIN r : Unwelcome(r[k])
    <2>1. \A i \in DOMAIN a : ~Unwelcome(a[i])
      BY DEF Condenses
    <2>2. \A j \in DOMAIN b : ~Unwelcome(b[j])
      BY DEF Condenses
    <2>3. \A i \in DOMAIN (a \o r) : Unwelcome((a \o r)[i]) =>
              \E k \in DOMAIN r : Unwelcome(r[k])
      BY <2>1, OfParts
    <2>4. \A i \in DOMAIN (b \o r) : Unwelcome((b \o r)[i]) =>
              \E k \in DOMAIN r : Unwelcome(r[k])
      BY <2>2, OfParts
    <2> QED
      BY <2>3, <2>4
  <1>2. ASSUME NEW k \in DOMAIN r, Unwelcome(r[k])
        PROVE  Trouble(a \o r) /\ Trouble(b \o r)
    <2>1. Len(a) + k \in DOMAIN (a \o r) /\ (a \o r)[Len(a) + k] = r[k]
      BY OfParts
    <2>2. Len(b) + k \in DOMAIN (b \o r) /\ (b \o r)[Len(b) + k] = r[k]
      BY OfParts
    <2> QED
      BY <1>2, <2>1, <2>2 DEF Trouble
  <1>3. ASSUME NEW n \in Names
        PROVE  (\A i, j \in StrongsOf(a \o r, n) : i = j) <=>
               (\A i, j \in StrongsOf(b \o r, n) : i = j)
    <2>1. PICK l \in Nat : l = Len(a)
      BY LenProperties
    <2>2. PICK m \in Nat : m = Len(b)
      BY LenProperties
    <2>3. /\ StrongsOf(a \o r, n) = StrongsOf(a, n) \cup {l + k : k \in StrongsOf(r, n)}
          /\ StrongsOf(b \o r, n) = StrongsOf(b, n) \cup {m + k : k \in StrongsOf(r, n)}
      BY <2>1, <2>2, OfParts
    <2>4. \A k \in StrongsOf(r, n) : k \in Nat \ {0}
      BY LenProperties DEF StrongsOf, SymbolsOf
    <2>5. \A i \in StrongsOf(a, n) : i \in 1 .. l
      BY <2>1, LenProperties DEF StrongsOf, SymbolsOf
    <2>6. \A i \in StrongsOf(b, n) : i \in 1 .. m
      BY <2>2, LenProperties DEF StrongsOf, SymbolsOf
    <2>7. /\ \A i, j \in StrongsOf(b, n) : i = j
          /\ \A i, j \in StrongsOf(a, n) : i = j
          /\ StrongsOf(a, n) = {} <=> StrongsOf(b, n) = {}
      <3>1. \A i, j \in StrongsOf(b, n) : i = j
        BY DEF Condenses, StrongsOf
      <3> QED
        BY <3>1 DEF Condenses
    <2> DEFINE Alone(x) == /\ \A h, k \in StrongsOf(r, n) : h = k
                           /\ x = {} \/ StrongsOf(r, n) = {}
    <2>8. (\A i, j \in StrongsOf(a \o r, n) : i = j) <=> Alone(StrongsOf(a, n))
      <3>1. ASSUME Alone(StrongsOf(a, n)), NEW i \in StrongsOf(a \o r, n),
                   NEW j \in StrongsOf(a \o r, n)
            PROVE  i = j
        BY <2>3, <2>7, <3>1
      <3>2. ASSUME \A i, j \in StrongsOf(a \o r, n) : i = j
            PROVE  Alone(StrongsOf(a, n))
        <4>1. \A k \in StrongsOf(r, n) : l + k \in StrongsOf(a \o r, n)
          BY <2>3
        <4>2. \A h, k \in StrongsOf(r, n) : h = k
          BY <2>4, <3>2, <4>1
        <4>3. \A i \in StrongsOf(a, n) : \A k \in StrongsOf(r, n) : FALSE
          <5> SUFFICES ASSUME NEW i \in StrongsOf(a, n), NEW k \in StrongsOf(r, n) PROVE FALSE
            OBVIOUS
          <5>1. i = l + k
            BY <2>3, <3>2, <4>1
          <5> QED
            BY <2>4, <2>5, <5>1
        <4> QED
          BY <4>2, <4>3
      <3> QED
        BY <3>1, <3>2
    <2>9. (\A i, j \in StrongsOf(b \o r, n) : i = j) <=> Alone(StrongsOf(b, n))
      <3>1. ASSUME Alone(StrongsOf(b, n)), NEW i \in StrongsOf(b \o r, n),
                   NEW j \in StrongsOf(b \o r, n)
            PROVE  i = j
        BY <2>3, <2>7, <3>1
      <3>2. ASSUME \A i, j \in StrongsOf(b \o r, n) : i = j
            PROVE  Alone(StrongsOf(b, n))
        <4>1. \A k \in StrongsOf(r, n) : m + k \in StrongsOf(b \o r, n)
          BY <2>3
        <4>2. \A h, k \in StrongsOf(r, n) : h = k
          BY <2>4, <3>2, <4>1
        <4>3. \A i \in StrongsOf(b, n) : \A k \in StrongsOf(r, n) : FALSE
          <5> SUFFICES ASSUME NEW i \in StrongsOf(b, n), NEW k \in StrongsOf(r, n) PROVE FALSE
            OBVIOUS
          <5>1. i = m + k
            BY <2>3, <3>2, <4>1
          <5> QED
            BY <2>4, <2>6, <5>1
        <4> QED
          BY <4>2, <4>3
      <3> QED
        BY <3>1, <3>2
    <2> QED
      BY <2>7, <2>8, <2>9
  <1>4. Trouble(a \o r) <=> Trouble(b \o r)
    BY <1>1, <1>2, <1>3 DEF Trouble
  <1>5. \A n \in Names : \A z, v \in Nat : Asked(a \o r, n, z, v) <=> Asked(b \o r, n, z, v)
    BY AskedOfTheCut
  <1>6. Overflows(a \o r) <=> Overflows(b \o r)
    <2>1. Overflows(a \o r) => Overflows(b \o r)
      BY <1>5, SameOverflow
    <2>2. Overflows(b \o r) => Overflows(a \o r)
      BY <1>5, SameOverflow
    <2> QED
      BY <2>1, <2>2
  <1> QED
    BY <1>4, <1>6 DEF Rejects

(* The symbol table of a partial link says what its inputs say.            *)
LEMMA EmittedCondenses ==
  ASSUME Merged
  PROVE  Condenses(Emitted, input, Origins)
  <1>1. PartInv /\ MergedTo(Len(pending)) /\ input \in Seq(Candidate)
    BY DEF Merged, PartInv, PartTypeOK
  <1>2. ASSUME NEW i \in DOMAIN input PROVE ~Unwelcome(input[i])
    <2>1. input[i].bind # "unique"
      BY PendingIsInput
    <2>2. CASE Nonlocal(input[i])
      <3>1. PICK k \in DOMAIN pending : pending[k].symbol = input[i] /\ ~Refused(pending[k].symbol)
        BY <2>2, PendingIsInput
      <3> QED
        BY <2>1, <3>1 DEF Unwelcome
    <2>3. CASE ~Nonlocal(input[i])
      BY <2>1, <2>3 DEF Unwelcome, Defines
    <2> QED
      BY <2>2, <2>3
  <1>3. ASSUME NEW j \in DOMAIN Emitted PROVE ~Unwelcome(Emitted[j])
    <2>1. CASE Emitted[j].bind = "local"
      BY <2>1 DEF Unwelcome, Defines, Nonlocal
    <2>2. ASSUME NEW c \in DOMAIN canonical, Emitted[j] = canonical[c].symbol
          PROVE  ~Unwelcome(Emitted[j])
      <3>1. PICK e : e = canonical[c]
        OBVIOUS
      <3>2. Nonlocal(e.symbol) /\ e.symbol \in Candidate
        BY <1>1, <3>1, EntryType DEF MergedTo, Wins
      <3>3. e.symbol.bind # "unique"
        BY <3>2 DEF Nonlocal
      <3>4. CASE e.symbol.name = NoName
        BY <2>2, <3>1, <3>3, <3>4 DEF Unwelcome, Defines
      <3>5. CASE e.symbol.name # NoName
        <4>1. PICK n \in Names : n = e.symbol.name
          BY <3>2, <3>5 DEF Candidate
        <4>2. ~Refused(e.symbol)
          BY <3>1, <4>1, EntryRanks
        <4> QED
          BY <2>2, <3>1, <3>3, <4>2 DEF Unwelcome
      <3> QED
        BY <3>4, <3>5
    <2> QED
      BY <1>1, <2>1, <2>2, EmittedIs
  <1> QED
    BY <1>2, <1>3, EmittedOfName DEF Condenses

LEMMA WhenceIs ==
  ASSUME PartInv, rest \in Seq(Candidate)
  PROVE  /\ \A j \in DOMAIN Emitted : Whence[j] = Origins[j]
         /\ \A k \in DOMAIN rest : Whence[Len(Emitted) + k] = Len(input) + k
  <1>1. PICK g : g = [i \in DOMAIN rest |-> Len(input) + i]
    OBVIOUS
  <1>2. PICK m \in Nat : m = Len(rest)
    BY LenProperties
  <1>3. PICK l \in Nat : l = Len(input)
    BY PendingTypes
  <1>4. DOMAIN rest = 1 .. m
    BY <1>2, LenProperties
  <1>5. g \in [1 .. m -> Nat]
    BY <1>1, <1>3, <1>4
  <1>6. g \in Seq(Nat) /\ Len(g) = m
    BY <1>5, IsASeq, LenProperties
  <1>7. Origins \in Seq(Nat) /\ Len(Origins) = Len(locals) + Len(canonical)
    BY OriginsAre
  <1>8. Emitted \in Seq(Candidate) /\ Len(Emitted) = Len(locals) + Len(canonical)
    BY EmittedIsRead
  <1>9. PICK n \in Nat : n = Len(Emitted) /\ n = Len(Origins)
    BY <1>7, <1>8, LenProperties
  <1>10. /\ \A i \in 1 .. n + m :
               (Origins \o g)[i] = IF i <= n THEN Origins[i] ELSE g[i - n]
         /\ Whence = Origins \o g
    <2>1. Whence = Origins \o g
      BY <1>1 DEF Whence
    <2> QED
      BY <1>6, <1>7, <1>9, <2>1, ConcatProperties
  <1>11. DOMAIN Emitted = 1 .. n
    BY <1>8, <1>9, LenProperties
  <1>12. \A j \in DOMAIN Emitted : Whence[j] = Origins[j]
    <2> SUFFICES ASSUME NEW j \in 1 .. n PROVE Whence[j] = Origins[j]
      BY <1>11
    <2>1. j \in 1 .. n + m /\ j <= n
      OBVIOUS
    <2> QED
      BY <1>10, <2>1
  <1>13. \A k \in DOMAIN rest : Whence[n + k] = l + k
    <2> SUFFICES ASSUME NEW k \in 1 .. m PROVE Whence[n + k] = l + k
      BY <1>4
    <2>1. n + k \in 1 .. n + m /\ ~(n + k <= n) /\ (n + k) - n = k
      OBVIOUS
    <2> QED
      BY <1>1, <1>3, <1>4, <1>10, <2>1
  <1> QED
    BY <1>3, <1>9, <1>12, <1>13

-----------------------------------------------------------------------------
(* The names that the strong references of a stream ask for.               *)
Asks(c) == c.bind = "global" /\ c.place = "undef"
Wants(s) == {c.name : c \in {s[i] : i \in {j \in DOMAIN s : Asks(s[j])}}}

LEMMA WantsIs ==
  ASSUME NEW s, NEW n
  PROVE  n \in Wants(s) <=> \E i \in DOMAIN s : Asks(s[i]) /\ s[i].name = n
  BY DEF Wants

LEMMA WantsOfParts ==
  ASSUME NEW a \in Seq(Candidate), NEW r \in Seq(Candidate)
  PROVE  Wants(a \o r) = Wants(a) \cup Wants(r)
  <1>1. \A n : n \in Wants(a \o r) => n \in Wants(a) \cup Wants(r)
    <2> SUFFICES ASSUME NEW n \in Wants(a \o r) PROVE n \in Wants(a) \cup Wants(r)
      OBVIOUS
    <2>1. PICK i \in DOMAIN (a \o r) : Asks((a \o r)[i]) /\ (a \o r)[i].name = n
      BY WantsIs
    <2>2. CASE i \in DOMAIN a
      <3>1. (a \o r)[i] = a[i]
        BY <2>2, OfParts
      <3> QED
        BY <2>1, <2>2, <3>1, WantsIs
    <2>3. ASSUME NEW k \in DOMAIN r, i = Len(a) + k
          PROVE  n \in Wants(r)
      <3>1. (a \o r)[i] = r[k]
        BY <2>3, OfParts
      <3> QED
        BY <2>1, <3>1, WantsIs
    <2> QED
      BY <2>2, <2>3, OfParts
  <1>2. \A n : n \in Wants(a) => n \in Wants(a \o r)
    <2> SUFFICES ASSUME NEW n \in Wants(a) PROVE n \in Wants(a \o r)
      OBVIOUS
    <2>1. PICK i \in DOMAIN a : Asks(a[i]) /\ a[i].name = n
      BY WantsIs
    <2>2. i \in DOMAIN (a \o r) /\ (a \o r)[i] = a[i]
      BY OfParts
    <2> QED
      BY <2>1, <2>2, WantsIs
  <1>3. \A n : n \in Wants(r) => n \in Wants(a \o r)
    <2> SUFFICES ASSUME NEW n \in Wants(r) PROVE n \in Wants(a \o r)
      OBVIOUS
    <2>1. PICK k \in DOMAIN r : Asks(r[k]) /\ r[k].name = n
      BY WantsIs
    <2>2. Len(a) + k \in DOMAIN (a \o r) /\ (a \o r)[Len(a) + k] = r[k]
      BY OfParts
    <2> QED
      BY <2>1, <2>2, WantsIs
  <1> QED
    BY <1>1, <1>2, <1>3

(* An entry that a strong reference is merged into, and that nothing       *)
(* defines, is a strong reference.                                         *)
LEMMA EntryAsks ==
  ASSUME Merged, NEW k \in DOMAIN pending, Asks(pending[k].symbol), NEW n,
         n = pending[k].symbol.name,
         n # NoName => \A i \in DOMAIN input : ~(Defines(input[i]) /\ input[i].name = n)
  PROVE  n \in Wants(Emitted)
  <1>1. /\ PartInv /\ MergedTo(Len(pending)) /\ DOMAIN pending = 1 .. Len(pending)
    BY PendingTypes DEF Merged, PartInv
  <1>2. PICK c \in DOMAIN canonical :
           /\ canonical[c].symbol.name = n
           /\ pending[k].source # 0 => pending[k].source \in canonical[c].sources
    BY <1>1 DEF MergedTo
  <1>3. PICK e : e = canonical[c]
    OBVIOUS
  <1>4. PICK K : K = Kin(e, Len(pending))
    OBVIOUS
  <1>5. Wins(e, K) /\ K \subseteq DOMAIN pending /\ e.symbol \in Candidate
    BY <1>1, <1>3, <1>4, EntryType DEF MergedTo, Kin
  <1>6. k \in K
    <2>1. pending[k].symbol.name = NoName => pending[k].source # 0
      BY PendingIsInput
    <2> QED
      BY <1>1, <1>2, <1>3, <1>4, <2>1 DEF Kin
  <1>7. \A j \in K : pending[j].symbol.place = "undef"
    <2> SUFFICES ASSUME NEW j \in K PROVE pending[j].symbol.place = "undef"
      OBVIOUS
    <2>1. j \in DOMAIN pending /\ pending[j].symbol.name = n
      BY <1>2, <1>3, <1>4, <1>5 DEF Kin
    <2>2. CASE n = NoName
      <3>1. /\ pending[j].source \in e.sources /\ pending[k].source \in e.sources
            /\ \A s, t \in e.sources : s = t
        BY <1>1, <1>2, <1>3, <1>4, <1>6, <2>2 DEF Kin, MergedTo
      <3>2. pending[j].source = pending[k].source /\ pending[j].source # 0
        BY <2>1, <2>2, <3>1, PendingIsInput
      <3>3. pending[j].symbol = pending[k].symbol
        BY <2>1, <3>2, PendingIsInput
      <3> QED
        BY <3>3 DEF Asks
    <2>3. CASE n # NoName
      <3>1. CASE pending[j].source = 0
        BY <2>1, <3>1, PendingIsInput
      <3>2. CASE pending[j].source # 0
        <4>1. /\ pending[j].source \in DOMAIN input /\ Nonlocal(pending[j].symbol)
              /\ pending[j].symbol = input[pending[j].source]
          BY <2>1, <3>2, PendingIsInput
        <4>2. ~Defines(pending[j].symbol)
          BY <2>1, <2>3, <4>1
        <4> QED
          BY <2>1, <2>3, <4>1, <4>2 DEF Defines
      <3> QED
        BY <3>1, <3>2
    <2> QED
      BY <2>2, <2>3
  <1>8. e.symbol.place = "undef"
    <2>1. ~StrongSymbol(e.symbol)
      <3>1. StrongSymbol(e.symbol) => \E j \in K : pending[j].symbol = e.symbol
        BY <1>5 DEF Wins, StrongWins, FromOne
      <3> QED
        BY <1>7, <3>1 DEF StrongSymbol
    <2>2. ~WeakSymbol(e.symbol)
      <3>1. WeakSymbol(e.symbol) => \E j \in K : pending[j].symbol = e.symbol
        BY <1>5 DEF Wins, WeakWins, FromOne
      <3> QED
        BY <1>7, <3>1 DEF WeakSymbol
    <2>3. ~CommonSymbol(e.symbol)
      <3>1. CommonSymbol(e.symbol) => \E j \in K : CommonSymbol(pending[j].symbol)
        BY <1>5 DEF Wins, CommonWins
      <3> QED
        BY <1>7, <3>1 DEF CommonSymbol
    <2> QED
      BY <1>5, <2>1, <2>2, <2>3 DEF StrongSymbol, WeakSymbol, CommonSymbol, Candidate, Nonlocal,
                                   Wins
  <1>9. e.symbol.bind # "weak"
    BY <1>5, <1>6, <1>8 DEF Wins, ReferenceWins, Asks
  <1>10. Asks(e.symbol)
    BY <1>5, <1>8, <1>9 DEF Asks, Wins, Nonlocal
  <1>11. PICK j \in DOMAIN Emitted : Emitted[j] = e.symbol
    BY <1>1, <1>3, EntryIsEmitted
  <1> QED
    BY <1>2, <1>3, <1>10, <1>11, WantsIs

(* The output and the other objects ask for what all inputs ask for, and   *)
(* for the forced names.                                                   *)
LEMMA WantedOfTheCut ==
  ASSUME Merged, rest \in Seq(Candidate), NEW D, Names \cap D = D,
         \A n \in Names \ D : SymbolsOf(input, n) = {}
  PROVE  Wants(Emitted \o rest) \ D = (Wants(input \o rest) \ D) \cup (ForcedAnew \ D)
  <1>1. /\ PartInv /\ input \in Seq(Candidate) /\ Emitted \in Seq(Candidate)
        /\ ForcedTo(Len(forced)) /\ forced \in Seq(Names \cup {NoName})
        /\ DOMAIN forced = 1 .. Len(forced)
    BY EmittedIsRead, LenProperties DEF Merged, PartInv, PartTypeOK
  <1>2. /\ Wants(Emitted \o rest) = Wants(Emitted) \cup Wants(rest)
        /\ Wants(input \o rest) = Wants(input) \cup Wants(rest)
    BY <1>1, WantsOfParts
  <1>3. \A n : n \in ForcedAnew <=>
           /\ \E j \in DOMAIN forced : forced[j] = n
           /\ \A i \in DOMAIN input : Nonlocal(input[i]) => input[i].name # n
    BY DEF ForcedAnew
  <1>4. ASSUME NEW n \in Wants(Emitted)
        PROVE  n \in Wants(input) \cup ForcedAnew
    <2>1. PICK j \in DOMAIN Emitted : Asks(Emitted[j]) /\ Emitted[j].name = n
      BY WantsIs
    <2>2. PICK c \in DOMAIN canonical : Emitted[j] = canonical[c].symbol
      BY <1>1, <2>1, EmittedIs DEF Asks
    <2>3. PICK e : e = canonical[c]
      OBVIOUS
    <2>4. Wins(e, Kin(e, Len(pending))) /\ e.symbol.place = "undef"
      BY <2>1, <2>2, <2>3 DEF Merged, PartInv, MergedTo, Asks
    <2>5. PICK k \in Kin(e, Len(pending)) : FromOne(e, k)
      BY <2>4 DEF Wins, ReferenceWins
    <2>6. k \in DOMAIN pending /\ pending[k].symbol = e.symbol
      BY <1>1, <2>5, PendingTypes DEF FromOne, Kin
    <2>7. pending[k].symbol = Emitted[j]
      BY <2>2, <2>3, <2>6
    <2>8. CASE pending[k].source # 0
      <3>1. pending[k].source \in DOMAIN input /\ input[pending[k].source] = pending[k].symbol
        BY <2>6, <2>8, PendingIsInput
      <3>2. n \in Wants(input)
        BY <2>1, <2>7, <3>1, WantsIs
      <3> QED
        BY <3>2
    <2>9. CASE pending[k].source = 0
      <3>1. /\ \E h \in DOMAIN forced : pending[k].symbol.name = forced[h]
            /\ \A i \in DOMAIN input : Nonlocal(input[i]) => input[i].name # pending[k].symbol.name
        BY <1>1, <2>6, <2>9, PendingIsInput DEF ForcedTo
      <3> QED
        BY <1>3, <2>1, <2>7, <3>1
    <2> QED
      BY <2>8, <2>9
  <1>5. ASSUME NEW n \in Wants(input), n \notin D
        PROVE  n \in Wants(Emitted)
    <2>1. PICK i \in DOMAIN input : Asks(input[i]) /\ input[i].name = n
      BY WantsIs
    <2>2. Nonlocal(input[i]) /\ input[i] \in Candidate
      BY <1>1, <2>1, InputIsCandidate DEF Asks, Nonlocal, PartInv
    <2>3. PICK k \in DOMAIN pending : pending[k].symbol = input[i]
      BY <2>2, PendingIsInput
    <2>4. ASSUME n # NoName, NEW j \in DOMAIN input, Defines(input[j]), input[j].name = n
          PROVE  FALSE
      <3>1. n \in Names \ D
        BY <1>5, <2>1, <2>2, <2>4 DEF Candidate
      <3> QED
        BY <2>4, <3>1 DEF SymbolsOf
    <2> QED
      BY <2>1, <2>3, <2>4, EntryAsks
  <1>6. ASSUME NEW n \in ForcedAnew
        PROVE  n \in Wants(Emitted)
    <2>1. PICK j \in DOMAIN forced : forced[j] = n
      BY <1>3
    <2>2. n # NoName
      BY <2>1 DEF Merged, Unmarked
    <2>3. PICK k \in DOMAIN pending : pending[k].symbol.name = n
      BY <1>1, <2>1 DEF ForcedTo
    <2>4. CASE pending[k].source # 0
      <3>1. /\ pending[k].source \in DOMAIN input /\ Nonlocal(pending[k].symbol)
            /\ pending[k].symbol = input[pending[k].source]
        BY <2>4, PendingIsInput
      <3> QED
        BY <1>3, <2>3, <3>1
    <2>5. CASE pending[k].source = 0
      <3>1. Asks(pending[k].symbol)
        BY <2>5, PendingIsInput DEF Asks
      <3>2. \A i \in DOMAIN input : ~(Defines(input[i]) /\ input[i].name = n)
        BY <1>3 DEF Defines
      <3> QED
        BY <2>3, <3>1, <3>2, EntryAsks
    <2> QED
      BY <2>4, <2>5
  <1> QED
    BY <1>2, <1>4, <1>5, <1>6

(* What a partial link refuses, a link of all symbols refuses too.         *)
LEMMA RefusalIsShared ==
  ASSUME PartInv, stage = "refused", Unmarked, rest \in Seq(Candidate)
  PROVE  Rejects(input \o rest)
  <1>1. Refusable /\ input \in Seq(Candidate)
    BY DEF PartInv, PartTypeOK
  <1>2. ASSUME NEW i \in DOMAIN input, Unwelcome(input[i])
        PROVE  Trouble(input \o rest)
    <2>1. i \in DOMAIN (input \o rest) /\ (input \o rest)[i] = input[i]
      BY <1>1, OfParts
    <2> QED
      BY <1>2, <2>1 DEF Trouble
  <1>3. ASSUME NEW i \in DOMAIN input,
               input[i].bind = "unique" \/ (Nonlocal(input[i]) /\ Refused(input[i]))
        PROVE  Unwelcome(input[i])
    <2>1. CASE input[i].bind = "unique"
      BY <2>1 DEF Unwelcome
    <2>2. CASE Nonlocal(input[i]) /\ Refused(input[i])
      <3>1. input[i].name # NoName
        BY <2>2 DEF Unmarked
      <3> QED
        BY <2>2, <3>1 DEF Unwelcome, Defines, Refused
    <2> QED
      BY <1>3, <2>1, <2>2
  <1>4. ASSUME NEW i \in DOMAIN input, NEW j \in DOMAIN input, i # j,
               StrongSymbol(input[i]), StrongSymbol(input[j]),
               input[i].name = input[j].name, input[i].name # NoName
        PROVE  Trouble(input \o rest)
    <2>1. input[i] \in Candidate
      BY InputIsCandidate DEF PartInv
    <2>2. PICK n \in Names : n = input[i].name
      BY <1>4, <2>1 DEF Candidate
    <2>3. i \in StrongsOf(input, n) /\ j \in StrongsOf(input, n)
      BY <1>4, <2>2 DEF StrongsOf, SymbolsOf, Defines, Nonlocal, StrongSymbol
    <2>4. i \in StrongsOf(input \o rest, n) /\ j \in StrongsOf(input \o rest, n)
      BY <1>1, <2>3, OfParts
    <2> QED
      BY <1>4, <2>4 DEF Trouble
  <1>5. /\ \A i \in DOMAIN input : marks[i] = {}
        /\ \A j \in DOMAIN forced : forced[j] # NoName
    BY DEF Unmarked
  <1> QED
    BY <1>1, <1>2, <1>3, <1>4, <1>5 DEF Refusable, Rejects

-----------------------------------------------------------------------------
(* How the link of all symbols ended.                                      *)
WholeEnded ==
    \/ whole.phase = "failed" /\ Rejects(input \o rest)
    \/ /\ whole.phase = "done"
       /\ \E D : /\ Resolves(input \o rest, D)
                 /\ whole.definitions = {<<n, D[n]>> : n \in DOMAIN D}
                 /\ whole.wanted = Wants(input \o rest) \ DOMAIN D

(* Where the two ways of linking are.                                      *)
WayInv ==
    /\ way \in {"whole", "partial", "relink", "compared"}
    /\ way = "whole" => whole = NoOutcome /\ stream = input \o rest /\ Unmarked
    /\ whole # NoOutcome => Unmarked /\ WholeEnded
    /\ way = "relink" => stage = "emitted" /\ whole # NoOutcome /\ stream = Emitted \o rest
    /\ way = "compared" /\ whole # NoOutcome =>
         \/ stage = "refused"
         \/ stage = "emitted" /\ stream = Emitted \o rest /\ phase \in {"done", "failed"}
TransInv == LinkInv /\ OutcomeInv /\ WayInv

LEMMA WayInvInit == BothInit => WayInv
  <1> SUFFICES ASSUME BothInit PROVE WayInv
    OBVIOUS
  <1>1. PICK s \in Streams : \E c \in CutsOf(s) :
            /\ Begin(s) /\ BeginPartial(SubSeq(s, 1, c.first), c.marks, c.forced)
            /\ rest = SubSeq(s, c.first + 1, Len(s))
            /\ way = IF c.alone THEN "partial" ELSE "whole"
            /\ whole = NoOutcome
    BY DEF BothInit
  <1>2. PICK c \in CutsOf(s) :
            /\ Begin(s) /\ BeginPartial(SubSeq(s, 1, c.first), c.marks, c.forced)
            /\ rest = SubSeq(s, c.first + 1, Len(s))
            /\ way = IF c.alone THEN "partial" ELSE "whole"
            /\ whole = NoOutcome
    BY <1>1
  <1>3. s \in Seq(Candidate) /\ c \in Cut /\ c.first <= Len(s) /\ (c.alone \/ Comparable(s, c))
        /\ DOMAIN c.marks = 1 .. c.first
    BY <1>2, StreamsAssumption, CutsAssumption
  <1>4. PICK m \in Nat : m = c.first
    BY <1>3 DEF Cut
  <1>5. PICK l \in Nat : l = Len(s)
    BY <1>3, LenProperties
  <1>6. ASSUME ~c.alone PROVE stream = input \o rest /\ Unmarked
    <2>1. input = SubSeq(s, 1, m) /\ marks = c.marks /\ forced = c.forced /\ stream = s
          /\ rest = SubSeq(s, m + 1, l)
      BY <1>2, <1>4, <1>5 DEF BeginPartial, Begin
    <2>2. \A i \in 1 .. l : s[i] \in Candidate
      BY <1>3, <1>5, ElementOfSeq
    <2>3. /\ input \in Seq(Candidate) /\ Len(input) = m /\ \A i \in 1 .. m : input[i] = s[i]
      BY <1>3, <1>4, <1>5, <2>1, <2>2, SubSeqProperties
    <2>4. /\ rest \in Seq(Candidate) /\ Len(rest) = l - m
          /\ \A i \in 1 .. l - m : rest[i] = s[m + i]
      <3>1. m <= l
        BY <1>3, <1>4, <1>5
      <3>2. PICK f \in Nat : f = m + 1
        OBVIOUS
      <3>3. \A i \in f .. l : s[i] \in Candidate
        BY <2>2, <3>2
      <3>4. /\ rest \in Seq(Candidate) /\ Len(rest) = IF f <= l THEN l - f + 1 ELSE 0
            /\ \A i \in 1 .. l - f + 1 : rest[i] = s[f + i - 1]
        BY <2>1, <3>2, <3>3, SubSeqProperties
      <3>5. Len(rest) = l - m
        BY <3>1, <3>2, <3>4
      <3>6. \A i \in 1 .. l - m : f + i - 1 = m + i /\ l - f + 1 = l - m
        BY <3>2
      <3> QED
        BY <3>4, <3>5, <3>6
    <2>5. DOMAIN input = 1 .. m
      BY <2>3, LenProperties
    <2>6. Unmarked
      BY <1>3, <1>4, <1>6, <2>1, <2>3, <2>5 DEF Unmarked, Comparable
    <2>7. input \o rest = s
      <3>1. l - m \in Nat /\ m + (l - m) = l
        BY <1>3, <1>4, <1>5
      <3>2. /\ input \o rest \in Seq(Candidate) /\ Len(input \o rest) = l
            /\ \A i \in 1 .. l :
                  (input \o rest)[i] = IF i <= m THEN input[i] ELSE rest[i - m]
        <4>1. PICK k \in Nat : k = l - m /\ m + k = l
          BY <3>1
        <4>2. /\ input \o rest \in Seq(Candidate) /\ Len(input \o rest) = m + k
              /\ \A i \in 1 .. m + k :
                    (input \o rest)[i] = IF i <= m THEN input[i] ELSE rest[i - m]
          BY <2>3, <2>4, <4>1, ConcatProperties
        <4> QED
          BY <4>1, <4>2
      <3>3. \A i \in 1 .. l : (input \o rest)[i] = s[i]
        <4> SUFFICES ASSUME NEW i \in 1 .. l PROVE (input \o rest)[i] = s[i]
          OBVIOUS
        <4>1. CASE i <= m
          BY <2>3, <3>2, <4>1
        <4>2. CASE ~(i <= m)
          <5>1. i - m \in 1 .. l - m /\ m + (i - m) = i
            BY <3>1, <4>2
          <5> QED
            BY <2>4, <3>2, <4>2, <5>1
        <4> QED
          BY <4>1, <4>2
      <3> QED
        BY <1>3, <1>5, <3>2, <3>3, SeqEqual
    <2> QED
      BY <2>1, <2>6, <2>7
  <1> QED
    BY <1>2, <1>6 DEF WayInv

LEMMA NothingFoundAgain == (Fresh => OutcomeInv) /\ (Fresh' => OutcomeInv')
  <1>1. Fresh => OutcomeInv
    BY FreshHasNoOutcome
  <1> QED
    BY <1>1, PTL

(* The link of all symbols has settled its bindings.                       *)
LEMMA WholeSettles ==
  ASSUME TransInv, EndWhole
  PROVE  whole' # NoOutcome /\ WholeEnded'
  <1>1. /\ way = "whole" /\ phase \in {"done", "failed"} /\ stream = input \o rest
        /\ whole' = Ended([i \in DOMAIN stream |-> i])
        /\ UNCHANGED <<input, rest>>
        /\ ResolveInv /\ OutcomeInv
    BY DEF TransInv, EndWhole, WayInv, LinkInv, partialVars
  <1>2. /\ whole'.phase = phase
        /\ phase # "failed" =>
             /\ whole'.definitions =
                  {<<n, [definitions[n] EXCEPT !.source =
                           IF @ = 0 THEN 0 ELSE [i \in DOMAIN stream |-> i][@]]>> :
                       n \in DOMAIN definitions}
             /\ whole'.wanted = Wants(stream) \ DOMAIN definitions
    BY <1>1 DEF Ended, Wants, Asks
  <1>3. whole' # NoOutcome
    BY <1>1, <1>2 DEF NoOutcome
  <1>4. PICK s : s = input \o rest /\ s = stream /\ (input \o rest)' = s
    BY <1>1
  <1>5. CASE phase = "failed"
    <2>1. Rejects(s)
      BY <1>4, <1>5 DEF TransInv, OutcomeInv, ScanOutcome
    <2> QED
      BY <1>2, <1>3, <1>4, <1>5, <2>1 DEF WholeEnded
  <1>6. CASE phase = "done"
    <2>1. Resolves(s, definitions)
      BY <1>1, <1>4, <1>6, DoneResolves
    <2>2. ASSUME NEW n \in DOMAIN definitions
          PROVE  [definitions[n] EXCEPT !.source =
                    IF @ = 0 THEN 0 ELSE [i \in DOMAIN stream |-> i][@]] = definitions[n]
      <3>1. PICK d : d = definitions[n]
        OBVIOUS
      <3>2. d \in Definition /\ n \in Names
        BY <1>1, <3>1 DEF ResolveInv, ResolveTypeOK
      <3>3. d.source = 0 \/ d.source \in DOMAIN stream
        <4>1. Faithful(d) /\ (d.place = "section" \/ d.place = "allocated")
          <5>1. PICK k \in DOMAIN NameOrder : NameOrder[k] = n
            BY <3>2, NameOrderAssumption
          <5>2. k \in 1 .. placing - 1
            BY <1>1, <1>6, <5>1, NameOrderAssumption, LenProperties DEF OutcomeInv, LayoutOutcome
          <5> QED
            BY <1>1, <1>6, <3>1, <5>1, <5>2 DEF OutcomeInv, ScanOutcome, LayoutOutcome
        <4> QED
          BY <4>1 DEF Faithful
      <3>4. [d EXCEPT !.source = d.source] = d
        BY <3>2 DEF Definition
      <3>5. (IF d.source = 0 THEN 0 ELSE [i \in DOMAIN stream |-> i][d.source]) = d.source
        BY <3>3
      <3> QED
        BY <3>1, <3>4, <3>5
    <2>3. whole'.definitions = {<<n, definitions[n]>> : n \in DOMAIN definitions}
      <3>1. whole'.definitions =
              {<<n, [definitions[n] EXCEPT !.source =
                       IF @ = 0 THEN 0 ELSE [i \in DOMAIN stream |-> i][@]]>> :
                   n \in DOMAIN definitions}
        BY <1>2, <1>6
      <3> DEFINE F(n) == [definitions[n] EXCEPT !.source =
                            IF @ = 0 THEN 0 ELSE [i \in DOMAIN stream |-> i][@]]
      <3>2. whole'.definitions = {<<n, F(n)>> : n \in DOMAIN definitions}
        BY <3>1
      <3>3. \A n \in DOMAIN definitions : F(n) = definitions[n]
        BY <2>2
      <3> HIDE DEF F
      <3> QED
        BY <3>2, <3>3
    <2>4. whole'.wanted = Wants(s) \ DOMAIN definitions
      BY <1>2, <1>4, <1>6
    <2>5. \E D : /\ Resolves(s, D) /\ whole'.definitions = {<<n, D[n]>> : n \in DOMAIN D}
                 /\ whole'.wanted = Wants(s) \ DOMAIN D
      BY <2>1, <2>3, <2>4
    <2> QED
      BY <1>2, <1>3, <1>4, <1>6, <2>5 DEF WholeEnded
  <1> QED
    BY <1>1, <1>5, <1>6

LEMMA WayStep == TransInv /\ [BothNext \/ BothSettled]_bothVars => WayInv'
  <1> SUFFICES ASSUME TransInv, [BothNext \/ BothSettled]_bothVars PROVE WayInv'
    OBVIOUS
  <1>1. UNCHANGED <<input, marks, forced, rest>>
    BY DEF BothNext, BothSettled, LinkWhole, EndWhole, LinkPart, EndPart, Relink, EndRelink,
           bothVars, partialVars, PartialNext, RefuseSymbol, CollectSymbol, EndCollect, ForceName,
           EndForce, RefuseCommon, EnterSymbol, MergeName, MergeConflict, EndMerge, Refuse, Merge
  <1>2. Unmarked' = Unmarked
    BY <1>1 DEF Unmarked
  <1>3. whole' = whole => WholeEnded' = WholeEnded
    BY <1>1 DEF WholeEnded
  <1>4. UNCHANGED partialVars => Emitted' = Emitted
    BY DEF partialVars, Emitted
  <1>5. ResolveNext => stream' = stream
    BY DEF ResolveNext, IgnoreSymbol, RejectSymbol, DefineName, MergeCommons, OverrideName,
           KeepName, ConflictOnName, EndScan, PassName, AllocateCommon, EndResolve, Advance, Fail
  <1>6. CASE LinkWhole
    BY <1>5, <1>1, <1>2, <1>6 DEF TransInv, WayInv, LinkWhole, NoOutcome
  <1>7. CASE EndWhole
    <2>1. whole' # NoOutcome /\ WholeEnded'
      BY <1>7, WholeSettles
    <2> QED
      BY <1>2, <1>7, <2>1 DEF TransInv, WayInv, EndWhole
  <1>8. CASE LinkPart
    BY <1>2, <1>3, <1>8 DEF TransInv, WayInv, LinkPart
  <1>9. CASE EndPart
    BY <1>1, <1>2, <1>3, <1>4, <1>9 DEF TransInv, WayInv, EndPart, Restart, partialVars
  <1>10. CASE Relink
    BY <1>5, <1>1, <1>2, <1>3, <1>4, <1>10 DEF TransInv, WayInv, Relink, partialVars
  <1>11. CASE EndRelink
    BY <1>1, <1>2, <1>3, <1>4, <1>11 DEF TransInv, WayInv, EndRelink, partialVars, resolveVars
  <1>12. CASE UNCHANGED bothVars
    BY <1>1, <1>2, <1>3, <1>4, <1>12 DEF TransInv, WayInv, bothVars, partialVars, resolveVars
  <1> QED
    BY <1>6, <1>7, <1>8, <1>9, <1>10, <1>11, <1>12 DEF BothNext, BothSettled

LEMMA TransInvariance == BothSpec => []TransInv
  <1>1. TransInv /\ LinkInv' /\ [BothNext \/ BothSettled]_bothVars => OutcomeInv'
    <2> SUFFICES ASSUME TransInv, LinkInv', [BothNext \/ BothSettled]_bothVars
                 PROVE  OutcomeInv'
      OBVIOUS
    <2>1. ResolveInv /\ OutcomeInv
      BY DEF TransInv, LinkInv
    <2>2. CASE ResolveNext \/ UNCHANGED resolveVars
      BY <2>1, <2>2, OutcomeStep
    <2>3. CASE Restart(Emitted \o rest)
      <3>1. Emitted \in Seq(Candidate) /\ rest \in Seq(Candidate)
        BY EmittedIsRead DEF TransInv, LinkInv
      <3>2. Emitted \o rest \in Seq(Candidate)
        BY <3>1, ConcatProperties
      <3>3. Fresh'
        BY <2>3, <3>2 DEF Restart, Fresh
      <3> QED
        BY <3>3, NothingFoundAgain
    <2> QED
      BY <2>2, <2>3 DEF BothNext, BothSettled, LinkWhole, EndWhole, LinkPart, EndPart,
                        Relink, EndRelink, bothVars
  <1>2. BothInit => TransInv
    <2>1. BothInit => Fresh
      BY BeginsFresh DEF BothInit, ResolveInit
    <2> QED
      BY <2>1, LinkInvInit, WayInvInit, FreshHasNoOutcome DEF TransInv
  <1>3. TransInv /\ LinkInv' /\ [BothNext \/ BothSettled]_bothVars => TransInv'
    BY <1>1, WayStep DEF TransInv
  <1> QED
    BY <1>2, <1>3, LinkInvariance, PTL DEF BothSpec

(* What the relink makes of the output and the other objects.              *)
LEMMA RelinkIsLikeWhole ==
  ASSUME TransInv, way = "compared", whole # NoOutcome, stage = "emitted"
  PROVE  /\ whole.phase = "failed" <=> phase = "failed"
         /\ whole.phase = "done" => /\ Ended(Whence).definitions = whole.definitions
                                    /\ Ended(Whence).wanted =
                                         whole.wanted \cup (ForcedAnew \ DOMAIN definitions)
  <1>1. /\ Merged /\ rest \in Seq(Candidate) /\ PartInv /\ WholeEnded
        /\ stream = Emitted \o rest /\ phase \in {"done", "failed"}
        /\ ResolveInv /\ OutcomeInv
    BY DEF TransInv, LinkInv, WayInv, Merged
  <1>2. input \in Seq(Candidate) /\ Emitted \in Seq(Candidate)
    BY <1>1, EmittedIsRead DEF PartInv, PartTypeOK
  <1>3. Condenses(Emitted, input, Origins)
    BY <1>1, EmittedCondenses
  <1>4. Rejects(input \o rest) <=> Rejects(Emitted \o rest)
    BY <1>1, <1>2, <1>3, CutTroubles
  <1>5. Alike(input \o rest, Emitted \o rest, Whence)
    <2>1. /\ \A j \in DOMAIN Emitted : Whence[j] = Origins[j]
          /\ \A k \in DOMAIN rest : Whence[Len(Emitted) + k] = Len(input) + k
      BY <1>1, WhenceIs
    <2> QED
      BY <1>1, <1>2, <1>3, <2>1, CutIsAlike
  <1>6. input \o rest \in Seq(Candidate) /\ Emitted \o rest \in Seq(Candidate)
    BY <1>1, <1>2, ConcatProperties
  <1>7. phase = "failed" => Rejects(Emitted \o rest)
    BY <1>1 DEF OutcomeInv, ScanOutcome
  <1>8. phase = "done" => Resolves(Emitted \o rest, definitions)
    BY <1>1, DoneResolves
  <1>9. phase = "done" => ~Rejects(Emitted \o rest)
    BY <1>6, <1>8, ResolvedOrRejected
  <1>10. whole.phase = "done" => ~Rejects(input \o rest)
    BY <1>1, <1>6, ResolvedOrRejected DEF WholeEnded
  <1>11. whole.phase = "failed" => Rejects(input \o rest)
    BY <1>1 DEF WholeEnded
  <1>12. whole.phase = "failed" <=> phase = "failed"
    BY <1>1, <1>4, <1>7, <1>9, <1>10, <1>11 DEF WholeEnded
  <1>13. ASSUME whole.phase = "done"
         PROVE  /\ Ended(Whence).definitions = whole.definitions
                /\ Ended(Whence).wanted =
                     whole.wanted \cup (ForcedAnew \ DOMAIN definitions)
    <2>1. phase = "done"
      BY <1>1, <1>12, <1>13
    <2>2. PICK D : /\ Resolves(input \o rest, D)
                   /\ whole.definitions = {<<n, D[n]>> : n \in DOMAIN D}
                   /\ whole.wanted = Wants(input \o rest) \ DOMAIN D
      BY <1>1, <1>13 DEF WholeEnded
    <2>3. /\ DOMAIN D = DOMAIN definitions
          /\ \A n \in DOMAIN definitions :
               D[n] = [definitions[n] EXCEPT !.source = IF @ = 0 THEN 0 ELSE Whence[@]]
      <3>1. PICK s \in Seq(Candidate) : s = input \o rest
        BY <1>6
      <3>2. PICK t \in Seq(Candidate) : t = Emitted \o rest
        BY <1>6
      <3>3. PICK w, E : w = Whence /\ E = definitions
        OBVIOUS
      <3>4. Resolves(s, D) /\ Resolves(t, E) /\ Alike(s, t, w)
        BY <1>5, <1>8, <2>1, <2>2, <3>1, <3>2, <3>3
      <3>5. BoundAlike(D, E, w)
        BY <3>4, AlikeBindAlike
      <3> QED
        BY <3>3, <3>5 DEF BoundAlike
    <2>4. Ended(Whence).definitions = whole.definitions
      <3> DEFINE F(n) == [definitions[n] EXCEPT !.source = IF @ = 0 THEN 0 ELSE Whence[@]]
      <3>1. Ended(Whence).definitions = {<<n, F(n)>> : n \in DOMAIN definitions}
        BY <2>1 DEF Ended
      <3>2. \A n \in DOMAIN definitions : F(n) = D[n]
        BY <2>3
      <3> HIDE DEF F
      <3> QED
        BY <2>2, <2>3, <3>1, <3>2
    <2>5. Ended(Whence).wanted = Wants(Emitted \o rest) \ DOMAIN definitions
      BY <1>1, <2>1 DEF Ended, Wants, Asks
    <2>6. /\ Names \cap DOMAIN definitions = DOMAIN definitions
          /\ \A n \in Names \ DOMAIN definitions : SymbolsOf(input, n) = {}
      <3>1. DOMAIN D = {n \in Names : SymbolsOf(input \o rest, n) # {}}
        BY <2>2 DEF Resolves, BindsAs
      <3>2. \A n : SymbolsOf(input, n) \subseteq SymbolsOf(input \o rest, n)
        BY <1>1, <1>2, OfParts
      <3> QED
        BY <2>3, <3>1, <3>2
    <2>7. Wants(Emitted \o rest) \ DOMAIN definitions =
            (Wants(input \o rest) \ DOMAIN definitions) \cup (ForcedAnew \ DOMAIN definitions)
      BY <1>1, <2>6, WantedOfTheCut
    <2> QED
      BY <2>2, <2>3, <2>4, <2>5, <2>7
  <1> QED
    BY <1>12, <1>13

(* Linking objects through a partial link of some of them settles what     *)
(* linking them at once settles, whatever the symbols and the cut: it      *)
(* fails only when that fails, binds every name to the same definition or  *)
(* to storage of the same size at the same offset, and asks for the same   *)
(* names and the forced ones (canonicalize_nonlocal_symbols, read again by *)
(* resolve_symbols_with_common).                                           *)
THEOREM PartialLinkIsTransparent == BothSpec => []PartialIsTransparent
  <1>1. TransInv => PartialIsTransparent
    <2> SUFFICES ASSUME TransInv, way = "compared", whole # NoOutcome
                 PROVE  /\ whole.phase = "failed" <=> (stage = "refused" \/ phase = "failed")
                        /\ whole.phase = "done" =>
                             /\ Ended(Whence).definitions = whole.definitions
                             /\ Ended(Whence).wanted =
                                  whole.wanted \cup (ForcedAnew \ DOMAIN definitions)
      BY DEF PartialIsTransparent
    <2>1. CASE stage = "refused"
      <3>1. PartInv /\ Unmarked /\ rest \in Seq(Candidate) /\ WholeEnded
        BY DEF TransInv, LinkInv, WayInv
      <3>2. Rejects(input \o rest)
        BY <2>1, <3>1, RefusalIsShared
      <3>3. input \o rest \in Seq(Candidate)
        BY <3>1, ConcatProperties DEF PartInv, PartTypeOK
      <3>4. ~(\E D : Resolves(input \o rest, D))
        BY <3>2, <3>3, ResolvedOrRejected
      <3> QED
        BY <2>1, <3>1, <3>4 DEF WholeEnded
    <2>2. CASE stage = "emitted"
      BY <2>2, RelinkIsLikeWhole
    <2> QED
      BY <2>1, <2>2 DEF TransInv, WayInv
  <1> QED
    BY <1>1, TransInvariance, PTL
=============================================================================
