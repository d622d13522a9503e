--------------------------- MODULE ImageLayout_proofs ---------------------------
(***************************************************************************)
(* For every page size, every list of allocatable sections and every image *)
(* base: the PT_LOADs of a linked image are what the kernel asks for, the  *)
(* memory they are mapped to is what was linked, and every thread's block  *)
(* starts as PT_TLS says.                                                  *)
(***************************************************************************)
EXTENDS ImageLayout, DivisionFacts, FiniteSetTheorems, SequenceTheorems

(* The least and the greatest of a set of numbers.                         *)
LEMMA MinIs ==
  ASSUME NEW T \in SUBSET Nat, T # {}
  PROVE  Min(T) \in T /\ \A x \in T : Min(T) <= x
  BY LeastOfSet DEF Min

(* The greatest number of a bounded set.                                   *)
LEMMA MaxIs ==
  ASSUME NEW n \in Nat, NEW T \in SUBSET (0 .. n), T # {}
  PROVE  Max(T) \in T /\ \A x \in T : x <= Max(T)
  <1>1. \E x \in T : \A y \in T : x >= y
    BY GreatestOfSet
  <1>2. Max(T) \in T /\ \A y \in T : Max(T) >= y
    BY <1>1 DEF Max
  <1> QED
    BY <1>2

-----------------------------------------------------------------------------
(* Placing.                                                                *)

(* There is a page boundary from e to a.                                   *)
Boundary(e, a) == \E b \in Nat : b % Page = 0 /\ e <= b /\ b <= a

(* The order in which sections are placed.                                 *)
Sooner(i, j) ==
    \/ ~sections[i].tls /\ sections[j].tls
    \/ (sections[i].tls <=> sections[j].tls) /\ i < j

(* What is placed ends before what was placed after it, and a page ends    *)
(* between two sections that differ in their permissions.                  *)
PlaceInv ==
    /\ sections \in SectionLists
    /\ cursor \in Nat /\ previous \in Perms \cup {"none"}
    /\ DOMAIN addr \subseteq DOMAIN sections /\ addr \in [DOMAIN addr -> Nat]
    /\ previous = "none" => DOMAIN addr = {}
    /\ \A j \in DOMAIN addr : \A i \in DOMAIN sections : Sooner(i, j) => i \in DOMAIN addr
    /\ \A i \in DOMAIN addr :
          /\ sections[i].align # 0 =>
                PowerOfTwo(sections[i].align) /\ addr[i] % sections[i].align = 0
          /\ End(i) <= cursor
          /\ sections[i].perm # previous => Boundary(End(i), cursor)
    /\ \A i, j \in DOMAIN addr : Sooner(i, j) =>
          /\ End(i) <= addr[j]
          /\ sections[i].perm # sections[j].perm => Boundary(End(i), addr[j])
    /\ phase \notin {"place", "failed"} => DOMAIN addr = DOMAIN sections

(* The fields of a section.                                                *)
LEMMA SectionTypes ==
  ASSUME sections \in SectionLists
  PROVE  /\ Len(sections) \in Nat /\ DOMAIN sections = 1 .. Len(sections)
         /\ \A i \in DOMAIN sections :
              /\ i \in Nat /\ sections[i] \in Section
              /\ sections[i].perm \in Perms /\ sections[i].nobits \in BOOLEAN
              /\ sections[i].tls \in BOOLEAN
              /\ sections[i].size \in Nat /\ sections[i].align \in Nat
  <1>1. sections \in Seq(Section)
    BY LayoutAssumption
  <1>2. Len(sections) \in Nat /\ DOMAIN sections = 1 .. Len(sections)
    BY <1>1
  <1>3. ASSUME NEW i \in DOMAIN sections PROVE i \in Nat /\ sections[i] \in Section
    BY <1>1
  <1> QED
    BY <1>2, <1>3 DEF Section

(* What the assumptions say of the page size.                              *)
LEMMA PageIs == Page \in Nat \ {0} /\ IsPowerOfTwo(Page)
  BY LayoutAssumption DEF PowerOfTwo, IsPowerOfTwo

(* Rounding up gives a multiple that is not smaller.                       *)
LEMMA AlignedUp ==
  ASSUME NEW v \in Nat, NEW a \in Nat
  PROVE  /\ AlignUp(v, a) \in Nat /\ v <= AlignUp(v, a)
         /\ a # 0 => AlignUp(v, a) % a = 0
  <1>1. CASE a <= 1
    <2>1. v % 1 = 0
      OBVIOUS
    <2> QED
      BY <1>1, <2>1 DEF AlignUp
  <1>2. CASE a > 1
    BY <1>2, RoundUp DEF AlignUp
  <1> QED
    BY <1>1, <1>2

(* Where the next section goes.                                            *)
LEMMA PlacedAt ==
  ASSUME cursor \in Nat, previous \in Perms \cup {"none"}, NEW s \in Section,
         s.align # 0 => PowerOfTwo(s.align)
  PROVE  /\ AlignUp(cursor, Alignment(s)) \in Nat
         /\ cursor <= AlignUp(cursor, Alignment(s))
         /\ s.align # 0 => AlignUp(cursor, Alignment(s)) % s.align = 0
         /\ previous \notin {"none", s.perm} => AlignUp(cursor, Alignment(s)) % Page = 0
  <1> DEFINE own == IF s.align = 0 THEN 1 ELSE s.align
  <1>1. PICK o \in Nat \ {0} : o = own
    BY DEF Section
  <1>2. IsPowerOfTwo(o)
    BY <1>1 DEF IsPowerOfTwo, PowerOfTwo
  <1>3. PICK p \in Nat \ {0} : p = Page /\ IsPowerOfTwo(p)
    BY PageIs
  <1>4. Alignment(s) = IF previous \in {"none", s.perm} THEN o ELSE IF o > p THEN o ELSE p
    BY <1>1, <1>3 DEF Alignment
  <1>5. PICK a \in Nat \ {0} : a = Alignment(s)
    BY <1>4
  <1>6. a % o = 0 /\ (previous \notin {"none", s.perm} => a % p = 0)
    <2>1. o % o = 0 /\ p % p = 0
      OBVIOUS
    <2>2. o > p => o % p = 0
      BY <1>2, <1>3, SmallerPower
    <2>3. o <= p => p % o = 0
      BY <1>2, <1>3, SmallerPower
    <2> QED
      BY <1>4, <1>5, <2>1, <2>2, <2>3
  <1>7. PICK v \in Nat : v = AlignUp(cursor, a) /\ cursor <= v /\ v % a = 0
    BY AlignedUp
  <1>8. v % o = 0
    BY <1>6, <1>7, DividesTransitive
  <1>9. a % p = 0 => v % p = 0
    BY <1>7, DividesTransitive
  <1> QED
    BY <1>1, <1>3, <1>5, <1>6, <1>7, <1>8, <1>9

(* The order of placing is total.                                          *)
LEMMA SoonerIsTotal ==
  ASSUME sections \in SectionLists, NEW i \in DOMAIN sections, NEW j \in DOMAIN sections,
         i # j
  PROVE  (Sooner(i, j) \/ Sooner(j, i)) /\ ~(Sooner(i, j) /\ Sooner(j, i)) /\ ~Sooner(i, i)
  BY SectionTypes DEF Sooner

(* The next section is the first one left.                                 *)
LEMMA NextSectionIs ==
  ASSUME PlaceInv, DOMAIN addr # DOMAIN sections
  PROVE  /\ NextSection \in DOMAIN sections \ DOMAIN addr
         /\ \A j \in DOMAIN sections : Sooner(j, NextSection) <=> j \in DOMAIN addr
         /\ \A j \in DOMAIN addr : ~Sooner(NextSection, j)
  <1> DEFINE left == DOMAIN sections \ DOMAIN addr
             regular == {i \in left : ~sections[i].tls}
             chosen == IF regular # {} THEN regular ELSE left
  <1>1. sections \in SectionLists /\ DOMAIN addr \subseteq DOMAIN sections
    BY DEF PlaceInv
  <1>2. /\ \A j \in DOMAIN sections : j \in Nat
    BY <1>1, SectionTypes
  <1>3. chosen \in SUBSET Nat /\ chosen # {} /\ chosen \subseteq left
    BY <1>1, <1>2
  <1>4. PICK i \in chosen : i = Min(chosen) /\ \A x \in chosen : i <= x
    BY <1>3, MinIs
  <1>5. NextSection = i
    BY <1>4 DEF NextSection
  <1>6. i \in left
    BY <1>3
  <1>7. ASSUME NEW j \in DOMAIN addr PROVE ~Sooner(i, j)
    BY <1>6, <1>7 DEF PlaceInv
  <1>8. ASSUME NEW j \in DOMAIN addr PROVE Sooner(j, i)
    BY <1>1, <1>6, <1>7, <1>8, SoonerIsTotal
  <1>9. ASSUME NEW j \in left PROVE ~Sooner(j, i)
    <2>1. CASE j \in chosen
      <3>1. i <= j /\ i \in Nat /\ j \in Nat
        BY <1>2, <1>4, <1>6, <2>1
      <3>2. sections[j].tls <=> sections[i].tls
        <4>1. CASE regular # {}
          BY <2>1, <4>1
        <4>2. CASE regular = {}
          BY <1>6, <1>9, <4>2
        <4> QED
          BY <4>1, <4>2
      <3> QED
        BY <3>1, <3>2 DEF Sooner
    <2>2. CASE j \notin chosen
      <3>1. ~sections[i].tls /\ sections[j].tls
        BY <1>9, <2>2
      <3> QED
        BY <3>1 DEF Sooner
    <2> QED
      BY <2>1, <2>2
  <1> QED
    BY <1>5, <1>6, <1>7, <1>8, <1>9

(* Nothing is placed at first.                                             *)
LEMMA PlaceInvInit == LayoutInit => PlaceInv
  <1> SUFFICES ASSUME LayoutInit PROVE PlaceInv
    OBVIOUS
  <1>1. DOMAIN addr = {} /\ addr = [x \in {} |-> addr[x]]
    BY DEF LayoutInit
  <1>2. cursor \in Nat
    BY LayoutAssumption DEF LayoutInit
  <1>3. addr \in [DOMAIN addr -> Nat]
    BY <1>1
  <1> QED
    BY <1>1, <1>2, <1>3 DEF LayoutInit, PlaceInv

(* A boundary stays between when the ends move apart.                      *)
LEMMA BoundaryWidens ==
  ASSUME NEW e \in Nat, NEW a \in Nat, NEW c \in Nat, Boundary(e, a), a <= c
  PROVE  Boundary(e, c)
  BY PageIs DEF Boundary

(* PlaceSection puts the next section behind all that is placed, and on a  *)
(* page of its own when the permissions change.                            *)
LEMMA PlaceSectionPlaces ==
  ASSUME PlaceInv, PlaceSection, phase' # "failed"
  PROVE  PlaceInv'
  <1>1. PICK i \in DOMAIN sections \ DOMAIN addr :
              /\ i = NextSection
              /\ \A j \in DOMAIN sections : Sooner(j, i) <=> j \in DOMAIN addr
              /\ \A j \in DOMAIN addr : ~Sooner(i, j)
    BY NextSectionIs DEF PlaceSection
  <1> DEFINE s == sections[i]
             at == AlignUp(cursor, Alignment(s))
  <1>2. /\ s.align # 0 => PowerOfTwo(s.align)
        /\ s.perm # "RWX"
        /\ addr' = [j \in DOMAIN addr \cup {i} |-> IF j = i THEN at ELSE addr[j]]
        /\ cursor' = at + s.size /\ previous' = s.perm
        /\ sections' = sections /\ phase' = "place"
    BY <1>1 DEF PlaceSection, Fail
  <1>3. /\ sections \in SectionLists /\ cursor \in Nat /\ previous \in Perms \cup {"none"}
        /\ DOMAIN addr \subseteq DOMAIN sections /\ \A j \in DOMAIN addr : addr[j] \in Nat
        /\ previous = "none" => DOMAIN addr = {}
    BY DEF PlaceInv
  <1>4. /\ s \in Section /\ s.perm \in Perms /\ s.size \in Nat /\ s.align \in Nat
        /\ \A j \in DOMAIN sections : sections[j].size \in Nat
    BY <1>1, <1>3, SectionTypes
  <1>5. /\ at \in Nat /\ cursor <= at
        /\ s.align # 0 => at % s.align = 0
        /\ previous \notin {"none", s.perm} => at % Page = 0
    BY <1>2, <1>3, <1>4, PlacedAt
  <1>6. PICK v \in Nat : v = at
    BY <1>5
  <1>7. PICK z \in Nat : z = s.size
    BY <1>4
  <1> HIDE DEF at, s
  <1>8. DOMAIN addr' = DOMAIN addr \cup {i} /\ addr'[i] = v
        /\ \A j \in DOMAIN addr : addr'[j] = addr[j]
    BY <1>1, <1>2, <1>6
  <1>9. cursor' = v + z /\ cursor' \in Nat /\ End(i)' = v + z /\ cursor <= v
    BY <1>2, <1>5, <1>6, <1>7, <1>8 DEF End, s
  <1>10. \A j \in DOMAIN addr : End(j)' = End(j) /\ End(j) \in Nat /\ End(j) <= cursor
    <2> SUFFICES ASSUME NEW j \in DOMAIN addr
                 PROVE  End(j)' = End(j) /\ End(j) \in Nat /\ End(j) <= cursor
      OBVIOUS
    <2>1. addr[j] \in Nat /\ sections[j].size \in Nat /\ addr'[j] = addr[j]
      BY <1>3, <1>4, <1>8
    <2>2. End(j) <= cursor
      BY DEF PlaceInv
    <2> QED
      BY <1>2, <2>1, <2>2 DEF End
  <1>11. ASSUME NEW j \in DOMAIN addr, sections[j].perm # s.perm PROVE Boundary(End(j), v)
    <2>1. PICK e \in Nat : e = End(j) /\ e <= cursor
      BY <1>10
    <2>2. CASE sections[j].perm # previous
      <3>1. Boundary(e, cursor)
        BY <2>1, <2>2 DEF PlaceInv
      <3> QED
        BY <1>3, <1>9, <2>1, <3>1, BoundaryWidens
    <2>3. CASE sections[j].perm = previous
      <3>1. previous \notin {"none", s.perm}
        BY <1>3, <1>11, <2>3
      <3>2. v % Page = 0 /\ e <= v
        BY <1>3, <1>5, <1>6, <1>9, <2>1, <3>1
      <3> QED
        BY <2>1, <3>2 DEF Boundary
    <2> QED
      BY <2>2, <2>3
  <1>12. \A a, b : Sooner(a, b)' <=> Sooner(a, b)
    BY <1>2 DEF Sooner
  <1>13. ~Sooner(i, i)
    BY <1>1
  <1>14. addr' \in [DOMAIN addr' -> Nat] /\ DOMAIN addr' \subseteq DOMAIN sections'
    <2>1. addr' = [j \in DOMAIN addr' |-> addr'[j]] /\ \A j \in DOMAIN addr' : addr'[j] \in Nat
      BY <1>2, <1>3, <1>8
    <2> QED
      BY <1>1, <1>2, <1>3, <1>8, <2>1
  <1>15. ASSUME NEW j \in DOMAIN addr', NEW k \in DOMAIN sections', Sooner(k, j)'
         PROVE  k \in DOMAIN addr'
    BY <1>1, <1>2, <1>8, <1>12, <1>15 DEF PlaceInv
  <1>16. ASSUME NEW j \in DOMAIN addr'
         PROVE  /\ sections'[j].align # 0 =>
                      PowerOfTwo(sections'[j].align) /\ addr'[j] % sections'[j].align = 0
                /\ End(j)' <= cursor'
                /\ sections'[j].perm # previous' => Boundary(End(j)', cursor')
    <2>1. CASE j = i
      BY <1>2, <1>5, <1>6, <1>8, <1>9, <2>1 DEF s
    <2>2. CASE j \in DOMAIN addr
      <3>1. End(j)' <= cursor'
        BY <1>3, <1>9, <1>10, <2>2
      <3>2. sections[j].align # 0 =>
                 PowerOfTwo(sections[j].align) /\ addr[j] % sections[j].align = 0
        BY <2>2 DEF PlaceInv
      <3>3. sections[j].perm # s.perm => Boundary(End(j), v + z)
        BY <1>10, <1>11, <2>2, BoundaryWidens
      <3> QED
        BY <1>2, <1>8, <1>9, <1>10, <2>2, <3>1, <3>2, <3>3
    <2> QED
      BY <1>8, <2>1, <2>2
  <1>17. ASSUME NEW k \in DOMAIN addr', NEW j \in DOMAIN addr', Sooner(k, j)'
         PROVE  /\ End(k)' <= addr'[j]
                /\ sections'[k].perm # sections'[j].perm => Boundary(End(k)', addr'[j])
    <2>1. CASE j \in DOMAIN addr /\ k \in DOMAIN addr
      <3>1. /\ End(k) <= addr[j]
            /\ sections[k].perm # sections[j].perm => Boundary(End(k), addr[j])
        BY <1>12, <1>17, <2>1 DEF PlaceInv
      <3> QED
        BY <1>2, <1>8, <1>10, <2>1, <3>1
    <2>2. CASE j = i /\ k \in DOMAIN addr
      <3>1. End(k) <= v
        BY <1>3, <1>9, <1>10, <2>2
      <3>2. sections[k].perm # s.perm => Boundary(End(k), v)
        BY <1>11, <2>2
      <3> QED
        BY <1>2, <1>8, <1>10, <2>2, <3>1, <3>2 DEF s
    <2>3. CASE k = i
      BY <1>1, <1>8, <1>12, <1>13, <1>17, <2>3
    <2> QED
      BY <1>8, <2>1, <2>2, <2>3
  <1> QED
    <2>1. /\ sections' \in SectionLists /\ cursor' \in Nat /\ previous' \in Perms
          /\ previous' # "none" /\ phase' = "place"
      BY <1>2, <1>3, <1>4, <1>9 DEF Perms
    <2>2. \A e, a : Boundary(e, a)' <=> Boundary(e, a)
      BY DEF Boundary
    <2> QED
      BY <1>14, <1>15, <1>16, <1>17, <2>1, <2>2 DEF PlaceInv

placing == <<sections, addr, cursor, previous>>

(* PlaceInv does not depend on the later stages.                           *)
LEMMA PlaceInvKept ==
  ASSUME PlaceInv, UNCHANGED placing,
         phase' \notin {"place", "failed"} => DOMAIN addr = DOMAIN sections
  PROVE  PlaceInv'
  <1>1. sections' = sections /\ addr' = addr /\ cursor' = cursor /\ previous' = previous
    BY DEF placing
  <1>2. /\ \A a, b : Sooner(a, b)' <=> Sooner(a, b)
        /\ \A e, a : Boundary(e, a)' <=> Boundary(e, a)
        /\ \A a : End(a)' = End(a)
    BY <1>1 DEF Sooner, Boundary, End
  <1> QED
    BY <1>1, <1>2 DEF PlaceInv

(* Every step keeps PlaceInv.                                              *)
LEMMA PlaceInvStep == PlaceInv /\ [LayoutNext \/ Halted]_layoutVars => PlaceInv'
  <1> SUFFICES ASSUME PlaceInv, [LayoutNext \/ Halted]_layoutVars PROVE PlaceInv'
    OBVIOUS
  <1>1. CASE PlaceSection
    <2>1. CASE phase' = "failed"
      <3>1. UNCHANGED placing
        BY <1>1, <2>1 DEF PlaceSection, Fail, placing
      <3> QED
        BY <2>1, <3>1, PlaceInvKept
    <2> QED
      BY <1>1, <2>1, PlaceSectionPlaces
  <1>2. CASE MeasureTls
    <2>1. UNCHANGED placing /\ DOMAIN addr = DOMAIN sections
      BY <1>2 DEF MeasureTls, placing
    <2> QED
      BY <2>1, PlaceInvKept
  <1>3. CASE BuildSegments
    <2>1. UNCHANGED placing /\ phase = "build"
      BY <1>3 DEF BuildSegments, Fail, placing
    <2> QED
      BY <2>1, PlaceInvKept DEF PlaceInv
  <1>4. CASE WriteSegments
    <2>1. UNCHANGED placing /\ phase = "write"
      BY <1>4 DEF WriteSegments, Fail, placing
    <2> QED
      BY <2>1, PlaceInvKept DEF PlaceInv
  <1>5. CASE InjectTls
    <2>1. UNCHANGED placing /\ phase = "tls"
      BY <1>5 DEF InjectTls, Fail, placing
    <2> QED
      BY <2>1, PlaceInvKept DEF PlaceInv
  <1>6. CASE AttachHeaders
    <2>1. UNCHANGED placing /\ phase = "headers"
      BY <1>6 DEF AttachHeaders, placing
    <2> QED
      BY <2>1, PlaceInvKept DEF PlaceInv
  <1>7. CASE UNCHANGED layoutVars
    <2>1. UNCHANGED placing /\ phase' = phase
      BY <1>7 DEF layoutVars, placing
    <2> QED
      BY <2>1, PlaceInvKept DEF PlaceInv
  <1> QED
    BY <1>1, <1>2, <1>3, <1>4, <1>5, <1>6, <1>7 DEF LayoutNext, Halted

-----------------------------------------------------------------------------
(* Grouping.                                                               *)

Grouping == {"write", "tls", "headers", "done"}

LoadSegment == [perm : Perms, base : Nat, offset : Nat, filesz : Nat, memsz : Nat]

EndOf(s)     == s.base + s.memsz
FileEndOf(s) == s.base + s.filesz

(* Section i belongs to segment k.                                         *)
Home(segs, i, k) ==
    /\ segs[k].base <= addr[i]
    /\ k < Len(segs) => addr[i] < segs[k + 1].base

(* Every section is in the segment it belongs to, file data in its file    *)
(* image and memory-only space behind that (unless the last segment has    *)
(* grown to take in the program headers).  A segment begins with a section.*)
(* Segments ascend, a page ends between two that differ in their           *)
(* permissions, and before one that has no file image.                     *)
Shaped(segs, grown) ==
    /\ segs \in Seq(LoadSegment)
    /\ \A i \in Present : \E k \in DOMAIN segs : Home(segs, i, k)
    /\ \A i \in Present : \A k \in DOMAIN segs : Home(segs, i, k) =>
          /\ segs[k].perm = sections[i].perm
          /\ End(i) <= EndOf(segs[k])
          /\ ~sections[i].nobits => End(i) <= FileEndOf(segs[k])
          /\ sections[i].nobits =>
                FileEndOf(segs[k]) <= addr[i] \/ (grown /\ k = Len(segs))
    /\ \A k \in DOMAIN segs :
          /\ segs[k].memsz > 0 /\ segs[k].filesz <= segs[k].memsz
          /\ \E i \in Present : Home(segs, i, k) /\ addr[i] = segs[k].base
    /\ \A j, k \in DOMAIN segs : j < k =>
          /\ EndOf(segs[j]) <= segs[k].base
          /\ segs[j].perm # segs[k].perm \/ segs[k].filesz = 0 =>
                Boundary(EndOf(segs[j]), segs[k].base)

SegInv == phase \in Grouping => Shaped(segments, phase = "done")

(* By address is in the order of placing.                                  *)
LEMMA PresentAscend ==
  ASSUME PlaceInv, DOMAIN addr = DOMAIN sections, NEW i \in Present, NEW j \in Present
  PROVE  /\ i \in DOMAIN sections /\ addr[i] \in Nat /\ End(i) \in Nat
         /\ sections[i].size \in Nat \ {0} /\ addr[i] < End(i)
         /\ Precedes(i, j) <=> Sooner(i, j)
         /\ Precedes(i, j) => End(i) <= addr[j]
         /\ i # j => Precedes(i, j) \/ Precedes(j, i)
  <1>1. sections \in SectionLists /\ Present \subseteq DOMAIN sections
    BY DEF PlaceInv, Present
  <1>2. \A k \in Present : /\ k \in Nat /\ sections[k].size \in Nat \ {0} /\ addr[k] \in Nat
                           /\ End(k) = addr[k] + sections[k].size
    BY <1>1, SectionTypes DEF PlaceInv, Present, End
  <1>3. \A k, l \in Present : Sooner(k, l) => End(k) <= addr[l]
    BY <1>1 DEF PlaceInv
  <1>4. Sooner(i, j) => addr[i] < addr[j]
    BY <1>2, <1>3
  <1>5. Sooner(j, i) => addr[j] < addr[i]
    BY <1>2, <1>3
  <1>6. i # j => Sooner(i, j) \/ Sooner(j, i)
    BY <1>1, SoonerIsTotal
  <1>7. ~Sooner(i, i)
    BY <1>1, <1>2 DEF Sooner
  <1>8. Precedes(i, j) <=> Sooner(i, j)
    BY <1>2, <1>4, <1>5, <1>6, <1>7 DEF Precedes
  <1>9. Precedes(j, i) <=> Sooner(j, i)
    BY <1>2, <1>4, <1>5, <1>6, <1>7 DEF Precedes
  <1> QED
    BY <1>1, <1>2, <1>3, <1>6, <1>8, <1>9

(* The list holds every section that is not empty, by address.             *)
LEMMA ByAddressIs ==
  ASSUME PlaceInv, DOMAIN addr = DOMAIN sections
  PROVE  /\ Len(ByAddress) \in Nat /\ ByAddress \in [1 .. Len(ByAddress) -> Present]
         /\ \A i \in Present : \E m \in 1 .. Len(ByAddress) : ByAddress[m] = i
         /\ \A m, n \in 1 .. Len(ByAddress) : m < n => End(ByAddress[m]) <= addr[ByAddress[n]]
         /\ \A m, n \in 1 .. Len(ByAddress) : m < n => Sooner(ByAddress[m], ByAddress[n])
  <1> DEFINE R == {p \in Present \X Present : Precedes(p[1], p[2])}
  <1>1. IsFiniteSet(Present)
    <2>1. Present \in SUBSET DOMAIN sections /\ sections \in SectionLists
      BY DEF Present, PlaceInv
    <2>2. PICK n \in Nat : DOMAIN sections = 1 .. n
      BY <2>1, SectionTypes
    <2> QED
      BY <2>1, <2>2, FS_Interval, FS_Subset
  <1>2. \A i, j \in Present : <<i, j>> \in R <=> Precedes(i, j)
    OBVIOUS
  <1>3. \A i, j \in Present : Precedes(i, j) <=> Sooner(i, j)
    BY PresentAscend
  <1>4. Orders(R, Present)
    <2> SUFFICES ASSUME NEW i \in Present, NEW j \in Present, NEW k \in Present
                 PROVE  /\ ~Precedes(i, i)
                        /\ i # j => Precedes(i, j) \/ Precedes(j, i)
                        /\ Precedes(i, j) /\ Precedes(j, k) => Precedes(i, k)
      BY <1>2 DEF Orders
    <2>1. addr[i] \in Nat /\ addr[j] \in Nat /\ addr[k] \in Nat
          /\ i \in Nat /\ j \in Nat /\ k \in Nat
      BY PresentAscend, SectionTypes DEF PlaceInv
    <2>2. i # j => Precedes(i, j) \/ Precedes(j, i)
      BY PresentAscend
    <2> QED
      BY <2>1, <2>2 DEF Precedes
  <1> DEFINE rank(i) == Cardinality({j \in Present : j = i \/ Precedes(j, i)})
  <1>5. ASSUME NEW i \in Present PROVE rank(i) = Cardinality(UpTo(R, Present, i))
    <2>1. {j \in Present : j = i \/ Precedes(j, i)} = UpTo(R, Present, i)
      BY <1>2, <1>5 DEF UpTo
    <2> QED
      BY <2>1
  <1>6. PICK c \in Nat : c = Cardinality(Present)
    BY <1>1, FS_CardinalityType
  <1>7. ByAddress = Ranked(R, Present)
    <2> DEFINE nth(n) == CHOOSE i \in Present : rank(i) = n
               counted(n) == CHOOSE i \in Present : Cardinality(UpTo(R, Present, i)) = n
    <2>1. ASSUME NEW n PROVE nth(n) = counted(n)
      <3> HIDE DEF rank, R
      <3> QED
        BY <1>5
    <2>2. ByAddress = [n \in 1 .. c |-> nth(n)]
      BY <1>6 DEF ByAddress
    <2>3. Ranked(R, Present) = [n \in 1 .. c |-> counted(n)]
      BY <1>6 DEF Ranked
    <2> HIDE DEF nth, counted
    <2> QED
      BY <2>1, <2>2, <2>3
  <1> HIDE DEF R
  <1>8. PICK e : e = ByAddress
    OBVIOUS
  <1>9. e = Ranked(R, Present)
    BY <1>7, <1>8
  <1>10. /\ e \in [1 .. c -> Present]
         /\ \A i \in Present : \E n \in 1 .. c : e[n] = i
         /\ \A m, n \in 1 .. c : m < n => <<e[m], e[n]>> \in R
    BY <1>1, <1>4, <1>6, <1>9, Enumerated
  <1>11. Len(e) = c
    BY <1>10
  <1>12. \A m, n \in 1 .. c : m < n => Precedes(e[m], e[n])
    BY <1>2, <1>10
  <1>13. ASSUME NEW m \in 1 .. c, NEW n \in 1 .. c, m < n
         PROVE  End(e[m]) <= addr[e[n]] /\ Sooner(e[m], e[n])
    BY <1>3, <1>10, <1>12, <1>13, PresentAscend
  <1> QED
    BY <1>8, <1>10, <1>11, <1>13

(* The groups cut the list where it must be split.                         *)
Cuts(list, lo, hi, N) ==
    /\ lo \in [1 .. N -> 1 .. Len(list)] /\ hi \in [1 .. N -> 1 .. Len(list)]
    /\ \A n \in 1 .. N :
          /\ lo[n] <= hi[n]
          /\ \A m \in lo[n] + 1 .. hi[n] : ~Split(list[m - 1], list[m])
          /\ n > 1 => lo[n] > 1 /\ Split(list[lo[n] - 1], list[lo[n]])
          /\ n < N => lo[n + 1] = hi[n] + 1
    /\ \A m, n \in 1 .. N : m < n => hi[m] < lo[n]
    /\ \A p \in 1 .. Len(list) : \E n \in 1 .. N : lo[n] <= p /\ p <= hi[n]

(* Grouped cuts the list into consecutive runs, a new one where Split      *)
(* holds.                                                                  *)
LEMMA GroupedCuts ==
  ASSUME NEW list, Len(list) \in Nat, DOMAIN list = 1 .. Len(list)
  PROVE  \E N \in Nat : \E lo, hi :
           /\ Cuts(list, lo, hi, N)
           /\ Grouped(list) = [n \in 1 .. N |-> Segment(list, lo[n], hi[n])]
  <1> DEFINE first == {k \in DOMAIN list : k = 1 \/ Split(list[k - 1], list[k])}
             after(k) == Min({m \in first : m > k} \cup {Len(list) + 1}) - 1
             R == {p \in first \X first : p[1] < p[2]}
             nth(n) == CHOOSE k \in first : Cardinality({m \in first : m <= k}) = n
  <1>1. PICK c \in Nat : c = Len(list) /\ DOMAIN list = 1 .. c
    OBVIOUS
  <1>2. first \in SUBSET (1 .. c) /\ IsFiniteSet(first)
    <2>1. first \in SUBSET (1 .. c) /\ IsFiniteSet(1 .. c)
      BY <1>1, FS_Interval
    <2> HIDE DEF first
    <2> QED
      BY <2>1, FS_Subset
  <1>3. PICK N \in Nat : N = Cardinality(first)
    BY <1>2, FS_CardinalityType
  <1>4. Orders(R, first)
    BY <1>2 DEF Orders
  <1>5. Ranked(R, first) = [n \in 1 .. N |-> nth(n)]
    <2> DEFINE counted(n) == CHOOSE k \in first : Cardinality(UpTo(R, first, k)) = n
    <2>1. ASSUME NEW k \in first PROVE {m \in first : m <= k} = UpTo(R, first, k)
      BY <1>2 DEF UpTo
    <2>2. ASSUME NEW n PROVE nth(n) = counted(n)
      <3> DEFINE low(k) == {m \in first : m <= k}
      <3>1. nth(n) = CHOOSE k \in first : Cardinality(low(k)) = n
        OBVIOUS
      <3>2. \A k \in first : low(k) = UpTo(R, first, k)
        BY <2>1
      <3> HIDE DEF low, R, first
      <3> QED
        BY <3>1, <3>2
    <2>3. Ranked(R, first) = [n \in 1 .. N |-> counted(n)]
      BY <1>3 DEF Ranked
    <2> HIDE DEF nth, counted
    <2> QED
      BY <2>2, <2>3
  <1>6. PICK lo : lo = Ranked(R, first)
    OBVIOUS
  <1> HIDE DEF R
  <1>7. /\ lo \in [1 .. N -> first]
        /\ \A k \in first : \E n \in 1 .. N : lo[n] = k
        /\ \A m, n \in 1 .. N : m < n => <<lo[m], lo[n]>> \in R
    <2> HIDE DEF first
    <2> QED
      BY <1>2, <1>3, <1>4, <1>6, Enumerated
  <1>8. \A m, n \in 1 .. N : m < n => lo[m] < lo[n]
    BY <1>7 DEF R
  <1>9. ASSUME NEW k \in first
        PROVE  /\ after(k) \in 1 .. c /\ k <= after(k)
               /\ \A m \in first : m > k => after(k) < m
               /\ after(k) = c \/ after(k) + 1 \in first
    <2> DEFINE T == {m \in first : m > k} \cup {c + 1}
    <2>1. k \in 1 .. c /\ \A m \in first : m \in 1 .. c
      BY <1>2
    <2>2. T \in SUBSET Nat /\ T # {} /\ \A m \in T : m > k /\ m <= c + 1
      BY <2>1
    <2>3. PICK x \in Nat : x = Min(T) /\ x \in T /\ \A y \in T : x <= y
      <3> HIDE DEF T
      <3> QED
        BY <2>2, MinIs
    <2>4. after(k) = x - 1
      BY <1>1, <2>3
    <2>5. x > k /\ x <= c + 1
      BY <2>2, <2>3
    <2>6. \A m \in first : m > k => x <= m
      BY <2>3
    <2>7. x = c + 1 \/ x \in first
      BY <2>3
    <2> HIDE DEF after, T
    <2> QED
      BY <2>1, <2>4, <2>5, <2>6, <2>7
  <1> DEFINE hi == [n \in 1 .. N |-> after(lo[n])]
  <1>10. Grouped(list) = [n \in 1 .. N |-> Segment(list, lo[n], hi[n])]
    <2>1. Grouped(list) = [n \in 1 .. N |-> Segment(list, nth(n), after(nth(n)))]
      BY <1>3 DEF Grouped
    <2>2. \A n \in 1 .. N : lo[n] = nth(n)
      BY <1>5, <1>6
    <2> HIDE DEF nth, after
    <2> QED
      BY <2>1, <2>2
  <1> HIDE DEF after
  <1>11. ASSUME NEW n \in 1 .. N
         PROVE  /\ lo[n] \in first /\ lo[n] \in 1 .. c /\ hi[n] \in 1 .. c /\ lo[n] <= hi[n]
                /\ \A m \in first : m > lo[n] => hi[n] < m
                /\ hi[n] = c \/ hi[n] + 1 \in first
    BY <1>2, <1>7, <1>9
  <1>12. hi \in [1 .. N -> 1 .. c]
    BY <1>11
  <1> HIDE DEF hi
  <1>13. ASSUME NEW m \in 1 .. N, NEW n \in 1 .. N, m < n PROVE hi[m] < lo[n]
    BY <1>8, <1>11, <1>13
  <1>14. ASSUME NEW n \in 1 .. N, NEW m \in lo[n] + 1 .. hi[n]
         PROVE  ~Split(list[m - 1], list[m])
    <2>1. lo[n] \in 1 .. c /\ hi[n] \in 1 .. c
      BY <1>11
    <2>2. m \in 1 .. c /\ m > lo[n] /\ ~(hi[n] < m) /\ m # 1
      BY <2>1
    <2>3. m \notin first
      BY <1>11, <2>2
    <2> QED
      BY <1>1, <2>2, <2>3
  <1>15. ASSUME NEW n \in 1 .. N, n > 1
         PROVE  lo[n] > 1 /\ Split(list[lo[n] - 1], list[lo[n]])
    <2>1. 1 \in 1 .. N /\ lo[1] < lo[n] /\ lo[1] \in 1 .. c /\ lo[n] \in 1 .. c
      BY <1>8, <1>11, <1>15
    <2> QED
      BY <1>11, <2>1
  <1>16. ASSUME NEW n \in 1 .. N, hi[n] + 1 \in first
         PROVE  n < N /\ lo[n + 1] = hi[n] + 1
    <2>1. PICK q \in 1 .. N : lo[q] = hi[n] + 1
      BY <1>7, <1>16
    <2>2. /\ lo[n] \in 1 .. c /\ hi[n] \in 1 .. c /\ lo[n] <= hi[n]
      BY <1>11
    <2>3. ~(q < n) /\ q # n
      BY <1>8, <2>1, <2>2
    <2>4. n + 1 \in 1 .. N /\ n + 1 <= q
      BY <2>3
    <2>5. hi[n] < lo[n + 1] /\ lo[n + 1] \in 1 .. c
      BY <1>11, <1>13, <2>4
    <2>6. n + 1 = q \/ lo[n + 1] < lo[q]
      BY <1>8, <2>4
    <2> QED
      BY <2>1, <2>2, <2>4, <2>5, <2>6
  <1>17. ASSUME NEW n \in 1 .. N, n < N PROVE lo[n + 1] = hi[n] + 1
    <2>1. n + 1 \in 1 .. N
      BY <1>17
    <2>2. hi[n] < lo[n + 1] /\ lo[n + 1] \in 1 .. c /\ hi[n] \in 1 .. c
      BY <1>11, <1>13, <2>1
    <2>3. hi[n] # c
      BY <2>2
    <2> QED
      BY <1>11, <1>16, <2>3
  <1>18. ASSUME NEW p \in 1 .. c PROVE \E n \in 1 .. N : lo[n] <= p /\ p <= hi[n]
    <2>1. 1 \in first
      BY <1>1
    <2>2. PICK q \in 1 .. N : lo[q] = 1
      BY <1>7, <2>1
    <2> DEFINE T == {n \in 1 .. N : lo[n] <= p}
    <2>3. T \in SUBSET (0 .. N) /\ T # {}
      BY <2>2
    <2>4. PICK n \in T : \A m \in T : n >= m
      BY <2>3, GreatestOfSet
    <2>5. lo[n] \in 1 .. c /\ hi[n] \in 1 .. c /\ n \in 1 .. N /\ lo[n] <= p
      BY <1>11
    <2>6. CASE hi[n] = c
      BY <2>5, <2>6
    <2>7. CASE hi[n] + 1 \in first
      <3>1. n + 1 \in 1 .. N /\ lo[n + 1] = hi[n] + 1
        BY <1>16, <2>5, <2>7
      <3>2. n + 1 \notin T
        BY <2>4, <2>5
      <3>3. ~(lo[n + 1] <= p)
        BY <3>1, <3>2
      <3> QED
        BY <2>5, <3>1, <3>3
    <2> QED
      BY <1>11, <2>5, <2>6, <2>7
  <1>19. Cuts(list, lo, hi, N)
    <2>1. lo \in [1 .. N -> 1 .. c]
      BY <1>7, <1>11
    <2> HIDE DEF first
    <2> QED
      BY <1>1, <1>11, <1>12, <1>13, <1>14, <1>15, <1>17, <1>18, <2>1 DEF Cuts
  <1> QED
    BY <1>10, <1>19

(* What is moved by as much as something below it stays a number.          *)
LEMMA MovedUp ==
  ASSUME NEW u \in Nat, NEW v \in Nat, NEW w \in Nat, NEW z \in Nat, w + z <= v
  PROVE  u + v - w \in Nat
  OBVIOUS

(* What nothing splits has one kind of permissions, file data first.       *)
LEMMA RunIsEven ==
  ASSUME NEW list, NEW lo \in Nat, NEW hi \in Nat,
         \A m \in lo + 1 .. hi : ~Split(list[m - 1], list[m])
  PROVE  /\ \A m \in lo .. hi : sections[list[m]].perm = sections[list[lo]].perm
         /\ \A q \in lo .. hi : \A m \in q .. hi :
               sections[list[q]].nobits => sections[list[m]].nobits
  <1>1. ASSUME NEW b \in lo .. hi, NEW m \in b .. hi
        PROVE  /\ sections[list[m]].perm = sections[list[b]].perm
               /\ sections[list[b]].nobits => sections[list[m]].nobits
    <2> DEFINE Like(n) == /\ sections[list[n]].perm = sections[list[b]].perm
                          /\ sections[list[b]].nobits => sections[list[n]].nobits
               Bad == {n \in b .. hi : ~Like(n)}
    <2> SUFFICES ASSUME Bad # {} PROVE FALSE
      OBVIOUS
    <2>1. Bad \in SUBSET Nat
      OBVIOUS
    <2>2. PICK n \in Bad : \A x \in Bad : n <= x
      BY <2>1, LeastOfSet
    <2>3. n # b /\ n \in b .. hi
      BY <2>2
    <2>4. n - 1 \in b .. hi /\ n \in lo + 1 .. hi /\ n - 1 \notin Bad
      BY <2>2, <2>3
    <2>5. Like(n - 1) /\ ~Split(list[n - 1], list[n])
      BY <2>4
    <2>6. Like(n)
      BY <2>5 DEF Split
    <2> QED
      BY <2>2, <2>6
  <1>2. ASSUME NEW m \in lo .. hi PROVE lo \in lo .. hi /\ m \in lo .. hi
    OBVIOUS
  <1> QED
    BY <1>1, <1>2

Unsplit(list, lo, hi) == \A m \in lo + 1 .. hi : ~Split(list[m - 1], list[m])

(* A segment holds the sections list[lo .. hi] and nothing else.           *)
Holds(s, list, lo, hi) ==
    /\ s \in LoadSegment /\ s.base = addr[list[lo]] /\ EndOf(s) = End(list[hi])
    /\ s.memsz > 0 /\ s.filesz <= s.memsz
    /\ s.filesz = 0 => sections[list[lo]].nobits
    /\ \A m \in lo .. hi :
         /\ s.perm = sections[list[m]].perm
         /\ End(list[m]) <= EndOf(s)
         /\ ~sections[list[m]].nobits => End(list[m]) <= FileEndOf(s)
         /\ sections[list[m]].nobits => FileEndOf(s) <= addr[list[m]]

(* The segment of a run holds the sections of the run.                     *)
LEMMA SegmentIs ==
  ASSUME PlaceInv, DOMAIN addr = DOMAIN sections, NEW list, list = ByAddress,
         NEW lo \in 1 .. Len(list), NEW hi \in 1 .. Len(list), lo <= hi,
         Unsplit(list, lo, hi), NEW s, s = Segment(list, lo, hi)
  PROVE  Holds(s, list, lo, hi)
  <1>0. \A m \in lo + 1 .. hi : ~Split(list[m - 1], list[m])
    BY DEF Unsplit
  <1>1. PICK c \in Nat : c = Len(list)
    BY ByAddressIs
  <1>2. /\ list \in [1 .. c -> Present]
        /\ \A m, n \in 1 .. c : m < n => End(list[m]) <= addr[list[n]]
    BY <1>1, ByAddressIs
  <1>3. ASSUME NEW m \in lo .. hi
        PROVE  /\ list[m] \in Present /\ list[m] \in DOMAIN sections
               /\ addr[list[m]] \in Nat /\ End(list[m]) \in Nat
               /\ addr[list[m]] < End(list[m])
    <2>1. list[m] \in Present
      BY <1>1, <1>2
    <2> QED
      BY <2>1, PresentAscend
  <1>4. /\ lo \in lo .. hi /\ hi \in lo .. hi /\ lo .. hi \subseteq 1 .. c
        /\ lo \in Nat /\ hi \in Nat
    BY <1>1
  <1>5. PICK b \in Nat, e \in Nat : b = addr[list[lo]] /\ e = End(list[hi])
    BY <1>3, <1>4
  <1>6. ASSUME NEW m \in lo .. hi PROVE b <= addr[list[m]] /\ End(list[m]) <= e
    <2>1. m = lo \/ End(list[lo]) <= addr[list[m]]
      BY <1>2, <1>4
    <2>2. m = hi \/ End(list[m]) <= addr[list[hi]]
      BY <1>2, <1>4
    <2>3. PICK x \in Nat, y \in Nat : x = addr[list[m]] /\ y = End(list[m]) /\ x < y
      BY <1>3
    <2>4. PICK u \in Nat, v \in Nat : u = End(list[lo]) /\ v = addr[list[hi]] /\ b < u /\ v < e
      BY <1>3, <1>4, <1>5
    <2>5. b <= x
      BY <1>5, <2>1, <2>3, <2>4
    <2>6. y <= e
      BY <1>5, <2>2, <2>3, <2>4
    <2> QED
      BY <2>3, <2>5, <2>6
  <1> DEFINE ids == {list[k] : k \in lo .. hi}
             filled == {i \in ids : ~sections[i].nobits}
             fileEnds == {End(i) : i \in filled} \cup {b}
             ends == {End(i) : i \in ids}
  <1>7. /\ s.perm = sections[list[lo]].perm /\ s.base = b /\ s.offset = 0
        /\ s.filesz = Max(fileEnds) - b /\ s.memsz = Max(ends) - b
        /\ s = [perm |-> s.perm, base |-> s.base, offset |-> s.offset,
                filesz |-> s.filesz, memsz |-> s.memsz]
    BY <1>5 DEF Segment
  <1>8. b < e /\ \A m \in lo .. hi : End(list[m]) \in 0 .. e /\ b <= End(list[m])
    <2>1. ASSUME NEW m \in lo .. hi PROVE End(list[m]) \in 0 .. e /\ b < End(list[m])
      <3>1. PICK x \in Nat, y \in Nat : x = addr[list[m]] /\ y = End(list[m]) /\ x < y
        BY <1>3
      <3> QED
        BY <1>6, <3>1
    <2>2. b < e
      BY <1>4, <1>5, <2>1
    <2> QED
      BY <2>1, <2>2
  <1>9. Max(ends) = e
    <2>1. ends \in SUBSET (0 .. e) /\ e \in ends
      BY <1>4, <1>5, <1>8
    <2> HIDE DEF ends
    <2>2. PICK x \in 0 .. e : x = Max(ends) /\ e <= x
      BY <2>1, MaxIs
    <2> QED
      BY <2>2
  <1>10. PICK f \in 0 .. e : /\ f = Max(fileEnds)
                             /\ f \in fileEnds /\ \A x \in fileEnds : x <= f
    <2>1. fileEnds \in SUBSET (0 .. e) /\ b \in fileEnds
      BY <1>8
    <2> HIDE DEF fileEnds
    <2> QED
      BY <2>1, MaxIs
  <1>11. b <= f /\ (f = b \/ \E q \in lo .. hi : f = End(list[q]) /\ ~sections[list[q]].nobits)
    BY <1>10
  <1>12. ASSUME NEW m \in lo .. hi, ~sections[list[m]].nobits PROVE End(list[m]) <= f
    <2>1. End(list[m]) \in fileEnds
      BY <1>12
    <2> QED
      BY <1>10, <2>1
  <1> HIDE DEF ends, fileEnds
  <1>13. ASSUME NEW m \in lo .. hi, sections[list[m]].nobits PROVE f <= addr[list[m]]
    <2>1. CASE f = b
      BY <1>6, <2>1
    <2>2. CASE f # b
      <3>1. PICK q \in lo .. hi : f = End(list[q]) /\ ~sections[list[q]].nobits
        BY <1>11, <2>2
      <3>2. m \in Nat /\ q \in Nat
        OBVIOUS
      <3>3. ~(m <= q)
        <4> SUFFICES ASSUME m <= q PROVE FALSE
          OBVIOUS
        <4>1. q \in m .. hi
          BY <3>2
        <4>2. sections[list[m]].nobits => sections[list[q]].nobits
          BY <1>0, <1>4, <4>1, RunIsEven
        <4> QED
          BY <1>13, <3>1, <4>2
      <3>4. End(list[q]) <= addr[list[m]]
        BY <1>2, <1>4, <3>2, <3>3
      <3> QED
        BY <3>1, <3>4
    <2> QED
      BY <2>1, <2>2
  <1>14. s.filesz = f - b /\ s.memsz = e - b /\ s.base = b
    BY <1>7, <1>9, <1>10
  <1>15. s \in LoadSegment
    <2>1. sections[list[lo]].perm \in Perms
      BY <1>3, <1>4, SectionTypes DEF PlaceInv
    <2>2. f - b \in Nat /\ e - b \in Nat
      BY <1>8, <1>10, <1>11
    <2> QED
      BY <1>7, <1>14, <2>1, <2>2 DEF LoadSegment
  <1>16. s.filesz = 0 => sections[list[lo]].nobits
    <2> SUFFICES ASSUME s.filesz = 0, ~sections[list[lo]].nobits PROVE FALSE
      OBVIOUS
    <2>1. f = b
      BY <1>10, <1>14
    <2>2. End(list[lo]) <= b
      BY <1>4, <1>12, <2>1
    <2> QED
      BY <1>3, <1>4, <1>5, <2>2
  <1>17. s.base + s.memsz = e /\ s.memsz > 0 /\ s.filesz <= s.memsz /\ s.base + s.filesz = f
    BY <1>8, <1>10, <1>14
  <1>18. ASSUME NEW m \in lo .. hi PROVE s.perm = sections[list[m]].perm
    <2>0. lo \in Nat /\ hi \in Nat
      BY <1>4
    <2>1. \A x \in lo .. hi : sections[list[x]].perm = sections[list[lo]].perm
      BY <1>0, <2>0, RunIsEven
    <2> QED
      BY <1>7, <2>1
  <1> QED
    BY <1>5, <1>6, <1>12, <1>13, <1>14, <1>15, <1>16, <1>17, <1>18 DEF Holds, EndOf, FileEndOf

(* What build_load_segments makes of the list.                             *)
LEMMA GroupsAreShaped ==
  ASSUME PlaceInv, DOMAIN addr = DOMAIN sections, NEW segs, segs = Grouped(ByAddress)
  PROVE  Shaped(segs, FALSE)
  <1>0. PICK list : list = ByAddress
    OBVIOUS
  <1>1. PICK c \in Nat : list = ByAddress /\ c = Len(list)
    BY <1>0, ByAddressIs
  <1>2. /\ list \in [1 .. c -> Present]
        /\ \A i \in Present : \E m \in 1 .. c : list[m] = i
        /\ \A m, n \in 1 .. c : m < n => End(list[m]) <= addr[list[n]]
        /\ \A m, n \in 1 .. c : m < n => Sooner(list[m], list[n])
    BY <1>1, ByAddressIs
  <1>3. PICK N \in Nat : \E lo, hi :
           Cuts(list, lo, hi, N) /\ segs = [n \in 1 .. N |-> Segment(list, lo[n], hi[n])]
    <2>1. DOMAIN list = 1 .. Len(list) /\ Len(list) \in Nat
      BY <1>1, <1>2
    <2> QED
      BY <1>1, <2>1, GroupedCuts
  <1>x. PICK lo, hi :
           Cuts(list, lo, hi, N) /\ segs = [n \in 1 .. N |-> Segment(list, lo[n], hi[n])]
    BY <1>3
  <1>4. /\ \A n \in 1 .. N :
             /\ lo[n] \in 1 .. c /\ hi[n] \in 1 .. c /\ lo[n] <= hi[n]
             /\ \A m \in lo[n] + 1 .. hi[n] : ~Split(list[m - 1], list[m])
             /\ n > 1 => lo[n] > 1 /\ Split(list[lo[n] - 1], list[lo[n]])
             /\ n < N => lo[n + 1] = hi[n] + 1
        /\ \A m, n \in 1 .. N : m < n => hi[m] < lo[n]
        /\ \A p \in 1 .. c : \E n \in 1 .. N : lo[n] <= p /\ p <= hi[n]
    BY <1>1, <1>x DEF Cuts
  <1>5. DOMAIN segs = 1 .. N /\ Len(segs) = N
    BY <1>x
  <1>6. ASSUME NEW n \in 1 .. N
        PROVE  /\ segs[n] \in LoadSegment /\ segs[n].base = addr[list[lo[n]]]
               /\ EndOf(segs[n]) = End(list[hi[n]])
               /\ segs[n].memsz > 0 /\ segs[n].filesz <= segs[n].memsz
               /\ segs[n].filesz = 0 => sections[list[lo[n]]].nobits
               /\ \A m \in lo[n] .. hi[n] :
                    /\ segs[n].perm = sections[list[m]].perm
                    /\ End(list[m]) <= EndOf(segs[n])
                    /\ ~sections[list[m]].nobits => End(list[m]) <= FileEndOf(segs[n])
                    /\ sections[list[m]].nobits => FileEndOf(segs[n]) <= addr[list[m]]
    <2>1. segs[n] = Segment(list, lo[n], hi[n])
      BY <1>x
    <2>2. PICK l \in 1 .. Len(list), h \in 1 .. Len(list) : l = lo[n] /\ h = hi[n]
      BY <1>1, <1>4
    <2>3. l <= h /\ Unsplit(list, l, h)
      BY <1>4, <2>2 DEF Unsplit
    <2>4. Holds(segs[n], list, l, h)
      BY <1>1, <2>1, <2>2, <2>3, SegmentIs
    <2> QED
      BY <2>2, <2>4 DEF Holds
  <1>7. ASSUME NEW m \in 1 .. c
        PROVE  /\ list[m] \in Present /\ list[m] \in DOMAIN sections
               /\ addr[list[m]] \in Nat /\ End(list[m]) \in Nat
               /\ addr[list[m]] < End(list[m])
    BY <1>2, PresentAscend
  <1>8. ASSUME NEW p \in 1 .. c, NEW k \in 1 .. N
        PROVE  Home(segs, list[p], k) <=> lo[k] <= p /\ p <= hi[k]
    <2>1. PICK l \in 1 .. c, h \in 1 .. c : l = lo[k] /\ h = hi[k] /\ l <= h
      BY <1>4
    <2>2. PICK a \in Nat, e \in Nat : a = addr[list[p]] /\ e = End(list[p]) /\ a < e
      BY <1>7
    <2>3. PICK b \in Nat, f \in Nat : b = addr[list[l]] /\ f = End(list[l]) /\ b < f
      BY <1>7
    <2>4. segs[k].base = b
      BY <1>6, <2>1, <2>3
    <2>5. b <= a <=> l <= p
      <3>1. p < l => e <= b
        BY <1>2, <2>2, <2>3
      <3>2. l < p => f <= a
        BY <1>2, <2>2, <2>3
      <3>3. l = p => a = b
        BY <2>2, <2>3
      <3> QED
        BY <2>2, <2>3, <3>1, <3>2, <3>3
    <2>6. CASE k = N
      <3>1. p <= h
        <4>1. PICK n \in 1 .. N : lo[n] <= p /\ p <= hi[n]
          BY <1>4
        <4>2. n = N \/ hi[n] < lo[N]
          BY <1>4
        <4> QED
          BY <1>4, <2>1, <2>6, <4>1, <4>2
      <3> QED
        BY <1>5, <2>1, <2>2, <2>4, <2>5, <2>6, <3>1 DEF Home
    <2>7. CASE k # N
      <3>1. k < N /\ k + 1 \in 1 .. N /\ lo[k + 1] = h + 1 /\ h + 1 \in 1 .. c
        <4>1. k < N /\ k + 1 \in 1 .. N
          BY <2>7
        <4>2. k < N => lo[k + 1] = hi[k] + 1
          BY <1>4
        <4>3. lo[k + 1] \in 1 .. c
          BY <1>4, <4>1
        <4> QED
          BY <2>1, <4>1, <4>2, <4>3
      <3>2. PICK d \in Nat, g \in Nat : d = addr[list[h + 1]] /\ g = End(list[h + 1]) /\ d < g
        BY <1>7, <3>1
      <3>3. segs[k + 1].base = d
        BY <1>6, <3>1, <3>2
      <3>4. a < d <=> p < h + 1
        <4>1. p < h + 1 => e <= d
          BY <1>2, <2>2, <3>1, <3>2
        <4>2. h + 1 < p => g <= a
          BY <1>2, <2>2, <3>1, <3>2
        <4>3. h + 1 = p => a = d
          BY <2>2, <3>2
        <4> QED
          BY <2>2, <3>2, <4>1, <4>2, <4>3
      <3>5. Home(segs, list[p], k) <=> b <= a /\ a < d
        BY <1>5, <2>2, <2>4, <3>1, <3>3 DEF Home
      <3>6. p < h + 1 <=> p <= h
        BY <2>1
      <3> QED
        BY <2>1, <2>5, <3>4, <3>5, <3>6
    <2> QED
      BY <2>6, <2>7
  <1>9. segs \in Seq(LoadSegment)
    <2>1. segs \in [1 .. N -> LoadSegment]
      BY <1>x, <1>5, <1>6
    <2> QED
      BY <2>1
  <1>10. ASSUME NEW i \in Present PROVE \E k \in DOMAIN segs : Home(segs, i, k)
    <2>1. PICK p \in 1 .. c : list[p] = i
      BY <1>2
    <2>2. PICK n \in 1 .. N : lo[n] <= p /\ p <= hi[n]
      BY <1>4
    <2> QED
      BY <1>5, <1>8, <2>1, <2>2
  <1>11. ASSUME NEW i \in Present, NEW k \in DOMAIN segs, Home(segs, i, k)
         PROVE  /\ segs[k].perm = sections[i].perm
                /\ End(i) <= EndOf(segs[k])
                /\ ~sections[i].nobits => End(i) <= FileEndOf(segs[k])
                /\ sections[i].nobits => FileEndOf(segs[k]) <= addr[i]
    <2>1. PICK p \in 1 .. c : list[p] = i
      BY <1>2
    <2>2. k \in 1 .. N /\ lo[k] <= p /\ p <= hi[k]
      BY <1>5, <1>8, <1>11, <2>1
    <2>3. lo[k] \in 1 .. c /\ hi[k] \in 1 .. c
      BY <1>4, <2>2
    <2>4. p \in lo[k] .. hi[k]
      BY <2>2, <2>3
    <2> QED
      BY <1>6, <2>1, <2>2, <2>4
  <1>12. ASSUME NEW j \in 1 .. N, NEW k \in 1 .. N, j < k
         PROVE  /\ EndOf(segs[j]) <= segs[k].base
                /\ segs[j].perm # segs[k].perm \/ segs[k].filesz = 0 =>
                      Boundary(EndOf(segs[j]), segs[k].base)
    <2>1. PICK h \in 1 .. c, l \in 1 .. c : h = hi[j] /\ l = lo[k] /\ h < l
      BY <1>4, <1>12
    <2>2. EndOf(segs[j]) = End(list[h]) /\ segs[k].base = addr[list[l]]
      BY <1>6, <2>1
    <2>3. End(list[h]) <= addr[list[l]]
      BY <1>2, <2>1
    <2>4. \A x, y \in 1 .. c : x < y /\ sections[list[x]].perm # sections[list[y]].perm =>
               Boundary(End(list[x]), addr[list[y]])
      BY <1>2, <1>7 DEF PlaceInv
    <2>5. h \in lo[j] .. hi[j] /\ l \in lo[k] .. hi[k]
      BY <1>4, <2>1
    <2>6. segs[j].perm = sections[list[h]].perm /\ segs[k].perm = sections[list[l]].perm
      BY <1>6, <2>5
    <2>7. CASE segs[j].perm # segs[k].perm
      BY <2>1, <2>2, <2>3, <2>4, <2>6, <2>7
    <2>8. CASE segs[k].filesz = 0 /\ segs[j].perm = segs[k].perm
      <3>1. k > 1 /\ l > 1 /\ l - 1 \in 1 .. c /\ Split(list[l - 1], list[l])
        BY <1>4, <1>12, <2>1
      <3>2. sections[list[l]].nobits
        BY <1>6, <2>1, <2>8
      <3>3. sections[list[l - 1]].perm # sections[list[l]].perm
        BY <3>1, <3>2 DEF Split
      <3>4. Boundary(End(list[l - 1]), addr[list[l]])
        BY <2>4, <3>1, <3>3
      <3>5. End(list[h]) <= End(list[l - 1])
        <4>1. PICK u \in Nat, v \in Nat : u = End(list[h]) /\ v = End(list[l - 1])
          BY <1>7, <3>1
        <4>3. PICK q \in 1 .. c : q = l - 1
          BY <3>1
        <4>4. h = q \/ h < q
          BY <2>1, <4>3
        <4>5. h < q => End(list[h]) <= addr[list[q]]
          BY <1>2
        <4>2. h = l - 1 \/ u <= addr[list[l - 1]]
          BY <4>1, <4>3, <4>4, <4>5
        <4> QED
          BY <1>7, <3>1, <4>1, <4>2
      <3>6. Boundary(End(list[h]), addr[list[l]])
        <4>1. PICK b \in Nat : b % Page = 0 /\ End(list[l - 1]) <= b /\ b <= addr[list[l]]
          BY <3>4 DEF Boundary
        <4>2. End(list[h]) <= b
          BY <1>7, <3>1, <3>5, <4>1
        <4> QED
          BY <4>1, <4>2 DEF Boundary
      <3> QED
        BY <2>2, <2>3, <3>6
    <2> QED
      BY <2>2, <2>3, <2>7, <2>8
  <1>13. ASSUME NEW k \in 1 .. N
         PROVE  \E i \in Present : Home(segs, i, k) /\ addr[i] = segs[k].base
    <2>1. PICK p \in 1 .. c : p = lo[k] /\ p <= hi[k]
      BY <1>4
    <2>2. Home(segs, list[p], k)
      BY <1>8, <2>1
    <2>3. list[p] \in Present /\ addr[list[p]] = segs[k].base
      BY <1>6, <1>7, <2>1
    <2> QED
      BY <2>2, <2>3
  <1>14. \A k \in 1 .. N : segs[k].memsz > 0 /\ segs[k].filesz <= segs[k].memsz
    BY <1>6
  <1> QED
    BY <1>5, <1>9, <1>10, <1>11, <1>12, <1>13, <1>14 DEF Shaped

-----------------------------------------------------------------------------
(* File offsets.                                                           *)

(* How far a segment moves from memory to the file.                        *)
Shift(s) == s.offset - s.base

(* The segments' file images follow one another from low on, congruent to  *)
(* their addresses; where no page ends between them they move alike.       *)
Laid(segs, low) ==
    /\ \A k \in DOMAIN segs : Shift(segs[k]) % Page = 0 /\ low <= segs[k].offset
    /\ \A j, k \in DOMAIN segs : j < k =>
          /\ segs[j].offset + segs[j].filesz <= segs[k].offset
          /\ ~Boundary(FileEndOf(segs[j]), segs[k].base) => Shift(segs[k]) = Shift(segs[j])

(* The fields of a segment.                                                *)
LEMMA SegmentTypes ==
  ASSUME NEW segs \in Seq(LoadSegment)
  PROVE  /\ Len(segs) \in Nat /\ DOMAIN segs = 1 .. Len(segs)
         /\ \A k \in DOMAIN segs :
              /\ k \in Nat \ {0} /\ segs[k] \in LoadSegment
              /\ segs[k].perm \in Perms /\ segs[k].base \in Nat /\ segs[k].offset \in Nat
              /\ segs[k].filesz \in Nat /\ segs[k].memsz \in Nat
              /\ EndOf(segs[k]) \in Nat /\ FileEndOf(segs[k]) \in Nat
              /\ Shift(segs[k]) \in Int
  <1>1. Len(segs) \in Nat /\ DOMAIN segs = 1 .. Len(segs)
    OBVIOUS
  <1>2. ASSUME NEW k \in DOMAIN segs
        PROVE  /\ k \in Nat \ {0} /\ segs[k] \in LoadSegment
               /\ segs[k].perm \in Perms /\ segs[k].base \in Nat /\ segs[k].offset \in Nat
               /\ segs[k].filesz \in Nat /\ segs[k].memsz \in Nat
    <2>1. k \in Nat \ {0} /\ segs[k] \in LoadSegment
      OBVIOUS
    <2> QED
      BY <2>1 DEF LoadSegment
  <1>3. ASSUME NEW k \in DOMAIN segs
        PROVE  EndOf(segs[k]) \in Nat /\ FileEndOf(segs[k]) \in Nat /\ Shift(segs[k]) \in Int
    BY <1>2 DEF EndOf, FileEndOf, Shift
  <1> QED
    BY <1>1, <1>2, <1>3

(* Without a page's end between, two numbers are less than a page apart.   *)
LEMMA NoBoundaryNear ==
  ASSUME NEW e \in Nat, NEW a \in Nat, ~Boundary(e, a)
  PROVE  a < e + Page
  <1>1. PICK p \in Nat \ {0} : p = Page
    BY PageIs
  <1>2. PICK v \in Nat : v = 0
    OBVIOUS
  <1>3. PICK b \in Nat : e <= b /\ b < e + p /\ (b - v) % p = 0
    BY FirstCongruent
  <1>4. b % Page = 0
    BY <1>1, <1>2, <1>3
  <1>5. ~(b <= a)
    BY <1>3, <1>4 DEF Boundary
  <1> QED
    BY <1>1, <1>3, <1>5

(* It is enough to look at neighbours.                                     *)
LaidNext(segs, low) ==
    \A k \in DOMAIN segs :
      /\ Shift(segs[k]) % Page = 0
      /\ k = 1 => low <= segs[k].offset
      /\ k > 1 => /\ segs[k - 1].offset + segs[k - 1].filesz <= segs[k].offset
                  /\ ~Boundary(FileEndOf(segs[k - 1]), segs[k].base) =>
                        Shift(segs[k]) = Shift(segs[k - 1])

(* What holds between neighbours holds between any two segments.           *)
LEMMA LaidOneByOne ==
  ASSUME NEW segs, Shaped(segs, FALSE), NEW low \in Nat, LaidNext(segs, low)
  PROVE  Laid(segs, low)
  <1>1. segs \in Seq(LoadSegment)
    BY DEF Shaped
  <1>2. PICK n \in Nat : n = Len(segs) /\ DOMAIN segs = 1 .. n
    BY <1>1, SegmentTypes
  <1>y. \A x, y \in 1 .. n : x < y => EndOf(segs[x]) <= segs[y].base
    BY <1>2 DEF Shaped
  <1>3. ASSUME NEW k \in 1 .. n
        PROVE  /\ segs[k].base \in Nat /\ segs[k].offset \in Nat /\ segs[k].filesz \in Nat
               /\ segs[k].memsz \in Nat /\ segs[k].filesz <= segs[k].memsz
               /\ EndOf(segs[k]) \in Nat /\ FileEndOf(segs[k]) \in Nat
               /\ segs[k].base <= FileEndOf(segs[k]) /\ FileEndOf(segs[k]) <= EndOf(segs[k])
               /\ Shift(segs[k]) \in Int
    <2>1. /\ segs[k].base \in Nat /\ segs[k].offset \in Nat /\ segs[k].filesz \in Nat
          /\ segs[k].memsz \in Nat /\ segs[k].filesz <= segs[k].memsz
          /\ Shift(segs[k]) \in Int
      BY <1>1, <1>2, SegmentTypes DEF Shaped
    <2> QED
      BY <2>1 DEF EndOf, FileEndOf
  <1>4. ASSUME NEW j \in 1 .. n, NEW k \in 1 .. n, j < k
        PROVE  segs[j].offset + segs[j].filesz <= segs[k].offset
    <2> DEFINE Bad == {m \in j + 1 .. n : segs[j].offset + segs[j].filesz > segs[m].offset}
    <2> SUFFICES ASSUME Bad # {} PROVE FALSE
      <3>1. k \in j + 1 .. n
        BY <1>4
      <3>2. k \notin Bad
        OBVIOUS
      <3> QED
        BY <1>3, <3>1, <3>2
    <2>1. Bad \in SUBSET Nat
      OBVIOUS
    <2>2. PICK m \in Bad : \A x \in Bad : m <= x
      BY <2>1, LeastOfSet
    <2>3. m \in 1 .. n /\ m > 1 /\ m > j /\ m - 1 \in 1 .. n
      OBVIOUS
    <2>4. segs[m - 1].offset + segs[m - 1].filesz <= segs[m].offset
      BY <1>2, <2>3 DEF LaidNext
    <2>5. CASE m - 1 = j
      BY <2>4, <2>5, <1>3
    <2>6. CASE m - 1 # j
      <3>1. m - 1 \in j + 1 .. n /\ m - 1 \notin Bad
        BY <2>2, <2>3, <2>6
      <3>2. segs[j].offset + segs[j].filesz <= segs[m - 1].offset
        BY <1>3, <2>3, <3>1
      <3> QED
        BY <1>3, <2>3, <2>4, <3>2
    <2> QED
      BY <2>5, <2>6
  <1>5. ASSUME NEW k \in 1 .. n PROVE low <= segs[k].offset
    <2>1. 1 \in 1 .. n /\ low <= segs[1].offset
      BY <1>2 DEF LaidNext
    <2>2. k = 1 \/ segs[1].offset + segs[1].filesz <= segs[k].offset
      BY <1>4, <2>1
    <2> QED
      BY <1>3, <2>1, <2>2
  <1>6. ASSUME NEW j \in 1 .. n, NEW k \in 1 .. n, j < k,
               ~Boundary(FileEndOf(segs[j]), segs[k].base)
        PROVE  Shift(segs[k]) = Shift(segs[j])
    <2>1. ASSUME NEW m \in j + 1 .. k PROVE Shift(segs[m]) = Shift(segs[m - 1])
      <3>1. m \in 1 .. n /\ m - 1 \in 1 .. n /\ m > 1
        OBVIOUS
      <3>2. segs[m].base <= segs[k].base
        <4>1. m = k \/ EndOf(segs[m]) <= segs[k].base
          BY <1>y, <3>1
        <4> QED
          BY <1>3, <3>1, <4>1
      <3>3. FileEndOf(segs[j]) <= FileEndOf(segs[m - 1])
        <4>1. m - 1 = j \/ EndOf(segs[j]) <= segs[m - 1].base
          BY <1>y, <3>1
        <4> QED
          BY <1>3, <3>1, <4>1
      <3>4. ~Boundary(FileEndOf(segs[m - 1]), segs[m].base)
        <4> SUFFICES ASSUME NEW b \in Nat, b % Page = 0,
                            FileEndOf(segs[m - 1]) <= b, b <= segs[m].base
                     PROVE  FALSE
          BY DEF Boundary
        <4>1. FileEndOf(segs[j]) <= b /\ b <= segs[k].base
          BY <1>3, <3>1, <3>2, <3>3
        <4> QED
          BY <1>6, <4>1 DEF Boundary
      <3> QED
        BY <1>2, <3>1, <3>4 DEF LaidNext
    <2> DEFINE Bad == {m \in j + 1 .. k : Shift(segs[m]) # Shift(segs[j])}
    <2> SUFFICES ASSUME Bad # {} PROVE FALSE
      <3>1. k \in j + 1 .. k
        BY <1>6
      <3> QED
        BY <3>1
    <2>2. Bad \in SUBSET Nat
      OBVIOUS
    <2>3. PICK m \in Bad : \A x \in Bad : m <= x
      BY <2>2, LeastOfSet
    <2>4. m \in j + 1 .. k /\ m - 1 \notin Bad
      BY <2>3
    <2>5. m - 1 = j \/ m - 1 \in j + 1 .. k
      BY <2>4
    <2>6. Shift(segs[m - 1]) = Shift(segs[j])
      BY <2>4, <2>5
    <2> QED
      BY <2>1, <2>3, <2>6
  <1>7. \A k \in 1 .. n : Shift(segs[k]) % Page = 0
    BY <1>2 DEF LaidNext
  <1> QED
    BY <1>2, <1>4, <1>5, <1>6, <1>7 DEF Laid

(* What write_elf64_x86_64_segments and inject_static_tls_program_header   *)
(* do in turn: the anchored segments keep their distance from the first of *)
(* them, the others come at the first congruent offset.                    *)
Offset(g, segs, low, anchored, k) ==
    IF k \in anchored \ {Min(anchored)}
    THEN g[Min(anchored)] + segs[k].base - segs[Min(anchored)].base
    ELSE Congruent(IF k = 1 THEN low ELSE g[k - 1] + segs[k - 1].filesz, segs[k].base)

Solves(g, segs, low, anchored, n) ==
    g = [k \in 1 .. n |-> Offset(g, segs, low, anchored, k)]

(* What is asked of the segments that are anchored.                        *)
Anchors(anchored, n) ==
    /\ anchored \subseteq 1 .. n
    /\ \A k \in anchored \ {Min(anchored)} :
          /\ Min(anchored) \in 1 .. n /\ Min(anchored) < k
          /\ k - 1 \in anchored

(* The recursion for the offsets has a solution.                           *)
LEMMA OffsetsExist ==
  ASSUME NEW segs, NEW low, NEW n \in Nat, NEW anchored, Anchors(anchored, n)
  PROVE  \E g : Solves(g, segs, low, anchored, n)
  <1> DEFINE Bad == {m \in 0 .. n : ~\E g : Solves(g, segs, low, anchored, m)}
  <1>1. Bad = {}
    <2> SUFFICES ASSUME Bad # {} PROVE FALSE
      OBVIOUS
    <2>1. Bad \in SUBSET Nat
      OBVIOUS
    <2>2. PICK m \in Bad : \A x \in Bad : m <= x
      BY <2>1, LeastOfSet
    <2>3. CASE m = 0
      <3>1. Solves([k \in 1 .. 0 |-> 0], segs, low, anchored, 0)
        BY DEF Solves
      <3> QED
        BY <2>3, <3>1
    <2>4. CASE m # 0
      <3>1. m \in 1 .. n /\ m - 1 \in 0 .. n /\ m - 1 \notin Bad
        BY <2>2, <2>4
      <3>2. PICK f : Solves(f, segs, low, anchored, m - 1)
        BY <3>1
      <3>3. DOMAIN f = 1 .. m - 1
            /\ \A k \in 1 .. m - 1 : f[k] = Offset(f, segs, low, anchored, k)
        BY <3>2 DEF Solves
      <3> DEFINE g == [k \in 1 .. m |-> IF k = m THEN Offset(f, segs, low, anchored, m) ELSE f[k]]
      <3>4. ASSUME NEW k \in 1 .. m
            PROVE  Offset(g, segs, low, anchored, k) = Offset(f, segs, low, anchored, k)
        <4>1. k \in 1 .. n
          BY <3>1
        <4>2. CASE k \in anchored \ {Min(anchored)}
          <5>1. Min(anchored) \in 1 .. m - 1
            BY <4>1, <4>2, <3>1 DEF Anchors
          <5>2. g[Min(anchored)] = f[Min(anchored)]
            BY <3>1, <5>1
          <5> HIDE DEF g
          <5> QED
            BY <4>2, <5>2 DEF Offset
        <4>3. CASE k \notin anchored \ {Min(anchored)} /\ k # 1
          <5>1. k - 1 \in 1 .. m - 1
            BY <3>1, <4>3
          <5>2. g[k - 1] = f[k - 1]
            BY <3>1, <5>1
          <5> HIDE DEF g
          <5> QED
            BY <4>3, <5>2 DEF Offset
        <4>4. CASE k \notin anchored \ {Min(anchored)} /\ k = 1
          BY <4>4 DEF Offset
        <4> QED
          BY <4>2, <4>3, <4>4
      <3>5. ASSUME NEW k \in 1 .. m PROVE g[k] = Offset(f, segs, low, anchored, k)
        <4>1. CASE k = m
          BY <4>1
        <4>2. CASE k # m
          <5>1. k \in 1 .. m - 1
            BY <3>1, <4>2
          <5> QED
            BY <3>3, <4>2, <5>1
        <4> QED
          BY <4>1, <4>2
      <3>6. Solves(g, segs, low, anchored, m)
        <4>1. g = [k \in 1 .. m |-> g[k]]
          OBVIOUS
        <4> HIDE DEF g
        <4>2. \A k \in 1 .. m : g[k] = Offset(g, segs, low, anchored, k)
          BY <3>4, <3>5
        <4> QED
          BY <4>1, <4>2 DEF Solves
      <3> QED
        BY <3>6
    <2> QED
      BY <2>3, <2>4
  <1> QED
    BY <1>1

(* Congruent gives the first offset from low on that is congruent to an    *)
(* address.                                                                *)
LEMMA CongruentIs ==
  ASSUME NEW l \in Nat, NEW v \in Nat
  PROVE  /\ Congruent(l, v) \in Nat /\ l <= Congruent(l, v) /\ Congruent(l, v) < l + Page
         /\ (Congruent(l, v) - v) % Page = 0
  <1>1. PICK p \in Nat \ {0} : p = Page
    BY PageIs
  <1>2. \E c \in Nat : c = l + ((v - l) % p) /\ l <= c /\ c < l + p /\ (c - v) % p = 0
    BY FirstCongruent
  <1> QED
    BY <1>1, <1>2 DEF Congruent

(* Giving segments offsets changes nothing else.                           *)
LEMMA OffsetsGiven ==
  ASSUME NEW segs \in Seq(LoadSegment), NEW g, \A k \in DOMAIN segs : g[k] \in Nat,
         NEW out, out = WithOffsets(segs, g)
  PROVE  /\ out \in Seq(LoadSegment) /\ DOMAIN out = DOMAIN segs /\ Len(out) = Len(segs)
         /\ \A k \in DOMAIN segs :
              /\ out[k].perm = segs[k].perm /\ out[k].base = segs[k].base
              /\ out[k].filesz = segs[k].filesz /\ out[k].memsz = segs[k].memsz
              /\ EndOf(out[k]) = EndOf(segs[k]) /\ FileEndOf(out[k]) = FileEndOf(segs[k])
              /\ out[k].offset = g[k] /\ Shift(out[k]) = g[k] - segs[k].base
         /\ \A i, k : k \in DOMAIN segs => (Home(out, i, k) <=> Home(segs, i, k))
  <1>1. PICK n \in Nat : n = Len(segs) /\ DOMAIN segs = 1 .. n
    OBVIOUS
  <1>2. out = [k \in 1 .. n |-> [segs[k] EXCEPT !.offset = g[k]]]
    BY <1>1 DEF WithOffsets
  <1>3. ASSUME NEW k \in 1 .. n
        PROVE  /\ out[k] \in LoadSegment
               /\ out[k].perm = segs[k].perm /\ out[k].base = segs[k].base
               /\ out[k].filesz = segs[k].filesz /\ out[k].memsz = segs[k].memsz
               /\ out[k].offset = g[k]
    <2>1. segs[k] \in LoadSegment /\ g[k] \in Nat
      BY <1>1
    <2>2. out[k] = [segs[k] EXCEPT !.offset = g[k]]
      BY <1>2
    <2> QED
      BY <2>1, <2>2 DEF LoadSegment
  <1>4. out \in [1 .. n -> LoadSegment] /\ DOMAIN out = 1 .. n
    BY <1>2, <1>3
  <1>5. out \in Seq(LoadSegment) /\ Len(out) = n
    BY <1>4
  <1>6. ASSUME NEW k \in 1 .. n
        PROVE  /\ EndOf(out[k]) = EndOf(segs[k]) /\ FileEndOf(out[k]) = FileEndOf(segs[k])
               /\ Shift(out[k]) = g[k] - segs[k].base
    BY <1>3 DEF EndOf, FileEndOf, Shift
  <1>7. ASSUME NEW i, NEW k \in 1 .. n PROVE Home(out, i, k) <=> Home(segs, i, k)
    <2>1. k < n => k + 1 \in 1 .. n
      OBVIOUS
    <2> QED
      BY <1>1, <1>3, <1>5, <2>1 DEF Home
  <1> QED
    BY <1>1, <1>3, <1>4, <1>5, <1>6, <1>7

(* Giving offsets does not change the shape.                               *)
LEMMA ShapedWithOffsets ==
  ASSUME NEW segs, Shaped(segs, FALSE), NEW g, \A k \in DOMAIN segs : g[k] \in Nat
  PROVE  Shaped(WithOffsets(segs, g), FALSE)
  <1>1. PICK out : out = WithOffsets(segs, g)
    OBVIOUS
  <1>2. segs \in Seq(LoadSegment)
    BY DEF Shaped
  <1>3. /\ out \in Seq(LoadSegment) /\ DOMAIN out = DOMAIN segs /\ Len(out) = Len(segs)
        /\ \A k \in DOMAIN segs :
              /\ out[k].perm = segs[k].perm /\ out[k].base = segs[k].base
              /\ out[k].filesz = segs[k].filesz /\ out[k].memsz = segs[k].memsz
              /\ EndOf(out[k]) = EndOf(segs[k]) /\ FileEndOf(out[k]) = FileEndOf(segs[k])
        /\ \A i, k : k \in DOMAIN segs => (Home(out, i, k) <=> Home(segs, i, k))
    BY <1>1, <1>2, OffsetsGiven
  <1>4. Shaped(out, FALSE)
    <2>1. \A i \in Present : \E k \in DOMAIN out : Home(out, i, k)
      BY <1>3 DEF Shaped
    <2>2. ASSUME NEW i \in Present, NEW k \in DOMAIN out, Home(out, i, k)
          PROVE  /\ out[k].perm = sections[i].perm
                 /\ End(i) <= EndOf(out[k])
                 /\ ~sections[i].nobits => End(i) <= FileEndOf(out[k])
                 /\ sections[i].nobits => FileEndOf(out[k]) <= addr[i]
      <3>1. Home(segs, i, k) /\ k \in DOMAIN segs
        BY <1>3, <2>2
      <3> QED
        BY <1>3, <3>1 DEF Shaped
    <2>3. ASSUME NEW k \in DOMAIN out
          PROVE  /\ out[k].memsz > 0 /\ out[k].filesz <= out[k].memsz
                 /\ \E i \in Present : Home(out, i, k) /\ addr[i] = out[k].base
      BY <1>3 DEF Shaped
    <2>4. ASSUME NEW j \in DOMAIN out, NEW k \in DOMAIN out, j < k
          PROVE  /\ EndOf(out[j]) <= out[k].base
                 /\ out[j].perm # out[k].perm \/ out[k].filesz = 0 =>
                       Boundary(EndOf(out[j]), out[k].base)
      BY <1>3, <2>4 DEF Shaped
    <2> QED
      BY <1>3, <2>1, <2>2, <2>3, <2>4 DEF Shaped
  <1> QED
    BY <1>1, <1>4

(* The offsets are as they should be.                                      *)
LEMMA SolutionIsLaid ==
  ASSUME NEW segs, Shaped(segs, FALSE), NEW low \in Nat,
         NEW anchored, Anchors(anchored, Len(segs)),
         NEW g, Solves(g, segs, low, anchored, Len(segs)),
         \A k \in anchored \ {Min(anchored)} : g[k - 1] + segs[k - 1].filesz <= g[k]
  PROVE  /\ \A k \in DOMAIN segs : g[k] \in Nat
         /\ Laid(WithOffsets(segs, g), low)
         /\ \A k \in anchored : g[k] - segs[k].base = g[Min(anchored)] - segs[Min(anchored)].base
  <1>1. segs \in Seq(LoadSegment)
    BY DEF Shaped
  <1>2. PICK n \in Nat : n = Len(segs) /\ DOMAIN segs = 1 .. n
    BY <1>1, SegmentTypes
  <1>3. PICK p \in Nat \ {0} : p = Page
    BY PageIs
  <1>4. ASSUME NEW k \in 1 .. n
        PROVE  /\ segs[k].base \in Nat /\ segs[k].filesz \in Nat /\ segs[k].memsz \in Nat
               /\ segs[k].filesz <= segs[k].memsz
    BY <1>1, <1>2, SegmentTypes DEF Shaped
  <1>5. ASSUME NEW j \in 1 .. n, NEW k \in 1 .. n, j < k
        PROVE  segs[j].base + segs[j].memsz <= segs[k].base
    BY <1>2, <1>5 DEF Shaped, EndOf
  <1> DEFINE tied == anchored \ {Min(anchored)}
             m0 == Min(anchored)
  <1>6. \A k \in tied : m0 \in 1 .. n /\ m0 < k /\ k - 1 \in anchored /\ k \in 1 .. n
    BY <1>2 DEF Anchors
  <1>7. \A k \in 1 .. n : g[k] = Offset(g, segs, low, anchored, k)
    BY <1>2 DEF Solves
  <1>8. ASSUME NEW k \in tied
        PROVE  g[k] = g[m0] + segs[k].base - segs[m0].base
    BY <1>6, <1>7 DEF Offset
  <1>9. ASSUME NEW k \in 1 .. n, k \notin tied
        PROVE  g[k] = Congruent(IF k = 1 THEN low ELSE g[k - 1] + segs[k - 1].filesz, segs[k].base)
    BY <1>7, <1>9 DEF Offset
  <1> HIDE DEF tied, m0
  <1>10. ASSUME NEW k \in 1 .. n PROVE g[k] \in Nat
    <2> DEFINE Bad == {x \in 1 .. n : g[x] \notin Nat}
    <2> SUFFICES ASSUME Bad # {} PROVE FALSE
      OBVIOUS
    <2>1. Bad \in SUBSET Nat
      OBVIOUS
    <2>2. PICK x \in Bad : \A y \in Bad : x <= y
      BY <2>1, LeastOfSet
    <2>3. CASE x \in tied
      <3>1. m0 \in 1 .. n /\ m0 < x /\ m0 \notin Bad
        BY <1>6, <2>2, <2>3
      <3>2. g[m0] \in Nat /\ segs[x].base \in Nat /\ segs[m0].base \in Nat
            /\ segs[m0].memsz \in Nat
        BY <1>4, <3>1
      <3>3. segs[m0].base + segs[m0].memsz <= segs[x].base
        BY <1>5, <3>1
      <3>4. g[x] = g[m0] + segs[x].base - segs[m0].base
        BY <1>8, <2>3
      <3>5. PICK u \in Nat, v \in Nat, w \in Nat, z \in Nat :
                /\ u = g[m0] /\ v = segs[x].base /\ w = segs[m0].base /\ z = segs[m0].memsz
                /\ w + z <= v
        BY <3>2, <3>3
      <3> HIDE DEF Bad
      <3>6. u + v - w \in Nat
        BY <3>5, MovedUp, Zenon
      <3> USE DEF Bad
      <3> QED
        BY <3>4, <3>5, <3>6
    <2>4. CASE x \notin tied /\ x = 1
      <3>1. g[x] = Congruent(low, segs[x].base) /\ segs[x].base \in Nat
        BY <1>4, <1>9, <2>4
      <3> QED
        BY <3>1, CongruentIs
    <2>5. CASE x \notin tied /\ x # 1
      <3>1. x - 1 \in 1 .. n /\ x - 1 \notin Bad
        BY <2>2, <2>5
      <3>2. g[x - 1] + segs[x - 1].filesz \in Nat /\ segs[x].base \in Nat
        BY <1>4, <3>1
      <3>3. g[x] = Congruent(g[x - 1] + segs[x - 1].filesz, segs[x].base)
        BY <1>9, <2>5
      <3> QED
        BY <3>2, <3>3, CongruentIs
    <2> QED
      BY <2>3, <2>4, <2>5
  <1>11. ASSUME NEW k \in 1 .. n, k \notin tied
         PROVE  /\ (g[k] - segs[k].base) % Page = 0
                /\ k = 1 => low <= g[k]
                /\ k > 1 => /\ g[k - 1] + segs[k - 1].filesz <= g[k]
                            /\ g[k] < g[k - 1] + segs[k - 1].filesz + Page
    <2>1. PICK b \in Nat : b = segs[k].base
      BY <1>4
    <2>2. PICK l \in Nat : l = IF k = 1 THEN low ELSE g[k - 1] + segs[k - 1].filesz
      <3>1. CASE k = 1
        BY <3>1
      <3>2. CASE k # 1
        <4>1. k - 1 \in 1 .. n
          BY <3>2
        <4>2. g[k - 1] + segs[k - 1].filesz \in Nat
          BY <1>4, <1>10, <4>1
        <4> QED
          BY <3>2, <4>2
      <3> QED
        BY <3>1, <3>2
    <2>3. g[k] = Congruent(l, b)
      BY <1>9, <1>11, <2>1, <2>2
    <2>4. /\ l <= g[k] /\ g[k] < l + Page /\ (g[k] - b) % Page = 0
      BY <2>3, CongruentIs
    <2>5. k > 1 => l = g[k - 1] + segs[k - 1].filesz
      BY <2>2
    <2>6. k = 1 => l = low
      BY <2>2
    <2> QED
      BY <2>1, <2>4, <2>5, <2>6
  <1>12. ASSUME NEW k \in tied PROVE g[k] - segs[k].base = g[m0] - segs[m0].base
    <2>1. k \in 1 .. n /\ m0 \in 1 .. n
      BY <1>6
    <2>2. g[m0] \in Nat /\ segs[m0].base \in Nat /\ segs[k].base \in Nat
      BY <1>4, <1>10, <2>1
    <2>3. g[k] = g[m0] + segs[k].base - segs[m0].base
      BY <1>8
    <2> QED
      BY <2>2, <2>3
  <1>13. ASSUME NEW k \in anchored PROVE g[k] - segs[k].base = g[m0] - segs[m0].base
    BY <1>12 DEF tied, m0
  <1>14. ASSUME NEW k \in 1 .. n PROVE (g[k] - segs[k].base) % Page = 0
    <2>1. CASE k \in tied
      <3>1. m0 \notin tied
        BY DEF tied, m0
      <3> QED
        BY <1>6, <1>11, <1>12, <2>1, <3>1
    <2> QED
      BY <1>11, <2>1
  <1>15. ASSUME NEW k \in 1 .. n, k > 1
         PROVE  /\ g[k - 1] + segs[k - 1].filesz <= g[k]
                /\ ~Boundary(FileEndOf(segs[k - 1]), segs[k].base) =>
                      g[k] - segs[k].base = g[k - 1] - segs[k - 1].base
    <2>1. k - 1 \in 1 .. n
      BY <1>15
    <2>2. CASE k \in tied
      <3>1. g[k] - segs[k].base = g[m0] - segs[m0].base
        BY <1>12, <2>2
      <3>2. g[k - 1] - segs[k - 1].base = g[m0] - segs[m0].base
        BY <1>6, <1>13, <2>2
      <3>3. g[k - 1] + segs[k - 1].filesz <= g[k]
        BY <2>2 DEF tied, m0
      <3> QED
        BY <3>1, <3>2, <3>3
    <2>3. CASE k \notin tied
      <3> SUFFICES ASSUME ~Boundary(FileEndOf(segs[k - 1]), segs[k].base)
                   PROVE  g[k] - segs[k].base = g[k - 1] - segs[k - 1].base
        BY <1>11, <1>15, <2>3
      <3>1. PICK b \in Nat, f \in Nat, z \in Nat, u \in Nat, v \in Nat, c \in Nat :
                /\ b = segs[k - 1].base /\ f = segs[k - 1].filesz /\ z = segs[k - 1].memsz
                /\ u = g[k - 1] /\ v = g[k] /\ c = segs[k].base
        BY <1>4, <1>10, <2>1
      <3>2. f <= z /\ b + z <= c
        BY <1>4, <1>5, <2>1, <3>1
      <3>3. c < b + f + p
        <4>1. PICK x \in Nat : x = b + f
          OBVIOUS
        <4>2. FileEndOf(segs[k - 1]) = x
          BY <3>1, <4>1 DEF FileEndOf
        <4>3. ~Boundary(x, c)
          BY <3>1, <4>2
        <4>4. c < x + Page
          BY <4>3, NoBoundaryNear
        <4> QED
          BY <1>3, <4>1, <4>4
      <3>4. u + f <= v /\ v < u + f + p
        BY <1>3, <1>11, <1>15, <2>3, <3>1
      <3>5. PICK s \in Int, t \in Int : s = v - c /\ t = u - b
        OBVIOUS
      <3>6. s % p = 0 /\ t % p = 0
        BY <1>3, <1>14, <2>1, <3>1, <3>5
      <3>7. (t - s) % p = 0
        BY <3>6, IntSumDifference
      <3>8. PICK l \in Int, x \in Int : l = u + f /\ x = c + t
        OBVIOUS
      <3>9. x - v = t - s
        BY <3>5, <3>8
      <3>10. l <= x /\ x < l + p /\ l <= v /\ v < l + p
        BY <3>2, <3>3, <3>4, <3>5, <3>8
      <3>11. x = v
        BY <3>7, <3>9, <3>10, OneInWindow
      <3>12. v - c = u - b
        BY <3>5, <3>8, <3>11
      <3> QED
        BY <3>1, <3>12
    <2> QED
      BY <2>2, <2>3
  <1>16. PICK out : out = WithOffsets(segs, g)
    OBVIOUS
  <1>17. /\ DOMAIN out = 1 .. n
         /\ \A k \in 1 .. n :
              /\ out[k].base = segs[k].base /\ out[k].filesz = segs[k].filesz
              /\ FileEndOf(out[k]) = FileEndOf(segs[k])
              /\ out[k].offset = g[k] /\ Shift(out[k]) = g[k] - segs[k].base
    BY <1>1, <1>2, <1>10, <1>16, OffsetsGiven
  <1>18. LaidNext(out, low)
    <2> SUFFICES ASSUME NEW k \in 1 .. n
                 PROVE  /\ Shift(out[k]) % Page = 0
                        /\ k = 1 => low <= out[k].offset
                        /\ k > 1 => /\ out[k - 1].offset + out[k - 1].filesz <= out[k].offset
                                    /\ ~Boundary(FileEndOf(out[k - 1]), out[k].base) =>
                                          Shift(out[k]) = Shift(out[k - 1])
      BY <1>17 DEF LaidNext
    <2>1. Shift(out[k]) % Page = 0
      BY <1>14, <1>17
    <2>2. k = 1 => low <= out[k].offset
      <3>1. k = 1 => k \notin tied
        BY <1>6
      <3> QED
        BY <1>11, <1>17, <3>1
    <2>3. k > 1 => k - 1 \in 1 .. n
      OBVIOUS
    <2> QED
      BY <1>15, <1>17, <2>1, <2>2, <2>3
  <1>19. Laid(out, low)
    BY <1>10, <1>2, <1>16, <1>18, ShapedWithOffsets, LaidOneByOne
  <1> QED
    BY <1>2, <1>10, <1>13, <1>16, <1>19 DEF m0

(* PlainOffsets is the recursion without anchors.                          *)
LEMMA PlainOffsetsSolve ==
  ASSUME NEW segs, Len(segs) \in Nat
  PROVE  Solves(PlainOffsets(segs), segs, MetadataEnd(Len(segs)), {}, Len(segs))
  <1> DEFINE low == MetadataEnd(Len(segs))
             body(g, k) == Congruent(IF k = 1 THEN low ELSE g[k - 1] + segs[k - 1].filesz,
                                     segs[k].base)
  <1>1. PlainOffsets(segs) = CHOOSE g : g = [k \in 1 .. Len(segs) |-> body(g, k)]
    BY DEF PlainOffsets
  <1>2. \A g, k : Offset(g, segs, low, {}, k) = body(g, k)
    BY DEF Offset
  <1>3. Anchors({}, Len(segs))
    BY DEF Anchors
  <1> HIDE DEF low, body
  <1>4. PICK h : Solves(h, segs, low, {}, Len(segs))
    BY <1>3, OffsetsExist
  <1>5. h = [k \in 1 .. Len(segs) |-> body(h, k)]
    BY <1>2, <1>4 DEF Solves
  <1>6. PICK f : f = PlainOffsets(segs)
    OBVIOUS
  <1>7. f = [k \in 1 .. Len(segs) |-> body(f, k)]
    BY <1>1, <1>5, <1>6
  <1>8. Solves(f, segs, low, {}, Len(segs))
    BY <1>2, <1>7 DEF Solves
  <1> QED
    BY <1>6, <1>8 DEF low

(* TlsOffsets is the recursion anchored at the segments of the TLS block.  *)
LEMMA TlsOffsetsSolve ==
  ASSUME Len(segments) \in Nat, Anchors(TlsSegments, Len(segments))
  PROVE  Solves(TlsOffsets, segments, MetadataEnd(Len(segments) + 1), TlsSegments, Len(segments))
  <1> DEFINE low == MetadataEnd(Len(segments) + 1)
             first == Min(TlsSegments)
             body(g, k) ==
               IF k \in TlsSegments \ {first}
               THEN g[first] + segments[k].base - segments[first].base
               ELSE Congruent(IF k = 1 THEN low ELSE g[k - 1] + segments[k - 1].filesz,
                              segments[k].base)
  <1>1. TlsOffsets = CHOOSE g : g = [k \in 1 .. Len(segments) |-> body(g, k)]
    BY DEF TlsOffsets
  <1>2. \A g, k : Offset(g, segments, low, TlsSegments, k) = body(g, k)
    BY DEF Offset
  <1> HIDE DEF low, body
  <1>4. PICK h : Solves(h, segments, low, TlsSegments, Len(segments))
    BY OffsetsExist
  <1>5. h = [k \in 1 .. Len(segments) |-> body(h, k)]
    BY <1>2, <1>4 DEF Solves
  <1>6. PICK f : f = TlsOffsets
    OBVIOUS
  <1>7. f = [k \in 1 .. Len(segments) |-> body(f, k)]
    BY <1>1, <1>5, <1>6
  <1>8. Solves(f, segments, low, TlsSegments, Len(segments))
    BY <1>2, <1>7 DEF Solves
  <1> QED
    BY <1>6, <1>8 DEF low

-----------------------------------------------------------------------------
(* The file.                                                               *)

(* The file holds the sections' bytes where their segments move them, and  *)
(* zeros from where memory-only space is moved to as far as the next       *)
(* segment's file image.                                                   *)
BeforeNext(segs, k, o) == k < Len(segs) => o < segs[k + 1].offset
Filed(segs, f) ==
    /\ \E m \in Nat : /\ DOMAIN f = 0 .. m - 1
                      /\ \A k \in DOMAIN segs : segs[k].offset + segs[k].filesz <= m
    /\ \A i \in Present : \A k \in DOMAIN segs : Home(segs, i, k) =>
         \A a \in Bytes(i) :
           /\ ~sections[i].nobits => f[Shift(segs[k]) + a] = <<i, a - addr[i]>>
           /\ (/\ sections[i].nobits
               /\ Shift(segs[k]) + a \in DOMAIN f
               /\ BeforeNext(segs, k, Shift(segs[k]) + a)) =>
                 f[Shift(segs[k]) + a] = Zero

(* A byte of a section's file data, and a byte of memory-only space.       *)
LEMMA ImageByteIs ==
  ASSUME PlaceInv, DOMAIN addr = DOMAIN sections, NEW i \in Present, ~sections[i].nobits,
         NEW a \in Bytes(i)
  PROVE  ImageByte(a) = <<i, a - addr[i]>>
  <1> DEFINE owners == {j \in DOMAIN sections : ~sections[j].nobits /\ a \in addr[j] .. End(j) - 1}
  <1>1. i \in owners /\ a \in Int
    BY PresentAscend DEF Bytes
  <1>2. ASSUME NEW j \in owners PROVE j = i
    <2>1. /\ sections[j].size \in Nat /\ addr[j] \in Nat /\ a \in addr[j] .. End(j) - 1
          /\ j \in DOMAIN sections
      BY SectionTypes DEF PlaceInv
    <2>2. sections[j].size # 0
      BY <2>1 DEF End
    <2>3. j \in Present
      BY <2>1, <2>2 DEF Present
    <2>4. End(i) \in Nat /\ End(j) \in Nat /\ addr[i] \in Nat
      BY <2>3, PresentAscend
    <2>5. ~Precedes(i, j) /\ ~Precedes(j, i)
      <3>1. a < End(i) /\ addr[i] <= a /\ a < End(j) /\ addr[j] <= a
        BY <1>1, <2>1, <2>4 DEF Bytes
      <3>2. ~(End(i) <= addr[j]) /\ ~(End(j) <= addr[i])
        BY <1>1, <2>1, <2>4, <3>1
      <3> QED
        BY <2>3, <3>2, PresentAscend
    <2> QED
      BY <2>3, <2>5, PresentAscend
  <1>3. owners # {} /\ (CHOOSE j \in owners : TRUE) = i
    <2> HIDE DEF owners
    <2> QED
      BY <1>1, <1>2
  <1>4. ImageByte(a) = IF owners = {} THEN Zero
                       ELSE LET j == CHOOSE k \in owners : TRUE IN <<j, a - addr[j]>>
    BY DEF ImageByte
  <1> HIDE DEF owners
  <1> QED
    BY <1>3, <1>4

(* The file that is written for segments that are laid out.                *)
LEMMA WrittenIs ==
  ASSUME PlaceInv, DOMAIN addr = DOMAIN sections, NEW segs, Shaped(segs, FALSE),
         NEW count \in Nat, Laid(segs, MetadataEnd(count)), NEW size \in Nat,
         \A k \in DOMAIN segs : segs[k].offset + segs[k].filesz <= size
  PROVE  Filed(segs, Written(segs, count, size))
  <1>1. segs \in Seq(LoadSegment)
    BY DEF Shaped
  <1>2. PICK n \in Nat : n = Len(segs) /\ DOMAIN segs = 1 .. n
    BY <1>1, SegmentTypes
  <1>3. ASSUME NEW k \in 1 .. n
        PROVE  /\ segs[k].base \in Nat /\ segs[k].offset \in Nat /\ segs[k].filesz \in Nat
               /\ Shift(segs[k]) \in Int /\ FileEndOf(segs[k]) \in Nat
    BY <1>1, <1>2, SegmentTypes
  <1>4. PICK low \in Nat : low = MetadataEnd(count)
    BY LayoutAssumption DEF MetadataEnd
  <1>5. PICK f : f = Written(segs, count, size)
    OBVIOUS
  <1> DEFINE image(s, o) == ImageByte(s.base + o - s.offset)
             held(o) == {s \in Range(segs) : o \in s.offset .. s.offset + s.filesz - 1}
             byte(o) == IF o < low THEN HeaderByte
                        ELSE IF held(o) = {} THEN Zero
                        ELSE image(CHOOSE t \in held(o) : TRUE, o)
  <1>6. f = [o \in 0 .. size - 1 |-> byte(o)]
    BY <1>4, <1>5 DEF Written
  <1>7. ASSUME NEW o, NEW s \in held(o)
        PROVE  \E k \in 1 .. n : s = segs[k] /\ o \in segs[k].offset .. segs[k].offset + segs[k].filesz - 1
    BY <1>2 DEF Range
  <1>8. ASSUME NEW o, NEW k \in 1 .. n,
               o \in segs[k].offset .. segs[k].offset + segs[k].filesz - 1
        PROVE  segs[k] \in held(o)
    BY <1>2, <1>8 DEF Range
  <1>9. ASSUME NEW j \in 1 .. n, NEW k \in 1 .. n, j < k
        PROVE  segs[j].offset + segs[j].filesz <= segs[k].offset
    BY <1>2, <1>9 DEF Laid
  <1> HIDE DEF held
  <1>10. \A k \in 1 .. n : low <= segs[k].offset /\ segs[k].offset + segs[k].filesz <= size
    BY <1>2, <1>4 DEF Laid
  <1>11. ASSUME NEW i \in Present, NEW k \in 1 .. n, Home(segs, i, k), NEW a \in Bytes(i)
         PROVE  /\ ~sections[i].nobits => f[Shift(segs[k]) + a] = <<i, a - addr[i]>>
                /\ (/\ sections[i].nobits
                    /\ Shift(segs[k]) + a \in DOMAIN f
                    /\ BeforeNext(segs, k, Shift(segs[k]) + a)) =>
                      f[Shift(segs[k]) + a] = Zero
    <2>1. /\ addr[i] \in Nat /\ End(i) \in Nat /\ a \in Nat /\ addr[i] <= a /\ a < End(i)
      BY PresentAscend DEF Bytes
    <2>2. PICK b \in Nat, u \in Nat, z \in Nat :
             /\ b = segs[k].base /\ u = segs[k].offset /\ z = segs[k].filesz
      BY <1>3
    <2>3. b <= addr[i] /\ b <= a
      BY <1>11, <2>1, <2>2 DEF Home
    <2>4. PICK o \in Int : o = Shift(segs[k]) + a /\ o = u - b + a
      BY <2>1, <2>2 DEF Shift
    <2>5. o >= u /\ u >= low
      BY <1>10, <2>1, <2>2, <2>3, <2>4
    <2>6. CASE ~sections[i].nobits
      <3>1. End(i) <= b + z
        BY <1>2, <1>11, <2>2, <2>6 DEF Shaped, FileEndOf
      <3>2. o <= u + z - 1
        BY <2>1, <2>4, <3>1
      <3>3. u + z <= size
        BY <1>10, <2>2
      <3>4. o \in 0 .. size - 1 /\ o \in u .. u + z - 1
        BY <2>5, <3>2, <3>3
      <3>5. segs[k] \in held(o)
        BY <1>8, <2>2, <3>4
      <3>6. ASSUME NEW s \in held(o) PROVE s = segs[k]
        <4>1. PICK j \in 1 .. n : /\ s = segs[j]
                                  /\ o \in segs[j].offset .. segs[j].offset + segs[j].filesz - 1
          BY <1>7
        <4>2. ~(j < k) /\ ~(k < j)
          BY <1>3, <1>9, <2>2, <3>4, <4>1
        <4> QED
          BY <4>1, <4>2
      <3>7. (CHOOSE s \in held(o) : TRUE) = segs[k] /\ held(o) # {}
        BY <3>5, <3>6
      <3>8. byte(o) = image(segs[k], o)
        <4>1. ~(o < low)
          BY <2>5
        <4> HIDE DEF image
        <4> QED
          BY <3>7, <4>1
      <3>9. segs[k].base + o - segs[k].offset = a
        BY <2>1, <2>2, <2>4
      <3>10. ImageByte(a) = <<i, a - addr[i]>>
        BY <2>6, ImageByteIs
      <3>11. f[o] = <<i, a - addr[i]>>
        BY <1>6, <3>4, <3>8, <3>9, <3>10
      <3>12. f[Shift(segs[k]) + a] = <<i, a - addr[i]>>
        BY <2>4, <3>11
      <3> QED
        BY <2>6, <3>12
    <2>7. CASE sections[i].nobits
      <3> SUFFICES ASSUME k < n => o < segs[k + 1].offset, o \in DOMAIN f
                   PROVE  f[o] = Zero
        BY <1>2, <2>4, <2>7 DEF BeforeNext
      <3>1. b + z <= a
        <4>1. FileEndOf(segs[k]) <= addr[i]
          BY <1>2, <1>11, <2>7 DEF Shaped
        <4> QED
          BY <2>1, <2>2, <4>1 DEF FileEndOf
      <3>2. o >= u + z
        BY <2>1, <2>4, <3>1
      <3>3. ASSUME NEW j \in 1 .. n,
                   o \in segs[j].offset .. segs[j].offset + segs[j].filesz - 1
            PROVE  FALSE
        <4>1. ~(j < k)
          BY <1>3, <1>9, <2>2, <2>5, <3>3
        <4>2. j # k
          BY <2>2, <3>2, <3>3
        <4>3. k < n /\ k + 1 \in 1 .. n /\ k + 1 <= j
          BY <4>1, <4>2
        <4>4. segs[k + 1].offset <= segs[j].offset
          <5>1. k + 1 = j \/ segs[k + 1].offset + segs[k + 1].filesz <= segs[j].offset
            BY <1>9, <4>3
          <5> QED
            BY <1>3, <4>3, <5>1
        <4> QED
          BY <1>3, <3>3, <4>3, <4>4
      <3>4. held(o) = {}
        BY <1>7, <3>3
      <3>5. byte(o) = Zero
        BY <2>5, <3>4
      <3> QED
        BY <1>6, <3>5
    <2> QED
      BY <2>6, <2>7
  <1>12. DOMAIN f = 0 .. size - 1
    BY <1>6
  <1> QED
    BY <1>2, <1>5, <1>10, <1>11, <1>12 DEF Filed

(* The file ends behind every file image.                                  *)
LEMMA FileEndIs ==
  ASSUME NEW segs \in Seq(LoadSegment), NEW first \in Nat, Laid(segs, first), NEW low \in Nat
  PROVE  /\ FileEnd(segs, low) \in Nat /\ low <= FileEnd(segs, low)
         /\ \A k \in DOMAIN segs : segs[k].offset + segs[k].filesz <= FileEnd(segs, low)
  <1>1. PICK n \in Nat : n = Len(segs) /\ DOMAIN segs = 1 .. n
    BY SegmentTypes
  <1> DEFINE end(s) == s.offset + s.filesz
             ends == {end(s) : s \in Range(segs)} \cup {low}
  <1>2. \A k \in 1 .. n : segs[k].offset \in Nat /\ segs[k].filesz \in Nat
    BY <1>1, SegmentTypes
  <1>3. PICK m \in Nat : low <= m /\ \A k \in 1 .. n : end(segs[k]) <= m
    <2>1. CASE n = 0
      BY <2>1
    <2>2. CASE n # 0
      <3>1. n \in 1 .. n
        BY <2>2
      <3>2. PICK e \in Nat : e = end(segs[n])
        BY <1>2, <3>1
      <3>3. ASSUME NEW k \in 1 .. n PROVE end(segs[k]) <= e
        <4>1. k = n \/ end(segs[k]) <= segs[n].offset
          BY <1>1, <3>1 DEF Laid
        <4>2. PICK o \in Nat, z \in Nat : o = segs[n].offset /\ z = segs[n].filesz
          BY <1>2, <3>1
        <4>3. e = o + z
          BY <3>2, <4>2
        <4>4. o <= e
          BY <4>3
        <4>5. PICK t \in Nat : t = end(segs[k])
          BY <1>2
        <4> HIDE DEF end
        <4>6. t = e \/ t <= o
          BY <3>2, <4>1, <4>2, <4>5
        <4>7. t <= e
          BY <4>4, <4>6
        <4> QED
          BY <4>5, <4>7
      <3>4. ASSUME NEW k \in 1 .. n PROVE end(segs[k]) <= e + low
        <4>1. end(segs[k]) \in Nat
          BY <1>2
        <4> HIDE DEF end
        <4> QED
          BY <3>3, <4>1
      <3> QED
        BY <3>2, <3>4, low <= e + low, e + low \in Nat
    <2> QED
      BY <2>1, <2>2
  <1>4. ends \in SUBSET (0 .. m) /\ low \in ends
    <2>1. \A k \in 1 .. n : end(segs[k]) \in 0 .. m
      BY <1>2, <1>3
    <2> HIDE DEF end
    <2> QED
      BY <1>1, <1>3, <2>1 DEF Range
  <1>5. \A k \in 1 .. n : end(segs[k]) \in ends
    <2> HIDE DEF end
    <2> QED
      BY <1>1 DEF Range
  <1>6. FileEnd(segs, low) = Max(ends)
    BY DEF FileEnd
  <1> HIDE DEF ends
  <1>7. PICK x \in 0 .. m : x = Max(ends) /\ \A y \in ends : y <= x
    BY <1>4, MaxIs
  <1>8. x \in Nat /\ low <= x
    BY <1>4, <1>7
  <1>9. ASSUME NEW k \in 1 .. n PROVE segs[k].offset + segs[k].filesz <= x
    BY <1>5, <1>7
  <1> QED
    BY <1>1, <1>6, <1>7, <1>8, <1>9

-----------------------------------------------------------------------------
(* The TLS block.                                                          *)

(* The block holds the SHF_TLS sections, its initial image those of them   *)
(* that have file data, and it has their greatest alignment.               *)
BlockIs(t) ==
    /\ t.base \in Nat /\ t.filesz \in Nat /\ t.memsz \in Nat /\ t.size \in Nat
    /\ t.align \in Nat \ {0} /\ IsPowerOfTwo(t.align)
    /\ t.size = AlignUp(t.memsz, t.align)
    /\ \A i \in TlsIds :
         /\ t.base <= addr[i] /\ End(i) <= t.base + t.memsz
         /\ ~sections[i].nobits => End(i) <= t.base + t.filesz
         /\ sections[i].align <= t.align

(* One is a power of two.                                                  *)
LEMMA OneIsPower == IsPowerOfTwo(1)
  BY DEF IsPowerOfTwo

(* The measured block is one.                                              *)
LEMMA BlockHolds ==
  ASSUME PlaceInv, DOMAIN addr = DOMAIN sections, TlsIds # {}
  PROVE  BlockIs(Block)
  <1> DEFINE starts == {addr[i] : i \in TlsIds}
             filled == {i \in TlsIds : ~sections[i].nobits}
             base == Min(starts)
             ends == {End(i) : i \in TlsIds}
             fileEnds == {End(i) : i \in filled} \cup {base}
             aligns == {sections[i].align : i \in TlsIds} \cup {1}
  <1>1. ASSUME NEW i \in TlsIds
        PROVE  /\ i \in DOMAIN sections /\ addr[i] \in Nat /\ sections[i].size \in Nat
               /\ End(i) \in Nat /\ addr[i] <= End(i) /\ End(i) <= cursor
               /\ sections[i].align \in Nat
               /\ sections[i].align # 0 => IsPowerOfTwo(sections[i].align)
    <2>1. i \in DOMAIN sections
      BY DEF TlsIds
    <2>2. sections[i].size \in Nat /\ sections[i].align \in Nat
      BY <2>1, SectionTypes DEF PlaceInv
    <2>3. /\ addr[i] \in Nat /\ End(i) <= cursor
          /\ sections[i].align # 0 => PowerOfTwo(sections[i].align)
      BY <2>1 DEF PlaceInv
    <2>4. sections[i].align # 0 => IsPowerOfTwo(sections[i].align)
      BY <2>3 DEF IsPowerOfTwo, PowerOfTwo
    <2>5. End(i) = addr[i] + sections[i].size
      BY DEF End
    <2> QED
      BY <2>1, <2>2, <2>3, <2>4, <2>5
  <1>2. cursor \in Nat
    BY DEF PlaceInv
  <1>3. PICK b \in Nat : b = base /\ b \in starts /\ \A x \in starts : b <= x
    <2>1. starts \in SUBSET Nat /\ starts # {}
      BY <1>1
    <2> HIDE DEF starts
    <2> QED
      BY <2>1, MinIs
  <1>4. \A i \in TlsIds : b <= addr[i]
    BY <1>3
  <1>5. b <= cursor
    BY <1>1, <1>2, <1>3
  <1>6. PICK e \in Nat : e = Max(ends) /\ \A x \in ends : x <= e
    <2>1. ends \in SUBSET (0 .. cursor) /\ ends # {}
      BY <1>1, <1>2
    <2> HIDE DEF ends
    <2>2. PICK e \in 0 .. cursor : e = Max(ends) /\ \A x \in ends : x <= Max(ends)
      BY <1>2, <2>1, MaxIs
    <2>3. e \in Nat
      BY <1>2
    <2> QED
      BY <2>2, <2>3
  <1>7. \A i \in TlsIds : End(i) <= e
    BY <1>6
  <1>8. PICK f \in Nat : f = Max(fileEnds) /\ \A x \in fileEnds : x <= f
    <2>1. fileEnds \in SUBSET (0 .. cursor) /\ fileEnds # {}
      <3>1. \A i \in filled : End(i) \in 0 .. cursor
        BY <1>1, <1>2
      <3>2. b \in 0 .. cursor /\ b = base
        BY <1>2, <1>3, <1>5
      <3> HIDE DEF base, filled
      <3> QED
        BY <3>1, <3>2
    <2> HIDE DEF fileEnds
    <2>2. PICK f \in 0 .. cursor : f = Max(fileEnds) /\ \A x \in fileEnds : x <= Max(fileEnds)
      BY <1>2, <2>1, MaxIs
    <2>3. f \in Nat
      BY <1>2
    <2> QED
      BY <2>2, <2>3
  <1>9. b <= f /\ \A i \in filled : End(i) <= f
    BY <1>3, <1>8
  <1>10. b <= e
    BY <1>1, <1>4, <1>7
  <1>11. PICK a \in Nat : a = Max(aligns) /\ a \in aligns /\ \A x \in aligns : x <= a
    <2>1. aligns \in SUBSET Nat /\ 1 \in aligns /\ IsFiniteSet(aligns)
      <3>1. IsFiniteSet(TlsIds)
        <4>1. TlsIds \in SUBSET DOMAIN sections /\ sections \in SectionLists
          BY DEF TlsIds, PlaceInv
        <4>2. PICK n \in Nat : DOMAIN sections = 1 .. n
          BY <4>1, SectionTypes
        <4> QED
          BY <4>1, <4>2, FS_Interval, FS_Subset
      <3> DEFINE own == {sections[i].align : i \in TlsIds}
                 of == [i \in TlsIds |-> sections[i].align]
      <3>2. IsFiniteSet(own)
        <4>1. of \in Surjection(TlsIds, own)
          BY DEF Surjection
        <4> HIDE DEF of, own
        <4> QED
          BY <3>1, <4>1, FS_Surjection
      <3> QED
        BY <1>1, <3>2, FS_AddElement
    <2> HIDE DEF aligns
    <2>2. PICK m \in Nat : \A x \in aligns : x <= m
      BY <2>1, FiniteIsBounded
    <2>3. aligns \in SUBSET (0 .. m) /\ aligns # {}
      BY <2>1, <2>2
    <2>4. Max(aligns) \in aligns /\ \A x \in aligns : x <= Max(aligns)
      BY <2>3, MaxIs
    <2> QED
      BY <2>1, <2>4
  <1>12. \A i \in TlsIds : sections[i].align <= a
    BY <1>11
  <1>13. a # 0 /\ IsPowerOfTwo(a)
    <2>1. 1 <= a
      BY <1>11
    <2> QED
      BY <1>1, <1>11, <2>1, OneIsPower
  <1>14. /\ Block.base = b /\ Block.filesz = f - b /\ Block.memsz = e - b
         /\ Block.size = AlignUp(e - b, a) /\ Block.align = a
    BY <1>3, <1>6, <1>8, <1>11 DEF Block
  <1> HIDE DEF base, ends, fileEnds, aligns, starts
  <1>15. PICK z \in Nat, m \in Nat : z = f - b /\ m = e - b
    BY <1>9, <1>10
  <1>16. AlignUp(m, a) \in Nat
    BY AlignedUp
  <1>17. ASSUME NEW i \in TlsIds
         PROVE  /\ b <= addr[i] /\ End(i) <= b + m
                /\ ~sections[i].nobits => End(i) <= b + z
                /\ sections[i].align <= a
    BY <1>1, <1>4, <1>7, <1>9, <1>12, <1>15
  <1> QED
    BY <1>13, <1>14, <1>15, <1>16, <1>17 DEF BlockIs

-----------------------------------------------------------------------------
(* Writing the file, and laying it out again around the block.             *)

LEMMA MetadataEndIs ==
  ASSUME NEW count \in Nat
  PROVE  MetadataEnd(count) \in Nat
  BY LayoutAssumption DEF MetadataEnd

(* WriteSegments lays the segments out and writes the file.                *)
LEMMA WriteIs ==
  ASSUME PlaceInv, DOMAIN addr = DOMAIN sections, NEW segs, Shaped(segs, FALSE),
         NEW out, out = WithOffsets(segs, PlainOffsets(segs))
  PROVE  /\ Shaped(out, FALSE) /\ Laid(out, MetadataEnd(Len(segs))) /\ Len(out) = Len(segs)
         /\ Filed(out, Written(out, Len(segs), FileEnd(out, MetadataEnd(Len(segs)))))
  <1>1. segs \in Seq(LoadSegment)
    BY DEF Shaped
  <1>2. Len(segs) \in Nat
    BY <1>1
  <1>3. PICK g : g = PlainOffsets(segs)
    OBVIOUS
  <1>4. PICK low \in Nat : low = MetadataEnd(Len(segs))
    BY <1>2, MetadataEndIs
  <1>5. Solves(g, segs, low, {}, Len(segs))
    BY <1>2, <1>3, <1>4, PlainOffsetsSolve
  <1>6. Anchors({}, Len(segs)) /\ \A k \in {} \ {Min({})} : g[k - 1] + segs[k - 1].filesz <= g[k]
    BY DEF Anchors
  <1>7. (\A k \in DOMAIN segs : g[k] \in Nat) /\ Laid(WithOffsets(segs, g), low)
    BY <1>5, <1>6, SolutionIsLaid
  <1>8. Shaped(out, FALSE) /\ Laid(out, low)
    BY <1>3, <1>7, ShapedWithOffsets
  <1>9. out \in Seq(LoadSegment)
    BY <1>8 DEF Shaped
  <1>10. Len(out) = Len(segs)
    BY <1>1, <1>3, <1>7, OffsetsGiven
  <1>11. /\ FileEnd(out, low) \in Nat
         /\ \A k \in DOMAIN out : out[k].offset + out[k].filesz <= FileEnd(out, low)
    BY <1>8, <1>9, FileEndIs
  <1>12. Filed(out, Written(out, Len(segs), FileEnd(out, low)))
    BY <1>2, <1>4, <1>8, <1>11, WrittenIs
  <1> QED
    BY <1>4, <1>8, <1>10, <1>12

(* The segments that hold thread-locals, and the one behind any of them,   *)
(* are moved by as much as the block.                                      *)
Anchored(segs, shift) ==
    \A i \in TlsIds \cap Present : \A k \in DOMAIN segs : Home(segs, i, k) =>
      /\ Shift(segs[k]) = shift
      /\ k < Len(segs) => Shift(segs[k + 1]) = shift

(* The segments that hold the block are consecutive.                       *)
LEMMA TlsAnchors ==
  ASSUME Shaped(segments, FALSE), BlockIs(tls), TlsSegments # {}
  PROVE  /\ Anchors(TlsSegments, Len(segments))
         /\ Min(TlsSegments) \in TlsSegments /\ \A k \in TlsSegments : Min(TlsSegments) <= k
  <1>1. segments \in Seq(LoadSegment)
    BY DEF Shaped
  <1>2. PICK n \in Nat : n = Len(segments) /\ DOMAIN segments = 1 .. n
    BY <1>1, SegmentTypes
  <1>3. PICK b \in Nat, m \in Nat : b = tls.base /\ m = tls.memsz
    BY DEF BlockIs
  <1>4. ASSUME NEW k \in 1 .. n
        PROVE  /\ segments[k].base \in Nat /\ segments[k].memsz \in Nat
               /\ k \in TlsSegments <=> /\ segments[k].base + segments[k].memsz > b
                                        /\ segments[k].base < b + m
    <2>1. segments[k].base \in Nat /\ segments[k].memsz \in Nat
      BY <1>1, <1>2, SegmentTypes
    <2> QED
      BY <1>2, <1>3, <2>1 DEF TlsSegments, HoldsTls
  <1>5. TlsSegments \in SUBSET (1 .. n)
    BY <1>2 DEF TlsSegments
  <1>6. PICK j \in TlsSegments : j = Min(TlsSegments) /\ \A k \in TlsSegments : j <= k
    <2>1. TlsSegments \in SUBSET Nat
      BY <1>5
    <2> QED
      BY <2>1, MinIs
  <1>7. \A x, y \in 1 .. n : x < y => segments[x].base + segments[x].memsz <= segments[y].base
    BY <1>2 DEF Shaped, EndOf
  <1>8. ASSUME NEW k \in TlsSegments, k # j PROVE j < k /\ k - 1 \in TlsSegments
    <2>1. j \in 1 .. n /\ k \in 1 .. n /\ j < k
      BY <1>5, <1>6, <1>8
    <2>2. k - 1 \in 1 .. n /\ j <= k - 1
      BY <2>1
    <2>3. segments[k - 1].base + segments[k - 1].memsz <= segments[k].base
      BY <1>7, <2>1, <2>2
    <2>4. segments[k - 1].base + segments[k - 1].memsz > b
      <3>1. CASE k - 1 = j
        BY <1>4, <2>2, <3>1
      <3>2. CASE k - 1 # j
        <4>1. segments[j].base + segments[j].memsz <= segments[k - 1].base
          BY <1>7, <2>1, <2>2, <3>2
        <4>2. segments[j].base + segments[j].memsz > b
          BY <1>4, <2>1
        <4> QED
          BY <1>4, <2>1, <2>2, <4>1, <4>2
      <3> QED
        BY <3>1, <3>2
    <2>5. segments[k].base < b + m
      BY <1>4, <2>1
    <2>6. segments[k - 1].base < b + m
      BY <1>4, <2>1, <2>2, <2>3, <2>5
    <2> QED
      BY <1>4, <2>1, <2>2, <2>4, <2>6
  <1>9. Anchors(TlsSegments, Len(segments))
    BY <1>2, <1>5, <1>6, <1>8 DEF Anchors
  <1> QED
    BY <1>6, <1>9

(* InjectTls lays them out again, anchored at the TLS block.               *)
LEMMA InjectIs ==
  ASSUME PlaceInv, DOMAIN addr = DOMAIN sections, Shaped(segments, FALSE), BlockIs(tls),
         TlsCovered, TlsFits,
         NEW out, out = WithOffsets(segments, TlsOffsets),
         NEW at, at = out[Min(TlsSegments)].offset + tls.base - out[Min(TlsSegments)].base
  PROVE  /\ Shaped(out, FALSE) /\ Laid(out, MetadataEnd(Len(segments) + 1))
         /\ Len(out) = Len(segments) /\ at \in Nat
         /\ Filed(out, Written(out, Len(segments) + 1, FileEnd(out, at + tls.filesz)))
         /\ Anchored(out, at - tls.base)
  <1>1. segments \in Seq(LoadSegment)
    BY DEF Shaped
  <1>2. PICK n \in Nat : n = Len(segments) /\ DOMAIN segments = 1 .. n
    BY <1>1, SegmentTypes
  <1>3. PICK g : g = TlsOffsets
    OBVIOUS
  <1>4. PICK low \in Nat : low = MetadataEnd(n + 1)
    BY MetadataEndIs
  <1>5. PICK j \in TlsSegments : /\ j = Min(TlsSegments) /\ \A k \in TlsSegments : j <= k
                                 /\ Anchors(TlsSegments, Len(segments))
    BY TlsAnchors DEF TlsCovered
  <1>6. j \in 1 .. n /\ TlsSegments \subseteq 1 .. n
    BY <1>2 DEF TlsSegments
  <1>7. Solves(g, segments, low, TlsSegments, Len(segments))
    BY <1>2, <1>3, <1>4, <1>5, TlsOffsetsSolve
  <1>8. \A k \in TlsSegments \ {Min(TlsSegments)} : g[k - 1] + segments[k - 1].filesz <= g[k]
    <2> SUFFICES ASSUME NEW k \in TlsSegments, k # j
                 PROVE  g[k - 1] + segments[k - 1].filesz <= g[k]
      BY <1>5
    <2>1. k \in 2 .. n
      BY <1>5, <1>6
    <2> QED
      BY <1>2, <1>3, <2>1 DEF TlsFits
  <1>9. /\ \A k \in DOMAIN segments : g[k] \in Nat
        /\ Laid(WithOffsets(segments, g), low)
        /\ \A k \in TlsSegments : g[k] - segments[k].base = g[j] - segments[j].base
    BY <1>4, <1>5, <1>7, <1>8, SolutionIsLaid
  <1>10. Shaped(out, FALSE) /\ Laid(out, low)
    BY <1>3, <1>9, ShapedWithOffsets
  <1>11. /\ out \in Seq(LoadSegment) /\ DOMAIN out = 1 .. n /\ Len(out) = n
         /\ \A k \in 1 .. n : /\ out[k].base = segments[k].base /\ out[k].memsz = segments[k].memsz
                              /\ EndOf(out[k]) = EndOf(segments[k])
                              /\ out[k].offset = g[k] /\ Shift(out[k]) = g[k] - segments[k].base
    BY <1>1, <1>2, <1>3, <1>9, OffsetsGiven
  <1>12. PICK b \in Nat, m \in Nat, z \in Nat : b = tls.base /\ m = tls.memsz /\ z = tls.filesz
    BY DEF BlockIs
  <1>13. ASSUME NEW k \in 1 .. n
         PROVE  /\ segments[k].base \in Nat /\ segments[k].memsz \in Nat
                /\ k \in TlsSegments <=> /\ segments[k].base + segments[k].memsz > b
                                         /\ segments[k].base < b + m
    <2>1. segments[k].base \in Nat /\ segments[k].memsz \in Nat
      BY <1>1, <1>2, SegmentTypes
    <2> QED
      BY <1>2, <1>12, <2>1 DEF TlsSegments, HoldsTls
  <1>14. \A x, y \in 1 .. n : x < y => segments[x].base + segments[x].memsz <= segments[y].base
    BY <1>2 DEF Shaped, EndOf
  <1>15. segments[j].base <= b
    <2>1. CASE m = 0
      BY <1>6, <1>13, <2>1
    <2>2. CASE m # 0
      <3>1. b \in b .. b + m - 1
        BY <2>2
      <3>2. PICK k \in TlsSegments :
                b \in segments[k].base .. segments[k].base + segments[k].memsz - 1
        BY <1>12, <3>1 DEF TlsCovered
      <3>3. k \in 1 .. n /\ segments[k].base \in Nat /\ segments[k].base <= b
        BY <1>6, <1>13, <3>2
      <3>4. k = j \/ segments[j].base + segments[j].memsz <= segments[k].base
        BY <1>5, <1>6, <1>14, <3>3
      <3> QED
        BY <1>6, <1>13, <3>3, <3>4
    <2> QED
      BY <2>1, <2>2
  <1>16. at \in Nat /\ at - tls.base = g[j] - segments[j].base
    <2>1. PICK u \in Nat, v \in Nat : u = g[j] /\ v = segments[j].base
      BY <1>2, <1>6, <1>9, <1>13
    <2>2. at = u + b - v
      BY <1>5, <1>6, <1>11, <1>12, <2>1
    <2>3. v <= b
      BY <1>15, <2>1
    <2> QED
      BY <1>12, <2>1, <2>2, <2>3
  <1>17. /\ FileEnd(out, at + tls.filesz) \in Nat
         /\ \A k \in DOMAIN out : out[k].offset + out[k].filesz <= FileEnd(out, at + tls.filesz)
    <2>1. at + tls.filesz \in Nat
      BY <1>12, <1>16
    <2> QED
      BY <1>10, <1>11, <2>1, FileEndIs
  <1>18. Filed(out, Written(out, Len(segments) + 1, FileEnd(out, at + tls.filesz)))
    <2>1. Len(segments) + 1 \in Nat /\ Laid(out, MetadataEnd(Len(segments) + 1))
      BY <1>2, <1>4, <1>10
    <2> QED
      BY <1>10, <1>17, <2>1, WrittenIs
  <1>19. ASSUME NEW k \in 1 .. n, NEW i \in TlsIds \cap Present,
                segments[k].base <= addr[i], addr[i] < segments[k].base + segments[k].memsz
         PROVE  Shift(out[k]) = g[j] - segments[j].base
    <2>1. /\ b <= addr[i] /\ End(i) <= b + m
      BY <1>12 DEF BlockIs
    <2>2. addr[i] \in Nat /\ End(i) \in Nat /\ addr[i] < End(i)
      BY PresentAscend
    <2>3. k \in TlsSegments
      BY <1>13, <1>19, <2>1, <2>2
    <2> QED
      BY <1>9, <1>11, <2>3
  <1>20. ASSUME NEW k \in 1 .. n, NEW i \in TlsIds \cap Present, Home(out, i, k)
         PROVE  /\ Shift(out[k]) = g[j] - segments[j].base
                /\ k < n => Shift(out[k + 1]) = g[j] - segments[j].base
    <2>1. out[k].base <= addr[i] /\ End(i) <= EndOf(out[k])
      BY <1>10, <1>11, <1>20 DEF Shaped, Home
    <2>2. addr[i] \in Nat /\ End(i) \in Nat /\ addr[i] < End(i)
      BY PresentAscend
    <2>3. segments[k].base <= addr[i] /\ addr[i] < segments[k].base + segments[k].memsz
      BY <1>11, <1>13, <2>1, <2>2 DEF EndOf
    <2>4. Shift(out[k]) = g[j] - segments[j].base
      BY <1>19, <2>3
    <2>5. ASSUME k < n PROVE Shift(out[k + 1]) = g[j] - segments[j].base
      <3>1. k + 1 \in 1 .. n
        BY <2>5
      <3>2. PICK l \in Present : Home(out, l, k + 1) /\ addr[l] = out[k + 1].base
        BY <1>10, <1>11, <3>1 DEF Shaped
      <3>3. addr[i] < addr[l]
        BY <1>11, <1>20, <2>5, <3>2 DEF Home
      <3>4. addr[l] \in Nat /\ End(l) \in Nat /\ addr[l] < End(l)
        BY PresentAscend
      <3>5. Sooner(i, l)
        <4>1. Precedes(i, l)
          BY <3>3 DEF Precedes
        <4> QED
          BY <4>1, PresentAscend
      <3>6. l \in TlsIds
        BY <3>5 DEF Sooner, TlsIds, Present
      <3>7. End(l) <= EndOf(out[k + 1])
        BY <1>10, <1>11, <3>1, <3>2 DEF Shaped
      <3>8. /\ segments[k + 1].base <= addr[l]
            /\ addr[l] < segments[k + 1].base + segments[k + 1].memsz
        <4>1. PICK u \in Nat, v \in Nat : /\ u = segments[k + 1].base /\ v = segments[k + 1].memsz
                                           /\ EndOf(out[k + 1]) = u + v /\ out[k + 1].base = u
          BY <1>11, <1>13, <3>1 DEF EndOf
        <4>2. addr[l] = u /\ End(l) <= u + v
          BY <3>2, <3>7, <4>1
        <4> QED
          BY <3>4, <4>1, <4>2
      <3> QED
        BY <1>19, <3>1, <3>6, <3>8
    <2> QED
      BY <2>4, <2>5
  <1>21. Anchored(out, at - tls.base)
    BY <1>11, <1>16, <1>20 DEF Anchored
  <1> QED
    BY <1>2, <1>4, <1>10, <1>11, <1>16, <1>18, <1>21

-----------------------------------------------------------------------------
(* The program-header table behind the last segment.                       *)

TableIs(segs, f, table) ==
    /\ Len(segs) # 0
    /\ table.offset \in Nat /\ table.address \in Nat /\ table.size \in Nat \ {0}
    /\ table.address % Word = 0
    /\ table.offset = Shift(segs[Len(segs)]) + table.address
    /\ segs[Len(segs)].base <= table.address
    /\ segs[Len(segs)].filesz = segs[Len(segs)].memsz
    /\ EndOf(segs[Len(segs)]) = table.address + table.size
    /\ \A i \in Present : End(i) <= table.address
    /\ \A k \in 0 .. table.size - 1 :
         table.offset + k \in DOMAIN f /\ f[table.offset + k] = TableByte(k)

(* The last segment takes the table in.                                    *)
Grown(segs, z) == [segs EXCEPT ![Len(segs)].filesz = z, ![Len(segs)].memsz = z]

(* Growing the last segment moves no section to another.                   *)
LEMMA GrownIs ==
  ASSUME NEW segs \in Seq(LoadSegment), Len(segs) # 0, NEW z \in Nat,
         NEW out, out = Grown(segs, z)
  PROVE  /\ out \in Seq(LoadSegment) /\ DOMAIN out = DOMAIN segs /\ Len(out) = Len(segs)
         /\ \A k \in DOMAIN segs :
              /\ out[k].perm = segs[k].perm /\ out[k].base = segs[k].base
              /\ out[k].offset = segs[k].offset /\ Shift(out[k]) = Shift(segs[k])
         /\ out[Len(segs)].filesz = z /\ out[Len(segs)].memsz = z
         /\ \A k \in DOMAIN segs : k # Len(segs) => out[k] = segs[k]
         /\ \A i, k : k \in DOMAIN segs => (Home(out, i, k) <=> Home(segs, i, k))
  <1>1. PICK n \in Nat : n = Len(segs) /\ DOMAIN segs = 1 .. n
    OBVIOUS
  <1>2. n \in 1 .. n
    BY <1>1
  <1> DEFINE mid == [segs EXCEPT ![n].filesz = z]
  <1>3. segs[n] \in LoadSegment
    BY <1>1, <1>2
  <1>4. /\ mid \in [1 .. n -> LoadSegment] /\ \A k \in 1 .. n : k # n => mid[k] = segs[k]
        /\ mid[n] = [segs[n] EXCEPT !.filesz = z]
    <2>1. [segs[n] EXCEPT !.filesz = z] \in LoadSegment
      BY <1>3 DEF LoadSegment
    <2>2. segs \in [1 .. n -> LoadSegment]
      BY <1>1
    <2> QED
      BY <1>2, <2>1, <2>2
  <1>5. out = [mid EXCEPT ![n].memsz = z]
    BY <1>1 DEF Grown
  <1>6. mid[n] \in LoadSegment /\ mid[n].filesz = z /\ mid[n].perm = segs[n].perm
        /\ mid[n].base = segs[n].base /\ mid[n].offset = segs[n].offset
    BY <1>3, <1>4 DEF LoadSegment
  <1> HIDE DEF mid
  <1>7. /\ out \in [1 .. n -> LoadSegment] /\ \A k \in 1 .. n : k # n => out[k] = mid[k]
        /\ out[n] = [mid[n] EXCEPT !.memsz = z]
    <2>1. [mid[n] EXCEPT !.memsz = z] \in LoadSegment
      BY <1>6 DEF LoadSegment
    <2> QED
      BY <1>2, <1>4, <1>5, <2>1
  <1>8. /\ out[n].filesz = z /\ out[n].memsz = z /\ out[n].perm = segs[n].perm
        /\ out[n].base = segs[n].base /\ out[n].offset = segs[n].offset
    BY <1>6, <1>7 DEF LoadSegment
  <1>9. ASSUME NEW k \in 1 .. n
        PROVE  /\ out[k].perm = segs[k].perm /\ out[k].base = segs[k].base
               /\ out[k].offset = segs[k].offset /\ Shift(out[k]) = Shift(segs[k])
               /\ k # n => out[k] = segs[k]
    BY <1>4, <1>7, <1>8 DEF Shift
  <1>10. out \in Seq(LoadSegment) /\ Len(out) = n /\ DOMAIN out = 1 .. n
    BY <1>7
  <1>11. ASSUME NEW i, NEW k \in 1 .. n PROVE Home(out, i, k) <=> Home(segs, i, k)
    <2>1. k < n => k + 1 \in 1 .. n
      OBVIOUS
    <2> QED
      BY <1>1, <1>9, <1>10, <2>1 DEF Home
  <1> QED
    BY <1>1, <1>8, <1>9, <1>10, <1>11

(* What AttachHeaders makes of the file, where it puts the table, and what *)
(* it knows of the offset.                                                 *)
Aligned(at) == at % Word = 0
Under(f, at) == \A o \in DOMAIN f : o < at
Extended(f, at, size) ==
  [o \in 0 .. at + size - 1 |->
     IF o >= at THEN TableByte(o - at) ELSE IF o \in DOMAIN f THEN f[o] ELSE Zero]
TableAt(t, at, size) == [offset |-> at, address |-> t, size |-> size]
Attaching(b, u, m, at, size, z, t) == u + m <= at /\ z = at - u + size /\ t = b + at - u
LastIs(segs, b, u, m) ==
  b = segs[Len(segs)].base /\ u = segs[Len(segs)].offset /\ m = segs[Len(segs)].memsz
Attached(segs, f, out, h, table) ==
  \E b, u, m, at, z, t \in Nat : \E size \in Nat \ {0} :
    /\ LastIs(segs, b, u, m) /\ Aligned(at) /\ Under(f, at)
    /\ Attaching(b, u, m, at, size, z, t)
    /\ out = Grown(segs, z) /\ h = Extended(f, at, size) /\ table = TableAt(t, at, size)
SameHomes(segs, out) ==
  /\ Len(out) = Len(segs) /\ DOMAIN out = DOMAIN segs
  /\ \A k \in DOMAIN segs : Shift(out[k]) = Shift(segs[k])
  /\ \A i, k : k \in DOMAIN segs => (Home(out, i, k) <=> Home(segs, i, k))

(* AttachHeaders keeps the layout and adds the table behind it.            *)
LEMMA AttachIs ==
  ASSUME PlaceInv, DOMAIN addr = DOMAIN sections, NEW segs, Shaped(segs, FALSE), Len(segs) # 0,
         NEW low \in Nat, Laid(segs, low), NEW f, Filed(segs, f),
         NEW out, NEW h, NEW table, Attached(segs, f, out, h, table)
  PROVE  /\ Shaped(out, TRUE) /\ Laid(out, low) /\ Filed(out, h) /\ TableIs(out, h, table)
         /\ SameHomes(segs, out)
  <1>21. PICK b \in Nat, u \in Nat, m \in Nat, at \in Nat, z \in Nat, t \in Nat,
              size \in Nat \ {0} :
            /\ LastIs(segs, b, u, m) /\ Aligned(at) /\ Under(f, at)
            /\ Attaching(b, u, m, at, size, z, t)
            /\ out = Grown(segs, z) /\ h = Extended(f, at, size) /\ table = TableAt(t, at, size)
    BY DEF Attached
  <1>0. u + m <= at /\ z = at - u + size /\ t = b + at - u
    BY <1>21 DEF Attaching
  <1>1. segs \in Seq(LoadSegment)
    BY DEF Shaped
  <1>2. PICK n \in Nat \ {0} : n = Len(segs) /\ DOMAIN segs = 1 .. n
    BY <1>1, SegmentTypes
  <1>3. n \in 1 .. n
    OBVIOUS
  <1>4. ASSUME NEW k \in 1 .. n
        PROVE  /\ segs[k].base \in Nat /\ segs[k].offset \in Nat /\ segs[k].filesz \in Nat
               /\ segs[k].memsz \in Nat /\ segs[k].filesz <= segs[k].memsz
               /\ EndOf(segs[k]) \in Nat /\ FileEndOf(segs[k]) \in Nat
               /\ Shift(segs[k]) \in Int
    BY <1>1, <1>2, SegmentTypes DEF Shaped
  <1>5.     /\ b = segs[n].base /\ u = segs[n].offset /\ m = segs[n].memsz
            /\ m > 0 /\ EndOf(segs[n]) = b + m
    BY <1>2, <1>3, <1>4, <1>21 DEF Shaped, EndOf, LastIs
  <1>6. m <= z /\ z # 0
    BY <1>0
  <1>7. /\ out \in Seq(LoadSegment) /\ DOMAIN out = 1 .. n /\ Len(out) = n
        /\ \A k \in 1 .. n :
              /\ out[k].perm = segs[k].perm /\ out[k].base = segs[k].base
              /\ out[k].offset = segs[k].offset /\ Shift(out[k]) = Shift(segs[k])
        /\ out[n].filesz = z /\ out[n].memsz = z
        /\ \A k \in 1 .. n : k # n => out[k] = segs[k]
        /\ \A i, k : k \in 1 .. n => (Home(out, i, k) <=> Home(segs, i, k))
    <2>1. /\ out \in Seq(LoadSegment) /\ DOMAIN out = DOMAIN segs /\ Len(out) = Len(segs)
          /\ \A k \in DOMAIN segs :
               /\ out[k].perm = segs[k].perm /\ out[k].base = segs[k].base
               /\ out[k].offset = segs[k].offset /\ Shift(out[k]) = Shift(segs[k])
          /\ out[Len(segs)].filesz = z /\ out[Len(segs)].memsz = z
          /\ \A k \in DOMAIN segs : k # Len(segs) => out[k] = segs[k]
          /\ \A i, k : k \in DOMAIN segs => (Home(out, i, k) <=> Home(segs, i, k))
      BY <1>1, <1>21, GrownIs
    <2> QED
      BY <1>2, <2>1, Zenon
  <1>8. EndOf(out[n]) = b + z /\ FileEndOf(out[n]) = b + z
    BY <1>3, <1>5, <1>7 DEF EndOf, FileEndOf
  <1>9. ASSUME NEW k \in 1 .. n
        PROVE  /\ EndOf(segs[k]) <= EndOf(out[k]) /\ FileEndOf(segs[k]) <= FileEndOf(out[k])
               /\ out[k].memsz > 0 /\ out[k].filesz <= out[k].memsz
    <2>1. CASE k = n
      <3>1. PICK q \in Nat : q = segs[n].filesz /\ q <= m /\ FileEndOf(segs[n]) = b + q
        BY <1>3, <1>4, <1>5 DEF FileEndOf
      <3>2. b + m <= b + z /\ b + q <= b + z /\ z > 0
        BY <1>6, <3>1
      <3>3. EndOf(segs[n]) = b + m /\ out[n].filesz = z /\ out[n].memsz = z
        BY <1>5, <1>7
      <3>4. EndOf(segs[n]) <= EndOf(out[n]) /\ FileEndOf(segs[n]) <= FileEndOf(out[n])
        BY <1>8, <3>1, <3>2, <3>3
      <3>5. out[n].memsz > 0 /\ out[n].filesz <= out[n].memsz
        BY <3>2, <3>3
      <3> QED
        BY <2>1, <3>4, <3>5, Zenon
    <2>2. CASE k # n
      <3>1. out[k] = segs[k] /\ segs[k].memsz > 0 /\ segs[k].filesz <= segs[k].memsz
        BY <1>2, <1>7, <2>2 DEF Shaped
      <3>2. EndOf(segs[k]) \in Nat /\ FileEndOf(segs[k]) \in Nat
        BY <1>4
      <3> QED
        BY <3>1, <3>2
    <2> QED
      BY <2>1, <2>2
  <1>10. \A j, k \in 1 .. n : j < k => out[j] = segs[j]
    BY <1>7
  <1>11. Shaped(out, TRUE)
    <2>1. ASSUME NEW i \in Present PROVE \E k \in 1 .. n : Home(out, i, k)
      BY <1>2, <1>7 DEF Shaped
    <2>2. ASSUME NEW i \in Present, NEW k \in 1 .. n, Home(out, i, k)
          PROVE  /\ out[k].perm = sections[i].perm
                 /\ End(i) <= EndOf(out[k])
                 /\ ~sections[i].nobits => End(i) <= FileEndOf(out[k])
                 /\ sections[i].nobits => FileEndOf(out[k]) <= addr[i] \/ k = n
      <3>1. /\ segs[k].perm = sections[i].perm
            /\ End(i) <= EndOf(segs[k])
            /\ ~sections[i].nobits => End(i) <= FileEndOf(segs[k])
            /\ sections[i].nobits => FileEndOf(segs[k]) <= addr[i]
        BY <1>2, <1>7, <2>2 DEF Shaped
      <3>2. End(i) \in Nat
        BY PresentAscend
      <3>3. EndOf(out[k]) \in Nat /\ FileEndOf(out[k]) \in Nat
        BY <1>2, <1>7, SegmentTypes
      <3>8. /\ EndOf(segs[k]) <= EndOf(out[k]) /\ FileEndOf(segs[k]) <= FileEndOf(out[k])
            /\ EndOf(segs[k]) \in Nat /\ FileEndOf(segs[k]) \in Nat
        BY <1>4, <1>9
      <3>4. End(i) <= EndOf(out[k])
        BY <3>1, <3>2, <3>3, <3>8
      <3>5. ~sections[i].nobits => End(i) <= FileEndOf(out[k])
        BY <3>1, <3>2, <3>3, <3>8
      <3>6. k # n => out[k] = segs[k]
        BY <1>7
      <3>7. out[k].perm = sections[i].perm
        BY <1>7, <3>1
      <3> QED
        BY <3>1, <3>4, <3>5, <3>6, <3>7
    <2>3. ASSUME NEW k \in 1 .. n
          PROVE  \E i \in Present : Home(out, i, k) /\ addr[i] = out[k].base
      <3>1. \E i \in Present : Home(segs, i, k) /\ addr[i] = segs[k].base
        BY <1>2 DEF Shaped
      <3>2. out[k].base = segs[k].base /\ \A i : Home(out, i, k) <=> Home(segs, i, k)
        BY <1>7
      <3> QED
        BY <3>1, <3>2
    <2>4. ASSUME NEW j \in 1 .. n, NEW k \in 1 .. n, j < k
          PROVE  /\ EndOf(out[j]) <= out[k].base
                 /\ out[j].perm # out[k].perm \/ out[k].filesz = 0 =>
                       Boundary(EndOf(out[j]), out[k].base)
      <3>1. /\ EndOf(segs[j]) <= segs[k].base
            /\ segs[j].perm # segs[k].perm \/ segs[k].filesz = 0 =>
                  Boundary(EndOf(segs[j]), segs[k].base)
        BY <1>2, <2>4 DEF Shaped
      <3>2. out[j] = segs[j] /\ out[k].base = segs[k].base /\ out[k].perm = segs[k].perm
        BY <1>7, <1>10, <2>4
      <3>3. out[k].filesz = 0 => segs[k].filesz = 0
        BY <1>6, <1>7
      <3> QED
        BY <3>1, <3>2, <3>3
    <2>5. \A k \in 1 .. n : out[k].memsz > 0 /\ out[k].filesz <= out[k].memsz
      BY <1>9
    <2> QED
      BY <1>7, <2>1, <2>2, <2>3, <2>4, <2>5 DEF Shaped
  <1>12. Laid(out, low)
    <2>1. \A k \in 1 .. n : Shift(out[k]) % Page = 0 /\ low <= out[k].offset
      BY <1>2, <1>7 DEF Laid
    <2>2. ASSUME NEW j \in 1 .. n, NEW k \in 1 .. n, j < k
          PROVE  /\ out[j].offset + out[j].filesz <= out[k].offset
                 /\ ~Boundary(FileEndOf(out[j]), out[k].base) => Shift(out[k]) = Shift(out[j])
      <3>1. /\ segs[j].offset + segs[j].filesz <= segs[k].offset
            /\ ~Boundary(FileEndOf(segs[j]), segs[k].base) => Shift(segs[k]) = Shift(segs[j])
        BY <1>2, <2>2 DEF Laid
      <3> QED
        BY <1>7, <1>10, <2>2, <3>1
    <2> QED
      BY <1>7, <2>1, <2>2 DEF Laid
  <1>13. PICK l \in Nat : /\ DOMAIN f = 0 .. l - 1
                          /\ \A k \in 1 .. n : segs[k].offset + segs[k].filesz <= l
    BY <1>2 DEF Filed
  <1>14. DOMAIN h = 0 .. at + size - 1 /\ l <= at
    <2>3. DOMAIN f = 0 .. l - 1
      BY <1>13
    <2>1. l # 0 => l - 1 \in DOMAIN f
      BY <2>3
    <2>4. \A o \in DOMAIN f : o < at
      BY <1>21 DEF Under
    <2>2. l <= at
      BY <2>1, <2>4
    <2> QED
      BY <1>21, <2>2 DEF Extended
  <1>15. ASSUME NEW o \in 0 .. at + size - 1, o < at
         PROVE  h[o] = IF o \in DOMAIN f THEN f[o] ELSE Zero
    BY <1>15, <1>21 DEF Extended
  <1>16. ASSUME NEW k \in 0 .. size - 1
         PROVE  at + k \in DOMAIN h /\ h[at + k] = TableByte(k)
    <2>1. at + k \in 0 .. at + size - 1 /\ at + k >= at /\ at + k - at = k
      OBVIOUS
    <2> QED
      BY <2>1, <1>14, <1>21 DEF Extended
  <1>17. ASSUME NEW i \in Present, NEW k \in 1 .. n, Home(out, i, k)
         PROVE  End(i) <= b + m /\ (k < n => End(i) <= b)
    <2>1. End(i) <= EndOf(segs[k])
      BY <1>2, <1>7, <1>17 DEF Shaped
    <2>2. k < n => EndOf(segs[k]) <= b
      BY <1>2, <1>3, <1>5 DEF Shaped
    <2>3. End(i) \in Nat /\ EndOf(segs[k]) \in Nat
      BY <1>4, PresentAscend
    <2>4. k = n \/ k < n
      OBVIOUS
    <2>5. EndOf(segs[n]) = b + m
      BY <1>5
    <2>6. k < n => End(i) <= b
      BY <2>1, <2>2, <2>3
    <2>7. End(i) <= b + m
      BY <2>1, <2>3, <2>4, <2>5, <2>6
    <2> QED
      BY <2>6, <2>7
  <1>18. Filed(out, h)
    <2>1. ASSUME NEW k \in 1 .. n PROVE out[k].offset + out[k].filesz <= at + size
      <3>1. CASE k = n
        <4>1. out[k].offset = u /\ out[k].filesz = z
          BY <1>5, <1>7, <3>1
        <4>2. u + z <= at + size
          BY <1>0
        <4> QED
          BY <4>1, <4>2
      <3>2. CASE k # n
        <4>1. out[k] = segs[k] /\ segs[k].offset + segs[k].filesz <= l
          BY <1>7, <1>13, <3>2
        <4>2. PICK x \in Nat, y \in Nat : x = segs[k].offset /\ y = segs[k].filesz
          BY <1>4
        <4>3. l <= at + size
          BY <1>14
        <4>6. x + y <= l
          BY <4>1, <4>2
        <4>4. x + y <= at + size
          BY <4>3, <4>6
        <4>5. out[k].offset = x /\ out[k].filesz = y
          BY <4>1, <4>2
        <4> QED
          BY <4>4, <4>5
      <3> QED
        BY <3>1, <3>2
    <2>2. ASSUME NEW i \in Present, NEW k \in 1 .. n, Home(out, i, k), NEW a \in Bytes(i)
          PROVE  /\ ~sections[i].nobits => h[Shift(out[k]) + a] = <<i, a - addr[i]>>
                 /\ (/\ sections[i].nobits
                     /\ Shift(out[k]) + a \in DOMAIN h
                     /\ BeforeNext(out, k, Shift(out[k]) + a)) =>
                       h[Shift(out[k]) + a] = Zero
      <3>1. /\ a \in Nat /\ addr[i] \in Nat /\ addr[i] <= a /\ a < End(i) /\ End(i) \in Nat
            /\ i \in DOMAIN sections
        BY PresentAscend DEF Bytes
      <3>2. PICK o \in Int : o = Shift(out[k]) + a /\ o = Shift(segs[k]) + a
        <4>1. Shift(out[k]) = Shift(segs[k]) /\ Shift(segs[k]) \in Int
          BY <1>4, <1>7
        <4> QED
          BY <3>1, <4>1
      <3>3. /\ ~sections[i].nobits => f[o] = <<i, a - addr[i]>>
            /\ (/\ sections[i].nobits
                /\ o \in DOMAIN f
                /\ BeforeNext(segs, k, o)) => f[o] = Zero
        <4>1. Home(segs, i, k) /\ k \in DOMAIN segs
          BY <1>2, <1>7, <2>2
        <4>2. /\ ~sections[i].nobits => f[Shift(segs[k]) + a] = <<i, a - addr[i]>>
              /\ (/\ sections[i].nobits
                  /\ Shift(segs[k]) + a \in DOMAIN f
                  /\ BeforeNext(segs, k, Shift(segs[k]) + a)) =>
                    f[Shift(segs[k]) + a] = Zero
          BY <2>2, <4>1 DEF Filed
        <4> QED
          BY <3>2, <4>2
      <3>4. BeforeNext(out, k, o) <=> BeforeNext(segs, k, o)
        <4>1. k < n => k + 1 \in 1 .. n
          OBVIOUS
        <4> QED
          BY <1>2, <1>7, <4>1 DEF BeforeNext
      <3>5. PICK v \in Nat, w \in Nat : v = segs[k].base /\ w = segs[k].offset /\ o = w - v + a
        BY <1>4, <3>1, <3>2 DEF Shift
      <3>6. v <= addr[i]
        BY <1>7, <2>2, <3>5 DEF Home
      <3>10. v <= a
        BY <3>1, <3>6
      <3>11. a \in Nat /\ o = w - v + a
        BY <3>1, <3>5
      <3>7. o >= w /\ o \in Nat
        BY <3>10, <3>11
      <3>8. CASE ~sections[i].nobits
        <4>1. End(i) <= FileEndOf(segs[k])
          BY <1>2, <1>7, <2>2, <3>8 DEF Shaped
        <4>6. PICK q \in Nat : q = segs[k].filesz
          BY <1>4
        <4>7. w + q <= l
          BY <1>13, <3>5, <4>6
        <4>8. End(i) <= v + q
          BY <3>5, <4>1, <4>6 DEF FileEndOf
        <4>2. a < v + q
          BY <3>1, <4>8
        <4>9. o < l
          BY <3>11, <4>2, <4>7
        <4>10. DOMAIN f = 0 .. l - 1
          BY <1>13
        <4>3. o < l /\ o \in DOMAIN f
          BY <3>7, <4>9, <4>10
        <4>4. h[o] = f[o]
          BY <1>14, <1>15, <3>7, <4>3
        <4>5. h[Shift(out[k]) + a] = <<i, a - addr[i]>>
          BY <3>2, <3>3, <3>8, <4>4
        <4> QED
          BY <3>8, <4>5
      <3>9. CASE sections[i].nobits
        <4> SUFFICES ASSUME o \in DOMAIN h, BeforeNext(out, k, o) PROVE h[o] = Zero
          BY <3>2, <3>9
        <4>1. o < at
          <5>1. CASE k = n
            <6>3. End(i) <= b + m
              BY <1>17, <2>2
            <6>1. a < b + m
              BY <3>1, <6>3
            <6>2. v = b /\ w = u
              BY <1>5, <3>5, <5>1
            <6> QED
              BY <1>0, <3>11, <6>1, <6>2
          <5>2. CASE k # n
            <6>1. k + 1 \in 1 .. n /\ k < n /\ o < segs[k + 1].offset
              <7>1. k + 1 \in 1 .. n /\ k < n
                BY <5>2
              <7> QED
                BY <1>2, <3>4, <7>1 DEF BeforeNext
            <6>3. PICK c \in Nat, d \in Nat : c = segs[k + 1].offset /\ d = segs[k + 1].filesz
              BY <1>4, <6>1
            <6>2. c <= u
              <7>1. CASE k + 1 = n
                BY <1>5, <6>3, <7>1
              <7>2. CASE k + 1 # n
                <8>1. k + 1 < n
                  BY <6>1, <7>2
                <8>2. segs[k + 1].offset + segs[k + 1].filesz <= segs[n].offset
                  BY <1>2, <1>3, <6>1, <8>1 DEF Laid
                <8>3. c + d <= u
                  BY <1>5, <6>3, <8>2
                <8> QED
                  BY <8>3
              <7> QED
                BY <7>1, <7>2
            <6>4. o < c
              BY <6>1, <6>3
            <6> QED
              BY <1>0, <3>7, <6>2, <6>4
          <5> QED
            BY <5>1, <5>2
        <4>2. h[o] = IF o \in DOMAIN f THEN f[o] ELSE Zero
          BY <1>14, <1>15, <4>1
        <4> QED
          BY <3>3, <3>4, <3>9, <4>2
      <3> QED
        BY <3>8, <3>9
    <2>3. DOMAIN h = 0 .. at + size - 1 /\ at + size \in Nat
      BY <1>14
    <2> QED
      BY <1>7, <2>1, <2>2, <2>3 DEF Filed
  <1>19. TableIs(out, h, table)
    <2>1. t = b + at - u /\ b + m <= t
      BY <1>0
    <2>2. table.offset = at /\ table.address = t /\ table.size = size
      BY <1>21 DEF TableAt
    <2>3. Shift(out[n]) = u - b
      BY <1>3, <1>5, <1>7 DEF Shift
    <2>4. at = Shift(out[n]) + t
      BY <2>1, <2>3
    <2>5. t % Word = 0
      <3>1. PICK w \in Nat \ {0}, p \in Nat \ {0} : w = Word /\ p = Page /\ p % w = 0
        BY PageIs, LayoutAssumption
      <3>2. PICK s \in Int : s = u - b
        OBVIOUS
      <3>3. s % p = 0
        <4>1. Shift(out[n]) % Page = 0
          BY <1>3, <1>7, <1>12 DEF Laid
        <4> QED
          BY <2>3, <3>1, <3>2, <4>1
      <3>4. s % w = 0
        BY <3>1, <3>3, IntDividesTransitive
      <3>5. (at - s) % w = 0
        <4>1. at % w = 0 /\ at \in Int
          BY <1>21, <3>1 DEF Aligned
        <4> QED
          BY <3>4, <4>1, IntSumDifference
      <3>6. t = at - s
        BY <2>1, <3>2
      <3> QED
        BY <3>1, <3>5, <3>6
    <2>6. b + z = t + size
      BY <1>0
    <2>7. ASSUME NEW i \in Present PROVE End(i) <= t
      <3>1. PICK k \in 1 .. n : Home(out, i, k)
        BY <1>7, <1>11 DEF Shaped
      <3>2. End(i) <= b + m /\ End(i) \in Nat
        BY <1>17, <3>1, PresentAscend
      <3> QED
        BY <2>1, <3>2
    <2>8. b <= t
      BY <2>1
    <2> QED
      BY <1>3, <1>5, <1>7, <1>8, <1>16, <2>2, <2>4, <2>5, <2>6, <2>7, <2>8 DEF TableIs
  <1>20. SameHomes(segs, out)
    BY <1>2, <1>7 DEF SameHomes
  <1> QED
    BY <1>11, <1>12, <1>18, <1>19, <1>20

-----------------------------------------------------------------------------
(* The invariant of the link.                                              *)

(* What each stage leaves to the next: of the segments, of the file, of    *)
(* the TLS block and its offset, and of the program-header table.          *)
Headers(segs) == Len(segs) + (IF TlsIds = {} THEN 0 ELSE 1)
LinkIs(stage, segs, f, t, o, table) ==
    /\ stage \in {"write", "tls", "headers"} => Shaped(segs, FALSE)
    /\ stage = "tls" => TlsIds # {}
    /\ stage \in {"headers", "done"} =>
          Len(segs) # 0 /\ Laid(segs, MetadataEnd(Headers(segs))) /\ Filed(segs, f)
    /\ stage = "done" => Shaped(segs, TRUE) /\ TableIs(segs, f, table)
    /\ (stage \notin {"place", "failed"} /\ TlsIds # {}) => BlockIs(t)
    /\ (stage \in {"headers", "done"} /\ TlsIds # {}) => o \in Nat /\ Anchored(segs, o - t.base)

LayInv ==
    /\ PlaceInv
    /\ \A stage, segs, f, t, o, table :
         (/\ stage = phase /\ segs = segments /\ f = file
          /\ t = tls /\ o = tlsOffset /\ table = phdrs) => LinkIs(stage, segs, f, t, o, table)

(* None of it changes while the sections stay where they are.              *)
LEMMA PiecesStay ==
  ASSUME sections' = sections, addr' = addr
  PROVE  /\ Present' = Present /\ TlsIds' = TlsIds
         /\ \A i : End(i)' = End(i)
         /\ \A i : Bytes(i)' = Bytes(i)
         /\ \A segs, i, k : Home(segs, i, k)' <=> Home(segs, i, k)
         /\ \A e, a : Boundary(e, a)' <=> Boundary(e, a)
         /\ \A k : TableByte(k)' = TableByte(k)
         /\ \A segs : Headers(segs)' = Headers(segs)
  <1>1. Present' = Present /\ TlsIds' = TlsIds
    BY DEF Present, TlsIds
  <1>2. \A i : End(i)' = End(i)
    BY DEF End
  <1>3. \A i : Bytes(i)' = Bytes(i)
    BY DEF Bytes, End
  <1>4. \A segs, i, k : Home(segs, i, k)' <=> Home(segs, i, k)
    BY DEF Home
  <1>5. \A e, a : Boundary(e, a)' <=> Boundary(e, a)
    BY DEF Boundary
  <1>6. \A k : TableByte(k)' = TableByte(k)
    BY DEF TableByte
  <1>7. \A segs : Headers(segs)' = Headers(segs)
    BY <1>1 DEF Headers
  <1> QED
    BY <1>1, <1>2, <1>3, <1>4, <1>5, <1>6, <1>7

(* What a stage leaves does not depend on the stage that runs.             *)
LEMMA LinkStays ==
  ASSUME sections' = sections, addr' = addr, NEW stage, NEW segs, NEW f, NEW t, NEW o, NEW table,
         LinkIs(stage, segs, f, t, o, table)
  PROVE  LinkIs(stage, segs, f, t, o, table)'
  <1>1. Shaped(segs, FALSE) => Shaped(segs, FALSE)'
    BY PiecesStay DEF Shaped
  <1>2. Shaped(segs, TRUE) => Shaped(segs, TRUE)'
    BY PiecesStay DEF Shaped
  <1>3. \A low : Laid(segs, low) => Laid(segs, low)'
    BY PiecesStay DEF Laid
  <1>4. Filed(segs, f) => Filed(segs, f)'
    BY PiecesStay DEF Filed
  <1>5. BlockIs(t) => BlockIs(t)'
    BY PiecesStay DEF BlockIs
  <1>6. \A s : Anchored(segs, s) => Anchored(segs, s)'
    BY PiecesStay DEF Anchored
  <1>7. TableIs(segs, f, table) => TableIs(segs, f, table)'
    BY PiecesStay DEF TableIs
  <1> QED
    BY <1>1, <1>2, <1>3, <1>4, <1>5, <1>6, <1>7, PiecesStay DEF LinkIs

(* What a stage finds.                                                     *)
LEMMA LinkFound ==
  ASSUME LayInv
  PROVE  PlaceInv /\ LinkIs(phase, segments, file, tls, tlsOffset, phdrs)
  BY DEF LayInv

(* MeasureTls leaves the block.                                            *)
LEMMA MeasureKeeps ==
  ASSUME LayInv, MeasureTls, NEW stage, NEW segs, NEW f, NEW t, NEW o, NEW table,
         stage = phase', t = tls'
  PROVE  LinkIs(stage, segs, f, t, o, table)
  <1>1. stage \in {"build", "failed"}
    BY DEF MeasureTls
  <1>2. ASSUME stage = "build", TlsIds # {} PROVE BlockIs(t)
    <2>1. t = Block /\ DOMAIN addr = DOMAIN sections
      BY <1>2 DEF MeasureTls
    <2>2. BlockIs(Block)
      BY <1>2, <2>1, LinkFound, BlockHolds
    <2> QED
      BY <2>1, <2>2
  <1> QED
    BY <1>1, <1>2 DEF LinkIs

(* BuildSegments leaves shaped segments.                                   *)
LEMMA BuildKeeps ==
  ASSUME LayInv, BuildSegments, NEW stage, NEW segs, NEW f, NEW t, NEW o, NEW table,
         stage = phase', segs = segments', t = tls'
  PROVE  LinkIs(stage, segs, f, t, o, table)
  <1>1. CASE stage = "failed"
    BY <1>1 DEF LinkIs
  <1>2. CASE stage # "failed"
    <2>1. stage = "write" /\ segs = Grouped(ByAddress) /\ t = tls /\ phase = "build"
      BY <1>2 DEF BuildSegments, Fail
    <2>2. Shaped(segs, FALSE)
      BY <2>1, LinkFound, GroupsAreShaped DEF PlaceInv
    <2>3. TlsIds # {} => BlockIs(t)
      BY <2>1, LinkFound DEF LinkIs
    <2> QED
      BY <2>1, <2>2, <2>3 DEF LinkIs
  <1> QED
    BY <1>1, <1>2

(* WriteSegments leaves segments that are laid out and a file, which is    *)
(* the last but for the headers when there are no thread-locals.           *)
LEMMA WriteKeeps ==
  ASSUME LayInv, WriteSegments, NEW stage, NEW segs, NEW f, NEW t, NEW o, NEW table,
         stage = phase', segs = segments', f = file', t = tls'
  PROVE  LinkIs(stage, segs, f, t, o, table)
  <1>1. CASE stage = "failed"
    BY <1>1 DEF LinkIs
  <1>2. CASE stage # "failed"
    <2>1. /\ phase = "write" /\ segments # <<>> /\ t = tls
          /\ segs = WithOffsets(segments, PlainOffsets(segments))
          /\ f = Written(segs, Len(segments), FileEnd(segs, MetadataEnd(Len(segments))))
          /\ stage = IF TlsIds = {} THEN "headers" ELSE "tls"
      BY <1>2 DEF WriteSegments, Fail
    <2>2. Shaped(segments, FALSE) /\ (TlsIds # {} => BlockIs(t))
      BY <2>1, LinkFound DEF LinkIs
    <2>3. /\ Shaped(segs, FALSE) /\ Laid(segs, MetadataEnd(Len(segments)))
          /\ Len(segs) = Len(segments) /\ Filed(segs, f)
      <3>1. PlaceInv /\ DOMAIN addr = DOMAIN sections
        BY <2>1, LinkFound DEF PlaceInv
      <3>2. /\ Shaped(segs, FALSE) /\ Laid(segs, MetadataEnd(Len(segments)))
            /\ Len(segs) = Len(segments)
            /\ Filed(segs, Written(segs, Len(segments),
                                   FileEnd(segs, MetadataEnd(Len(segments)))))
        BY <2>1, <2>2, <3>1, WriteIs
      <3> QED
        BY <2>1, <3>2
    <2>4. Len(segments) \in Nat \ {0}
      BY <2>1, <2>2 DEF Shaped
    <2>5. CASE TlsIds = {}
      <3>1. Headers(segs) = Len(segments)
        BY <2>3, <2>4, <2>5 DEF Headers
      <3> QED
        BY <2>1, <2>3, <2>4, <2>5, <3>1 DEF LinkIs
    <2>6. CASE TlsIds # {}
      BY <2>1, <2>2, <2>3, <2>6 DEF LinkIs
    <2> QED
      BY <2>5, <2>6
  <1> QED
    BY <1>1, <1>2

(* InjectTls leaves the same with the TLS block anchored.                  *)
LEMMA InjectKeeps ==
  ASSUME LayInv, InjectTls, NEW stage, NEW segs, NEW f, NEW t, NEW o, NEW table,
         stage = phase', segs = segments', f = file', t = tls', o = tlsOffset'
  PROVE  LinkIs(stage, segs, f, t, o, table)
  <1>1. CASE stage = "failed"
    BY <1>1 DEF LinkIs
  <1>2. CASE stage # "failed"
    <2>1. /\ phase = "tls" /\ stage = "headers" /\ t = tls /\ TlsCovered /\ TlsFits
          /\ segs = WithOffsets(segments, TlsOffsets)
          /\ o = segs[Min(TlsSegments)].offset + tls.base - segs[Min(TlsSegments)].base
          /\ f = Written(segs, Len(segments) + 1, FileEnd(segs, o + tls.filesz))
      BY <1>2 DEF InjectTls, Fail
    <2>2. Shaped(segments, FALSE) /\ TlsIds # {} /\ BlockIs(tls)
      BY <2>1, LinkFound DEF LinkIs
    <2>3. /\ Shaped(segs, FALSE) /\ Laid(segs, MetadataEnd(Len(segments) + 1))
          /\ Len(segs) = Len(segments) /\ o \in Nat
          /\ Filed(segs, f) /\ Anchored(segs, o - tls.base)
      BY <2>1, <2>2, LinkFound, InjectIs DEF PlaceInv
    <2>4. Len(segs) # 0
      <3>1. Min(TlsSegments) \in TlsSegments
        BY <2>1, <2>2, TlsAnchors DEF TlsCovered
      <3>2. DOMAIN segments = 1 .. Len(segments) /\ Len(segments) \in Nat
        BY <2>2 DEF Shaped
      <3> QED
        BY <2>3, <3>1, <3>2 DEF TlsSegments
    <2>5. Headers(segs) = Len(segments) + 1
      BY <2>2, <2>3 DEF Headers
    <2> QED
      BY <2>1, <2>2, <2>3, <2>4, <2>5 DEF LinkIs
  <1> QED
    BY <1>1, <1>2

(* The end of the last segment and of the file, rounded up.                *)
LEMMA FloorIs ==
  ASSUME NEW u \in Nat, NEW m \in Nat, NEW s, s.offset = u, s.memsz = m,
         NEW l \in Nat, DOMAIN file = 0 .. l - 1
  PROVE  \E at \in Nat : /\ at = AlignUp(Floor(s), Word) /\ u + m <= at
                         /\ Aligned(at) /\ Under(file, at)
  <1>1. Cardinality(DOMAIN file) = l
    <2>1. 0 \in Int /\ l - 1 \in Int /\ (0 <= l - 1 \/ 0 > l - 1)
      OBVIOUS
    <2>2. Cardinality(0 .. l - 1) = IF 0 > l - 1 THEN 0 ELSE l - 1 - 0 + 1
      BY <2>1, FS_Interval
    <2> QED
      BY <2>2
  <1>2. PICK v \in Nat : v = Floor(s) /\ u + m <= v /\ l <= v
    BY <1>1 DEF Floor
  <1>3. PICK w \in Nat \ {0} : w = Word
    BY LayoutAssumption
  <1>4. AlignUp(v, w) \in Nat /\ v <= AlignUp(v, w) /\ AlignUp(v, w) % w = 0
    BY AlignedUp
  <1>5. PICK at \in Nat : at = AlignUp(v, w) /\ v <= at /\ at % w = 0
    BY <1>4
  <1>6. Aligned(at)
    BY <1>3, <1>5 DEF Aligned
  <1>7. ASSUME NEW o \in 0 .. l - 1 PROVE o < at
    BY <1>2, <1>5
  <1>8. Under(file, at)
    BY <1>7 DEF Under
  <1>9. u + m <= at
    BY <1>2, <1>5
  <1> QED
    BY <1>2, <1>3, <1>5, <1>6, <1>8, <1>9

(* The program-header table is not empty.                                  *)
LEMMA HeaderSize ==
  ASSUME NEW n \in Nat, Len(segments) = n
  PROVE  PhdrSize * HeaderCount \in Nat \ {0}
  <1>1. PICK h \in Nat \ {0} : h = HeaderCount
    <2>1. PICK x \in Nat, y \in Nat : /\ x = (IF TlsIds = {} THEN 0 ELSE 1)
                                     /\ y = (IF stack THEN 1 ELSE 0)
      OBVIOUS
    <2>2. HeaderCount = 1 + n + x + y
      BY <2>1 DEF HeaderCount
    <2>3. 1 + n + x + y \in Nat \ {0}
      OBVIOUS
    <2> QED
      BY <2>2, <2>3
  <1>2. PICK p \in Nat \ {0} : p = PhdrSize
    BY LayoutAssumption
  <1>3. p * h \in Nat \ {0}
    OBVIOUS
  <1> QED
    BY <1>1, <1>2, <1>3

(* AttachHeaders leaves the finished image.                                *)
LEMMA AttachKeeps ==
  ASSUME LayInv, AttachHeaders, NEW stage, NEW segs, NEW f, NEW t, NEW o, NEW table,
         stage = phase', segs = segments', f = file', t = tls', o = tlsOffset', table = phdrs'
  PROVE  LinkIs(stage, segs, f, t, o, table)
  <1>1. phase = "headers" /\ stage = "done" /\ t = tls /\ o = tlsOffset
    BY DEF AttachHeaders
  <1>2. PICK low : low = MetadataEnd(Headers(segments))
    OBVIOUS
  <1>3. /\ PlaceInv /\ DOMAIN addr = DOMAIN sections /\ Shaped(segments, FALSE)
        /\ Len(segments) # 0 /\ Laid(segments, low) /\ Filed(segments, file)
        /\ TlsIds # {} => BlockIs(tls) /\ o \in Nat /\ Anchored(segments, o - tls.base)
    BY <1>1, <1>2, LinkFound DEF LinkIs, PlaceInv
  <1>4. PICK n \in Nat \ {0} : n = Len(segments) /\ DOMAIN segments = 1 .. n
    BY <1>3 DEF Shaped
  <1>5. n \in DOMAIN segments /\ segments \in Seq(LoadSegment)
    BY <1>3, <1>4 DEF Shaped
  <1>6. PICK b \in Nat, u \in Nat, m \in Nat :
            b = segments[n].base /\ u = segments[n].offset /\ m = segments[n].memsz
    BY <1>5, SegmentTypes
  <1>7. LastIs(segments, b, u, m)
    BY <1>4, <1>6 DEF LastIs
  <1>8. PICK l \in Nat : DOMAIN file = 0 .. l - 1
    BY <1>3 DEF Filed
  <1>9. PICK at \in Nat : /\ at = AlignUp(Floor(segments[n]), Word) /\ u + m <= at
                          /\ Aligned(at) /\ Under(file, at)
    BY <1>6, <1>8, FloorIs
  <1>10. PICK size \in Nat \ {0} : size = PhdrSize * HeaderCount
    BY <1>4, HeaderSize
  <1>11. PICK z \in Nat, e \in Nat : z = at - u + size /\ e = b + at - u
    BY <1>9
  <1>12. Attaching(b, u, m, at, size, z, e)
    BY <1>9, <1>11 DEF Attaching
  <1>13. segs = Grown(segments, z) /\ f = Extended(file, at, size) /\ table = TableAt(e, at, size)
    <2>1. /\ segs = Grown(segments, at - segments[n].offset + size)
          /\ table = TableAt(segments[n].base + at - segments[n].offset, at, size)
          /\ f = [i \in 0 .. at + size - 1 |->
                     IF i >= at THEN TableByte(i - at)
                     ELSE IF i \in DOMAIN file THEN file[i] ELSE Zero]
      BY <1>4, <1>9, <1>10 DEF AttachHeaders, Grown, TableAt
    <2> QED
      BY <1>6, <1>11, <2>1 DEF Extended
  <1>14. Headers(segments) \in Nat
    BY <1>4 DEF Headers
  <1>15. low \in Nat
    BY <1>2, <1>14, MetadataEndIs
  <1>16. /\ Shaped(segs, TRUE) /\ Laid(segs, low) /\ Filed(segs, f) /\ TableIs(segs, f, table)
         /\ Len(segs) = Len(segments) /\ DOMAIN segs = DOMAIN segments
         /\ \A k \in DOMAIN segments : Shift(segs[k]) = Shift(segments[k])
         /\ \A i, k : k \in DOMAIN segments => (Home(segs, i, k) <=> Home(segments, i, k))
    <2>1. /\ PlaceInv /\ DOMAIN addr = DOMAIN sections /\ Shaped(segments, FALSE)
          /\ Len(segments) # 0 /\ Laid(segments, low) /\ Filed(segments, file)
      BY <1>3
    <2>2. Aligned(at) /\ Under(file, at)
      BY <1>9
    <2> QED
      <3>2. Attached(segments, file, segs, f, table)
        BY <1>7, <1>12, <1>13, <2>2 DEF Attached
      <3>1. /\ Shaped(segs, TRUE) /\ Laid(segs, low) /\ Filed(segs, f) /\ TableIs(segs, f, table)
            /\ SameHomes(segments, segs)
        BY <1>15, <2>1, <3>2, AttachIs
      <3> QED
        BY <3>1 DEF SameHomes
  <1>17. Headers(segs) = Headers(segments)
    BY <1>16 DEF Headers
  <1>18. TlsIds # {} => Anchored(segs, o - tls.base)
    <2>1. \A k \in DOMAIN segments : k < Len(segments) => k + 1 \in DOMAIN segments
      BY <1>4
    <2> QED
      BY <1>3, <1>16, <2>1 DEF Anchored
  <1> QED
    BY <1>1, <1>2, <1>3, <1>16, <1>17, <1>18 DEF LinkIs

(* The invariant holds of a link that has not begun.                       *)
LEMMA LayInvInit == LayoutInit => LayInv
  <1> SUFFICES ASSUME LayoutInit PROVE LayInv
    OBVIOUS
  <1>1. PlaceInv
    BY PlaceInvInit
  <1>2. phase = "place"
    BY DEF LayoutInit
  <1>3. \A segs, f, t, o, table : LinkIs("place", segs, f, t, o, table)
    BY DEF LinkIs
  <1> QED
    BY <1>1, <1>2, <1>3 DEF LayInv

(* Every step keeps the invariant.                                         *)
LEMMA LayInvStep == LayInv /\ [LayoutNext \/ Halted]_layoutVars => LayInv'
  <1> SUFFICES ASSUME LayInv, [LayoutNext \/ Halted]_layoutVars PROVE LayInv'
    OBVIOUS
  <1> SUFFICES ASSUME NEW stage, NEW segs, NEW f, NEW t, NEW o, NEW table,
                      stage = phase', segs = segments', f = file', t = tls',
                      o = tlsOffset', table = phdrs'
               PROVE  LinkIs(stage, segs, f, t, o, table)'
    <2>1. PlaceInv'
      <3>1. PlaceInv
        BY LinkFound
      <3> QED
        BY <3>1, PlaceInvStep
    <2> QED
      BY <2>1 DEF LayInv
  <1>1. CASE PlaceSection
    <2>1. stage \in {"place", "failed"}
      BY <1>1 DEF PlaceSection, Fail
    <2> QED
      BY <2>1 DEF LinkIs
  <1>2. CASE MeasureTls \/ BuildSegments \/ WriteSegments \/ InjectTls \/ AttachHeaders
    <2>1. LinkIs(stage, segs, f, t, o, table)
      BY <1>2, MeasureKeeps, BuildKeeps, WriteKeeps, InjectKeeps, AttachKeeps
    <2>2. sections' = sections /\ addr' = addr
      BY <1>2 DEF MeasureTls, BuildSegments, WriteSegments, InjectTls, AttachHeaders, Fail
    <2> QED
      BY <2>1, <2>2, LinkStays
  <1>3. CASE UNCHANGED layoutVars
    <2>1. /\ sections' = sections /\ addr' = addr /\ stage = phase /\ segs = segments
          /\ f = file /\ t = tls /\ o = tlsOffset /\ table = phdrs
      BY <1>3 DEF layoutVars
    <2>2. LinkIs(stage, segs, f, t, o, table)
      BY <2>1, LinkFound
    <2> QED
      BY <2>1, <2>2, LinkStays
  <1> QED
    BY <1>1, <1>2, <1>3 DEF LayoutNext, Halted

(* In every state of a link each stage has left what the next one relies   *)
(* on: sections placed apart, segments shaped, offsets laid out, the file  *)
(* written.                                                                *)
THEOREM LayInvHolds == LayoutSpec => []LayInv
  <1> QED
    BY LayInvInit, LayInvStep, PTL DEF LayoutSpec

-----------------------------------------------------------------------------
(* The mapped file.                                                        *)

LEMMA LinkDone ==
  ASSUME LayInv, Done
  PROVE  /\ PlaceInv /\ DOMAIN addr = DOMAIN sections
         /\ segments \in Seq(LoadSegment) /\ Len(segments) # 0 /\ Shaped(segments, TRUE)
         /\ Laid(segments, MetadataEnd(Headers(segments))) /\ Filed(segments, file)
         /\ TableIs(segments, file, phdrs)
         /\ TlsIds # {} =>
              BlockIs(tls) /\ tlsOffset \in Nat /\ Anchored(segments, tlsOffset - tls.base)
  BY LinkFound DEF Done, LinkIs, PlaceInv, Shaped

(* A byte is on an earlier page than another when a page begins between    *)
(* them.                                                                   *)
LEMMA PagesApart ==
  ASSUME NEW a \in Nat, NEW b \in Nat
  PROVE  /\ PageOf(a) \in Nat
         /\ PageOf(a) < PageOf(b) <=> Boundary(a + 1, b)
  <1>1. PICK p \in Nat \ {0} : p = Page
    BY PageIs
  <1>2. PICK x \in Nat, y \in Nat : x = a \div p /\ y = b \div p
    OBVIOUS
  <1>3. PageOf(a) = x /\ PageOf(b) = y
    BY <1>1, <1>2 DEF PageOf
  <1>4. ASSUME x < y PROVE Boundary(a + 1, b)
    <2>1. y * p <= b /\ ~(y * p <= a)
      BY <1>2, <1>4, PageOfRun
    <2>2. y * p \in Nat /\ (y * p) % p = 0
      BY MultipleOf
    <2>3. PICK c \in Nat : c = y * p
      BY <2>2
    <2>4. c % Page = 0 /\ a + 1 <= c /\ c <= b
      BY <1>1, <2>1, <2>2, <2>3
    <2> QED
      BY <2>4 DEF Boundary
  <1>5. ASSUME Boundary(a + 1, b) PROVE x < y
    <2>1. PICK c \in Nat : c % p = 0 /\ a + 1 <= c /\ c <= b
      BY <1>1, <1>5 DEF Boundary
    <2>2. PICK q \in Nat : c = q * p
      BY <2>1, QuotientOf
    <2>3. q * p <= b /\ ~(q * p <= a)
      BY <2>1, <2>2
    <2>4. q <= y /\ ~(q <= x)
      BY <1>2, <2>3, PageOfRun
    <2> QED
      BY <2>4
  <1> QED
    BY <1>3, <1>4, <1>5

(* A segment is mapped over the page of a byte when no page begins between *)
(* the byte and the segment.                                               *)
LEMMA MappedIs ==
  ASSUME NEW s \in LoadSegment, s.memsz > 0, NEW a \in Nat
  PROVE  Mapped(s, a) <=> ~Boundary(a + 1, s.base) /\ ~Boundary(EndOf(s), a)
  <1>1. PICK b \in Nat, m \in Nat \ {0} : b = s.base /\ m = s.memsz
    BY DEF LoadSegment
  <1>2. PICK e \in Nat : e = b + m - 1 /\ e + 1 = b + m
    OBVIOUS
  <1>3. EndOf(s) = e + 1 /\ s.base + s.memsz - 1 = e
    BY <1>1, <1>2 DEF EndOf
  <1>4. PICK x \in Nat, y \in Nat, z \in Nat : x = PageOf(b) /\ y = PageOf(a) /\ z = PageOf(e)
    BY PagesApart
  <1>5. (y < x <=> Boundary(a + 1, b)) /\ (z < y <=> Boundary(e + 1, a))
    BY <1>4, PagesApart
  <1>6. Mapped(s, a) <=> y \in x .. z
    BY <1>1, <1>3, <1>4 DEF Mapped
  <1>7. y \in x .. z <=> ~(y < x) /\ ~(z < y)
    OBVIOUS
  <1> QED
    BY <1>1, <1>3, <1>5, <1>6, <1>7

(* The last segment mapped over a byte of segment k has the permissions of *)
(* k, and file data of k where k has it.                                   *)
LEMMA LastMapper ==
  ASSUME LayInv, Done, NEW k \in DOMAIN segments, NEW a \in Nat,
         segments[k].base <= a, a < EndOf(segments[k])
  PROVE  LET m == Max(Mappers(a)) IN
         /\ k \in Mappers(a) /\ m \in Mappers(a) /\ k <= m
         /\ segments[m].perm = segments[k].perm
         /\ m # k => a < segments[m].base /\ segments[m].filesz # 0
         /\ (m # k /\ a < FileEndOf(segments[k])) => Shift(segments[m]) = Shift(segments[k])
  <1>1. /\ segments \in Seq(LoadSegment) /\ Shaped(segments, TRUE)
        /\ Laid(segments, MetadataEnd(Headers(segments)))
    BY LinkDone
  <1>2. PICK n \in Nat : n = Len(segments) /\ DOMAIN segments = 1 .. n
    BY <1>1, SegmentTypes
  <1>3. ASSUME NEW j \in DOMAIN segments
        PROVE  Mapped(segments[j], a) <=>
                 ~Boundary(a + 1, segments[j].base) /\ ~Boundary(EndOf(segments[j]), a)
    BY <1>1, <1>3, SegmentTypes, MappedIs DEF Shaped
  <1>4. PICK b \in Nat, e \in Nat, d \in Nat :
            b = segments[k].base /\ e = EndOf(segments[k]) /\ d = FileEndOf(segments[k])
    BY <1>1, SegmentTypes
  <1>5. b <= a /\ a < e
    BY <1>4
  <1>6. ~Boundary(a + 1, b) /\ ~Boundary(e, a)
    BY <1>5 DEF Boundary
  <1>7. k \in Mappers(a)
    BY <1>3, <1>4, <1>6 DEF Mappers
  <1>8. Mappers(a) \in SUBSET (0 .. n)
    BY <1>2 DEF Mappers
  <1>9. PICK m : m = Max(Mappers(a)) /\ m \in Mappers(a) /\ k <= m
    BY <1>7, <1>8, MaxIs
  <1>10. m \in DOMAIN segments /\ m \in 1 .. n /\ k \in 1 .. n
    BY <1>2, <1>9 DEF Mappers
  <1>11. ASSUME m # k
         PROVE  /\ segments[m].perm = segments[k].perm
                /\ a < segments[m].base /\ segments[m].filesz # 0
                /\ a < d => Shift(segments[m]) = Shift(segments[k])
    <2>1. k < m
      BY <1>9, <1>10, <1>11
    <2>2. /\ e <= segments[m].base
          /\ segments[k].perm # segments[m].perm \/ segments[m].filesz = 0 =>
                Boundary(e, segments[m].base)
      BY <1>1, <1>4, <1>10, <2>1 DEF Shaped
    <2>3. ~Boundary(d, segments[m].base) => Shift(segments[m]) = Shift(segments[k])
      BY <1>1, <1>4, <1>10, <2>1 DEF Laid
    <2>4. PICK c \in Nat : c = segments[m].base
      BY <1>1, <1>10, SegmentTypes
    <2>5. ~Boundary(a + 1, c)
      BY <1>3, <1>9, <1>10, <2>4 DEF Mappers
    <2>6. ASSUME NEW x \in Nat, a + 1 <= x PROVE ~Boundary(x, c)
      <3>1. ASSUME NEW p \in Nat, p % Page = 0, x <= p, p <= c PROVE Boundary(a + 1, c)
        <4>1. a + 1 <= p
          BY <2>6, <3>1
        <4> QED
          BY <3>1, <4>1 DEF Boundary
      <3> QED
        BY <2>5, <3>1 DEF Boundary
    <2>7. ~Boundary(e, c)
      BY <1>5, <2>6
    <2>8. a < d => ~Boundary(d, c)
      BY <2>6
    <2>9. a < c
      BY <1>5, <2>2, <2>4
    <2> QED
      BY <2>2, <2>3, <2>4, <2>7, <2>8, <2>9
  <1>12. m = k => segments[m].perm = segments[k].perm
    OBVIOUS
  <1> QED
    BY <1>4, <1>7, <1>9, <1>11, <1>12

(* A byte of a file image is what the file has at the segment's shift.     *)
LEMMA FileShows ==
  ASSUME LayInv, Done, NEW k \in DOMAIN segments, NEW a \in Nat,
         segments[k].base <= a, a < FileEndOf(segments[k]),
         NEW o, o = Shift(segments[k]) + a
  PROVE  o \in DOMAIN file /\ MappedByte(a) = file[o]
  <1>1. /\ segments \in Seq(LoadSegment) /\ Shaped(segments, TRUE) /\ Filed(segments, file)
    BY LinkDone
  <1>2. PICK b \in Nat, u \in Nat, z \in Nat, w \in Nat :
            /\ b = segments[k].base /\ u = segments[k].offset
            /\ z = segments[k].filesz /\ w = segments[k].memsz
    BY <1>1, SegmentTypes
  <1>3. a < b + z /\ z <= w /\ o = u - b + a /\ b <= a
    BY <1>1, <1>2 DEF Shaped, FileEndOf, Shift
  <1>4. PICK l \in Nat : DOMAIN file = 0 .. l - 1 /\ u + z <= l
    BY <1>1, <1>2 DEF Filed
  <1>5. o \in Nat /\ o < l
    BY <1>3, <1>4
  <1>6. o \in DOMAIN file
    BY <1>4, <1>5
  <1>7. a < EndOf(segments[k])
    BY <1>2, <1>3 DEF EndOf
  <1>8. PICK m : m = Max(Mappers(a))
    OBVIOUS
  <1>9. /\ m \in DOMAIN segments
        /\ m # k => /\ a < segments[m].base /\ segments[m].filesz # 0
                    /\ Shift(segments[m]) = Shift(segments[k])
    BY <1>7, <1>8, LastMapper DEF Mappers
  <1>10. MappedByte(a) = ShownBy(segments[m], a)
    BY <1>8 DEF MappedByte
  <1>11. PICK c \in Nat, v \in Nat, y \in Nat :
             c = segments[m].base /\ v = segments[m].offset /\ y = segments[m].filesz
    BY <1>1, <1>9, SegmentTypes
  <1>12. v + a - c = o /\ y # 0 /\ ~(a >= c + y)
    <2>1. CASE m = k
      <3>1. c = b /\ v = u /\ y = z
        BY <1>2, <1>11, <2>1
      <3> QED
        BY <1>3, <3>1
    <2>2. CASE m # k
      <3>1. a < c /\ y # 0 /\ v - c = u - b
        BY <1>2, <1>9, <1>11, <2>2 DEF Shift
      <3> QED
        BY <1>3, <3>1
    <2> QED
      BY <2>1, <2>2
  <1>13. ShownBy(segments[m], a) = file[o]
    BY <1>6, <1>11, <1>12 DEF ShownBy
  <1> QED
    BY <1>6, <1>10, <1>13

(* The segment a section is in.                                            *)
LEMMA HomeOf ==
  ASSUME LayInv, Done, NEW i \in DOMAIN sections, NEW a \in Bytes(i)
  PROVE  /\ i \in Present /\ a \in Nat
         /\ \E k \in DOMAIN segments :
              /\ Home(segments, i, k) /\ segments[k].perm = sections[i].perm
              /\ segments[k].base <= a /\ a < EndOf(segments[k])
              /\ ~sections[i].nobits => a < FileEndOf(segments[k])
              /\ sections[i].nobits => FileEndOf(segments[k]) <= a \/ k = Len(segments)
  <1>1. PlaceInv /\ DOMAIN addr = DOMAIN sections /\ segments \in Seq(LoadSegment)
        /\ Shaped(segments, TRUE)
    BY LinkDone
  <1>2. PICK x \in Nat, y \in Nat : x = addr[i] /\ y = sections[i].size
    BY <1>1, SectionTypes DEF PlaceInv
  <1>3. a \in x .. x + y - 1 /\ End(i) = x + y
    BY <1>2 DEF Bytes, End
  <1>4. a \in Nat /\ x <= a /\ a < x + y /\ y # 0
    BY <1>3
  <1>5. i \in Present
    BY <1>2, <1>4 DEF Present
  <1>6. PICK k \in DOMAIN segments : Home(segments, i, k)
    BY <1>1, <1>5 DEF Shaped
  <1>7. /\ segments[k].perm = sections[i].perm
        /\ End(i) <= EndOf(segments[k])
        /\ ~sections[i].nobits => End(i) <= FileEndOf(segments[k])
        /\ sections[i].nobits => FileEndOf(segments[k]) <= addr[i] \/ k = Len(segments)
    BY <1>1, <1>5, <1>6 DEF Shaped
  <1>8. PICK b \in Nat, e \in Nat, d \in Nat :
            b = segments[k].base /\ e = EndOf(segments[k]) /\ d = FileEndOf(segments[k])
    BY <1>1, SegmentTypes
  <1>9. b <= x
    BY <1>2, <1>6, <1>8 DEF Home
  <1>10. x + y <= e /\ (~sections[i].nobits => x + y <= d)
         /\ (sections[i].nobits => d <= x \/ k = Len(segments))
    BY <1>2, <1>3, <1>7, <1>8
  <1>11. b <= a /\ a < e /\ (~sections[i].nobits => a < d)
         /\ (sections[i].nobits => d <= a \/ k = Len(segments))
    BY <1>4, <1>9, <1>10
  <1> QED
    BY <1>4, <1>5, <1>6, <1>7, <1>8, <1>11

(* No page has two protections.                                            *)
LEMMA ProtectionsAreApart == LayInv => PagesHaveOneProtection
  <1> SUFFICES ASSUME LayInv, Done PROVE PagesHaveOneProtection
    BY DEF PagesHaveOneProtection
  <1>1. segments \in Seq(LoadSegment) /\ Shaped(segments, TRUE)
    BY LinkDone
  <1>2. ASSUME NEW j \in DOMAIN segments, NEW k \in DOMAIN segments, j < k,
               segments[j].perm # segments[k].perm
        PROVE  PageOf(segments[j].base + segments[j].memsz - 1) < PageOf(segments[k].base)
    <2>1. Boundary(EndOf(segments[j]), segments[k].base)
      BY <1>1, <1>2 DEF Shaped
    <2>2. PICK b \in Nat, m \in Nat, c \in Nat :
              b = segments[j].base /\ m = segments[j].memsz /\ c = segments[k].base /\ m > 0
      BY <1>1, SegmentTypes DEF Shaped
    <2>3. PICK e \in Nat : e = b + m - 1 /\ e + 1 = b + m
      BY <2>2
    <2>4. Boundary(e + 1, c)
      BY <2>1, <2>2, <2>3 DEF EndOf
    <2>5. PageOf(e) < PageOf(c)
      BY <2>4, PagesApart
    <2> QED
      BY <2>2, <2>3, <2>5
  <1>3. \A j, k \in DOMAIN segments : j < k \/ j = k \/ k < j
    BY <1>1
  <1>4. ASSUME NEW j \in DOMAIN segments, NEW k \in DOMAIN segments,
               segments[j].perm # segments[k].perm
        PROVE  \/ PageOf(segments[j].base + segments[j].memsz - 1) < PageOf(segments[k].base)
               \/ PageOf(segments[k].base + segments[k].memsz - 1) < PageOf(segments[j].base)
    BY <1>2, <1>3, <1>4
  <1>5. ASSUME NEW i \in DOMAIN sections, NEW a \in Bytes(i)
        PROVE  segments[Max(Mappers(a))].perm = sections[i].perm
    <2>1. PICK k \in DOMAIN segments :
              /\ segments[k].perm = sections[i].perm
              /\ segments[k].base <= a /\ a < EndOf(segments[k])
      BY HomeOf
    <2>2. a \in Nat
      BY HomeOf
    <2> QED
      BY <2>1, <2>2, LastMapper
  <1> QED
    BY <1>4, <1>5 DEF PagesHaveOneProtection

(* The finished PT_LOADs are what the kernel asks for.                     *)
LEMMA LoadsSuit == LayInv => LoadsAreWellFormed
  <1> SUFFICES ASSUME LayInv PROVE LoadsAreWellFormed
    OBVIOUS
  <1>1. PagesHaveOneProtection
    BY ProtectionsAreApart
  <1>2. ASSUME Done, NEW k \in DOMAIN segments
        PROVE  LET s == segments[k] IN
               /\ (s.offset - s.base) % Page = 0
               /\ s.filesz <= s.memsz /\ s.memsz > 0
               /\ s.offset >= MetadataEnd(Len(segments) + (IF TlsIds = {} THEN 0 ELSE 1))
               /\ s.filesz > 0 => s.offset + s.filesz - 1 \in DOMAIN file
               /\ k > 1 => /\ segments[k - 1].base + segments[k - 1].memsz <= s.base
                           /\ segments[k - 1].offset + segments[k - 1].filesz <= s.offset
    <2>1. /\ segments \in Seq(LoadSegment) /\ Shaped(segments, TRUE)
          /\ Laid(segments, MetadataEnd(Headers(segments))) /\ Filed(segments, file)
      BY <1>2, LinkDone
    <2>2. PICK n \in Nat : n = Len(segments) /\ DOMAIN segments = 1 .. n
      BY <2>1, SegmentTypes
    <2>3. PICK u \in Nat, z \in Nat : u = segments[k].offset /\ z = segments[k].filesz
      BY <2>1, SegmentTypes
    <2>4. (segments[k].offset - segments[k].base) % Page = 0
      BY <2>1 DEF Laid, Shift
    <2>5. segments[k].filesz <= segments[k].memsz /\ segments[k].memsz > 0
      BY <2>1 DEF Shaped
    <2>6. segments[k].offset >= MetadataEnd(Len(segments) + (IF TlsIds = {} THEN 0 ELSE 1))
      <3>1. PICK h \in Nat : h = Headers(segments)
        BY <2>2 DEF Headers
      <3>2. PICK low \in Nat : low = MetadataEnd(h)
        BY MetadataEndIs
      <3>3. low <= segments[k].offset
        BY <2>1, <3>1, <3>2 DEF Laid
      <3>4. u >= low
        BY <2>3, <3>3
      <3> QED
        BY <2>3, <3>1, <3>2, <3>4 DEF Headers
    <2>7. segments[k].filesz > 0 => segments[k].offset + segments[k].filesz - 1 \in DOMAIN file
      <3>1. PICK l \in Nat : DOMAIN file = 0 .. l - 1 /\ u + z <= l
        BY <2>1, <2>3 DEF Filed
      <3>2. z > 0 => u + z - 1 \in 0 .. l - 1
        BY <3>1
      <3> QED
        BY <2>3, <3>1, <3>2
    <2>8. ASSUME k > 1
          PROVE  /\ segments[k - 1].base + segments[k - 1].memsz <= segments[k].base
                 /\ segments[k - 1].offset + segments[k - 1].filesz <= segments[k].offset
      <3>1. PICK j \in DOMAIN segments : j = k - 1 /\ j < k
        BY <2>2, <2>8
      <3>2. EndOf(segments[j]) <= segments[k].base
        BY <2>1, <3>1 DEF Shaped
      <3>3. segments[j].offset + segments[j].filesz <= segments[k].offset
        BY <2>1, <3>1 DEF Laid
      <3> QED
        BY <3>1, <3>2, <3>3 DEF EndOf
    <2> QED
      BY <2>4, <2>5, <2>6, <2>7, <2>8
  <1> QED
    BY <1>1, <1>2 DEF LoadsAreWellFormed

(* File data and the program headers are mapped where they belong.         *)
LEMMA DataIsMapped == LayInv => FileDataIsMapped
  <1> SUFFICES ASSUME LayInv, Done PROVE FileDataIsMapped
    BY DEF FileDataIsMapped
  <1>1. /\ segments \in Seq(LoadSegment) /\ TableIs(segments, file, phdrs)
        /\ Filed(segments, file) /\ PlaceInv
    BY LinkDone
  <1>2. ASSUME NEW i \in DOMAIN sections, ~sections[i].nobits, NEW a \in Bytes(i)
        PROVE  MappedByte(a) = <<i, a - addr[i]>>
    <2>1. i \in Present /\ a \in Nat
      BY HomeOf
    <2>2. PICK k \in DOMAIN segments :
              /\ Home(segments, i, k)
              /\ segments[k].base <= a /\ a < FileEndOf(segments[k])
      BY <1>2, HomeOf
    <2>3. PICK o : o = Shift(segments[k]) + a
      OBVIOUS
    <2>4. MappedByte(a) = file[o]
      BY <2>1, <2>2, <2>3, FileShows
    <2>5. file[o] = <<i, a - addr[i]>>
      BY <1>1, <1>2, <2>1, <2>2, <2>3 DEF Filed
    <2> QED
      BY <2>4, <2>5
  <1>3. PICK n \in DOMAIN segments : n = Len(segments)
    <2>1. Len(segments) # 0
      BY <1>1 DEF TableIs
    <2> QED
      BY <1>1, <2>1
  <1>4. PICK t \in Nat, w \in Nat \ {0}, o \in Nat :
            t = phdrs.address /\ w = phdrs.size /\ o = phdrs.offset
    BY <1>1 DEF TableIs
  <1>5. /\ t % Word = 0
        /\ o = Shift(segments[n]) + t /\ segments[n].base <= t
        /\ segments[n].filesz = segments[n].memsz /\ EndOf(segments[n]) = t + w
        /\ \A i \in Present : End(i) <= t
        /\ \A k \in 0 .. w - 1 : o + k \in DOMAIN file /\ file[o + k] = TableByte(k)
    BY <1>1, <1>3, <1>4 DEF TableIs
  <1>6. ASSUME NEW k \in 0 .. w - 1
        PROVE  /\ MappedByte(t + k) = TableByte(k)
               /\ \A i \in DOMAIN sections : t + k \notin Bytes(i)
    <2>1. PICK a \in Nat : a = t + k /\ t <= a /\ a < t + w
      OBVIOUS
    <2>2. PICK b \in Nat : b = segments[n].base
      BY <1>1, SegmentTypes
    <2>3. b <= a
      BY <1>5, <2>1, <2>2
    <2>4. FileEndOf(segments[n]) = t + w
      BY <1>5 DEF EndOf, FileEndOf
    <2>5. segments[n].base <= a /\ a < FileEndOf(segments[n])
      BY <2>1, <2>2, <2>3, <2>4
    <2>6. PICK x \in Int : x = Shift(segments[n])
      BY <1>1, SegmentTypes
    <2>7. o + k = x + a
      BY <1>5, <2>1, <2>6
    <2>8. MappedByte(a) = file[o + k]
      BY <2>5, <2>6, <2>7, FileShows
    <2>9. MappedByte(t + k) = TableByte(k)
      BY <1>5, <2>1, <2>8
    <2>10. ASSUME NEW i \in DOMAIN sections, a \in Bytes(i) PROVE FALSE
      <3>1. i \in Present
        BY <2>10, HomeOf
      <3>2. PICK y \in Nat, z \in Nat : y = addr[i] /\ z = sections[i].size
        BY <1>1, LinkDone, SectionTypes DEF PlaceInv
      <3>3. a \in y .. y + z - 1 /\ End(i) = y + z
        BY <2>10, <3>2 DEF Bytes, End
      <3>4. y + z <= t
        BY <1>5, <3>1, <3>3
      <3> QED
        BY <2>1, <3>3, <3>4
    <2> QED
      BY <2>1, <2>9, <2>10
  <1>7. TableIsMapped
    BY <1>4, <1>5, <1>6 DEF TableIsMapped
  <1> QED
    BY <1>2, <1>7 DEF FileDataIsMapped

(* A set with one element has only one.                                    *)
LEMMA OneMapper ==
  ASSUME NEW S, IsFiniteSet(S), Cardinality(S) = 1, NEW x \in S, NEW y \in S
  PROVE  x = y
  <1>1. PICK z : S = {z}
    BY FS_Singleton
  <1> QED
    BY <1>1

(* Memory-only space off shared pages reads as zero.                       *)
LEMMA NobitsAreZero == LayInv => NobitsAreZeroOffSharedPages
  <1> SUFFICES ASSUME LayInv, Done,
                      NEW i \in DOMAIN sections, sections[i].nobits, NEW a \in Bytes(i),
                      Cardinality(Mappers(a)) = 1
               PROVE  MappedByte(a) = Zero
    BY DEF NobitsAreZeroOffSharedPages
  <1>1. segments \in Seq(LoadSegment) /\ Filed(segments, file) /\ Shaped(segments, TRUE)
    BY LinkDone
  <1>2. i \in Present /\ a \in Nat
    BY HomeOf
  <1>3. PICK k \in DOMAIN segments :
            /\ Home(segments, i, k)
            /\ segments[k].base <= a /\ a < EndOf(segments[k])
            /\ FileEndOf(segments[k]) <= a \/ k = Len(segments)
    BY HomeOf
  <1>4. Max(Mappers(a)) = k
    <2>1. IsFiniteSet(Mappers(a))
      <3>1. DOMAIN segments = 1 .. Len(segments) /\ Len(segments) \in Nat
        BY <1>1
      <3>2. IsFiniteSet(DOMAIN segments)
        BY <3>1, FS_Interval
      <3> QED
        BY <3>2, FS_Subset DEF Mappers
    <2>2. k \in Mappers(a) /\ Max(Mappers(a)) \in Mappers(a)
      BY <1>2, <1>3, LastMapper
    <2> QED
      BY <2>1, <2>2, OneMapper
  <1>5. MappedByte(a) = ShownBy(segments[k], a)
    BY <1>4 DEF MappedByte
  <1>6. PICK b \in Nat, u \in Nat, z \in Nat, w \in Nat :
            /\ b = segments[k].base /\ u = segments[k].offset
            /\ z = segments[k].filesz /\ w = segments[k].memsz
    BY <1>1, SegmentTypes
  <1>7. a < b + w /\ (b + z <= a \/ k = Len(segments))
    BY <1>3, <1>6 DEF EndOf, FileEndOf
  <1>8. CASE b + z <= a
    <2>1. a >= b + z /\ w > z
      BY <1>2, <1>7, <1>8
    <2> QED
      BY <1>5, <1>6, <2>1 DEF ShownBy
  <1>9. CASE k = Len(segments)
    <2>1. PICK o \in Int : o = u + a - b
      BY <1>2
    <2>2. o = Shift(segments[k]) + a
      BY <1>2, <1>6, <2>1 DEF Shift
    <2>3. BeforeNext(segments, k, o)
      BY <1>1, <1>9 DEF BeforeNext
    <2>4. o \in DOMAIN file => file[o] = Zero
      BY <1>1, <1>2, <1>3, <2>2, <2>3 DEF Filed
    <2> QED
      BY <1>5, <1>6, <2>1, <2>4 DEF ShownBy
  <1> QED
    BY <1>7, <1>8, <1>9

(* A multiple of a power of two is a multiple of every smaller one.        *)
LEMMA IntSmallerPowers ==
  ASSUME NEW a \in Nat \ {0}, NEW b \in Nat \ {0}, IsPowerOfTwo(a), IsPowerOfTwo(b), a <= b,
         NEW x \in Int, x % b = 0
  PROVE  x % a = 0
  BY SmallerPower, IntDividesTransitive

(* A copy of the range PT_TLS names is the block as linked.                *)
LEMMA TlsStarts == LayInv => TlsImageIsInitial
  <1> SUFFICES ASSUME LayInv, Done, NEW i \in TlsIds
               PROVE  /\ \A a \in Bytes(i) :
                           ThreadByte(ThreadOffset(a)) =
                             IF sections[i].nobits THEN Zero ELSE <<i, a - addr[i]>>
                      /\ ThreadOffset(End(i)) <= 0
                      /\ (tls.base % tls.align = 0 /\ sections[i].align > 0) =>
                           ThreadOffset(addr[i]) % sections[i].align = 0
    BY DEF TlsImageIsInitial
  <1>1. /\ PlaceInv /\ DOMAIN addr = DOMAIN sections /\ segments \in Seq(LoadSegment)
        /\ Shaped(segments, TRUE) /\ Filed(segments, file)
        /\ BlockIs(tls) /\ tlsOffset \in Nat /\ Anchored(segments, tlsOffset - tls.base)
    BY LinkDone
  <1>2. i \in DOMAIN sections
    BY DEF TlsIds
  <1>3. PICK x \in Nat, y \in Nat, g \in Nat :
            x = addr[i] /\ y = sections[i].size /\ g = sections[i].align
    BY <1>1, <1>2, SectionTypes DEF PlaceInv
  <1>4. End(i) = x + y
    BY <1>3 DEF End
  <1>5. PICK b \in Nat, z \in Nat, m \in Nat, s \in Nat, v \in Nat \ {0} :
            /\ b = tls.base /\ z = tls.filesz /\ m = tls.memsz /\ s = tls.size /\ v = tls.align
            /\ IsPowerOfTwo(v) /\ s = AlignUp(m, v)
    BY <1>1 DEF BlockIs
  <1>6. m <= s /\ s % v = 0
    <2>1. AlignUp(m, v) \in Nat /\ m <= AlignUp(m, v) /\ AlignUp(m, v) % v = 0
      BY AlignedUp
    <2>2. s = AlignUp(m, v)
      BY <1>5
    <2> QED
      BY <2>1, <2>2
  <1>7. b <= x /\ x + y <= b + m /\ (~sections[i].nobits => x + y <= b + z) /\ g <= v
    BY <1>1, <1>3, <1>4, <1>5 DEF BlockIs
  <1>8. PICK u \in Nat : u = tlsOffset
    BY <1>1
  <1>9. ASSUME NEW a \in Bytes(i)
        PROVE  ThreadByte(ThreadOffset(a)) =
                 IF sections[i].nobits THEN Zero ELSE <<i, a - addr[i]>>
    <2>1. a \in x .. x + y - 1
      BY <1>3, <1>4, <1>9 DEF Bytes
    <2>2. a \in Nat /\ x <= a /\ a < x + y
      BY <2>1
    <2>3. PICK d \in Nat : d = a - b
      BY <1>7, <2>2
    <2>4. ThreadOffset(a) + AlignUp(tls.memsz, tls.align) = d
      <3>1. ThreadOffset(a) = a - b - s /\ AlignUp(tls.memsz, tls.align) = s
        BY <1>5 DEF ThreadOffset
      <3>2. a - b - s + s = d
        BY <2>2, <2>3
      <3> QED
        BY <3>1, <3>2
    <2>5. ThreadByte(ThreadOffset(a)) =
            IF d \in 0 .. z - 1 /\ u + d \in DOMAIN file THEN file[u + d] ELSE Zero
      BY <1>5, <1>8, <2>4 DEF ThreadByte
    <2>6. PICK k \in DOMAIN segments :
              /\ Home(segments, i, k) /\ i \in Present
              /\ segments[k].base <= a /\ a < EndOf(segments[k])
              /\ ~sections[i].nobits => a < FileEndOf(segments[k])
      BY <1>2, HomeOf
    <2>7. PICK e \in Int : e = Shift(segments[k]) /\ e = u - b
      BY <1>1, <1>5, <1>8, <2>6, SegmentTypes DEF Anchored
    <2>8. PICK o \in Int : o = e + a /\ o = u + d
      BY <2>2, <2>3, <2>7
    <2>11. o = Shift(segments[k]) + a
      BY <2>7, <2>8
    <2>9. CASE ~sections[i].nobits
      <3>1. d \in 0 .. z - 1
        BY <1>7, <2>2, <2>3, <2>9
      <3>2. o \in DOMAIN file
        BY <2>2, <2>6, <2>7, <2>8, <2>9, FileShows
      <3>3. file[o] = <<i, a - addr[i]>>
        BY <1>1, <1>9, <2>6, <2>9, <2>11 DEF Filed
      <3> QED
        BY <2>5, <2>8, <2>9, <3>1, <3>2, <3>3
    <2>10. CASE sections[i].nobits
      <3>1. BeforeNext(segments, k, o)
        <4> SUFFICES ASSUME k < Len(segments) PROVE o < segments[k + 1].offset
          BY DEF BeforeNext
        <4>1. PICK j \in DOMAIN segments : j = k + 1 /\ k < j
          BY <1>1
        <4>2. Shift(segments[j]) = u - b
          BY <1>1, <1>5, <1>8, <2>6, <4>1 DEF Anchored
        <4>3. EndOf(segments[k]) <= segments[j].base
          BY <1>1, <4>1 DEF Shaped
        <4>4. PICK c \in Nat, w \in Nat, p \in Nat :
                  c = segments[j].base /\ w = segments[j].offset /\ p = EndOf(segments[k])
          BY <1>1, SegmentTypes
        <4>5. a < p /\ p <= c /\ w - c = u - b
          BY <2>6, <4>2, <4>3, <4>4 DEF Shift
        <4>6. o < w
          BY <2>2, <2>7, <2>8, <4>5
        <4> QED
          BY <4>1, <4>4, <4>6
      <3>2. o \in DOMAIN file => file[o] = Zero
        BY <1>1, <1>9, <2>6, <2>10, <2>11, <3>1 DEF Filed
      <3> QED
        BY <2>5, <2>8, <2>10, <3>2
    <2> QED
      BY <2>9, <2>10
  <1>10. ThreadOffset(End(i)) <= 0
    <2>1. ThreadOffset(End(i)) = x + y - b - s
      BY <1>4, <1>5 DEF ThreadOffset
    <2>2. x + y - b - s <= 0
      BY <1>6, <1>7
    <2> QED
      BY <2>1, <2>2
  <1>11. ASSUME tls.base % tls.align = 0, sections[i].align > 0
         PROVE  ThreadOffset(addr[i]) % sections[i].align = 0
    <2>1. g \in Nat \ {0} /\ b % v = 0
      BY <1>3, <1>5, <1>11
    <2>2. IsPowerOfTwo(g) /\ x % g = 0
      BY <1>1, <1>2, <1>3, <2>1 DEF PlaceInv, PowerOfTwo, IsPowerOfTwo
    <2>3. b % g = 0
      BY <1>5, <1>7, <2>1, <2>2, IntSmallerPowers
    <2>4. s % g = 0
      BY <1>5, <1>6, <1>7, <2>1, <2>2, IntSmallerPowers
    <2>5. (x - b) % g = 0 /\ x - b \in Int
      <3>1. g \in Nat \ {0} /\ x \in Int /\ b \in Int /\ x % g = 0 /\ b % g = 0
        BY <2>1, <2>2, <2>3
      <3>2. (x - b) % g = 0
        BY <3>1, IntSumDifference
      <3>3. x - b \in Int
        OBVIOUS
      <3> QED
        BY <3>2, <3>3, Zenon
    <2>6. PICK c \in Int : c = x - b /\ c % g = 0
      BY <2>5
    <2>7. (c - s) % g = 0
      <3>1. g \in Nat \ {0} /\ c \in Int /\ s \in Int /\ c % g = 0 /\ s % g = 0
        BY <2>1, <2>4, <2>6
      <3> QED
        BY <3>1, IntSumDifference
    <2>8. ThreadOffset(addr[i]) = c - s
      BY <1>3, <1>5, <2>6 DEF ThreadOffset
    <2> QED
      BY <1>3, <2>7, <2>8
  <1> QED
    BY <1>9, <1>10, <1>11

(* For every list of sections and every page size: the PT_LOADs of a       *)
(* linked image have congruent offsets, ascend without overlap, lie in the *)
(* file behind the headers, and no page gets two protections.              *)
THEOREM LoadsSuitTheKernel == LayoutSpec => []LoadsAreWellFormed
  BY LayInvHolds, LoadsSuit, PTL

(* The kernel maps every section's file data and the program headers to    *)
(* the addresses the relocations were applied for, and zeros to the        *)
(* memory-only space off shared pages.                                     *)
THEOREM MemoryMirrorsTheLink == LayoutSpec => []MemoryIsAsLinked
  <1>1. LayInv => MemoryIsAsLinked
    BY DataIsMapped, NobitsAreZero DEF MemoryIsAsLinked
  <1> QED
    BY <1>1, LayInvHolds, PTL

(* A thread that copies the range PT_TLS names finds .tdata as linked and  *)
(* .tbss zeroed at the offsets the relocations were given.                 *)
THEOREM ThreadsStartAsLinked == LayoutSpec => []TlsImageIsInitial
  BY LayInvHolds, TlsStarts, PTL

=============================================================================
