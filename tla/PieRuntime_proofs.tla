---------------------------- MODULE PieRuntime_proofs ----------------------------
(***************************************************************************)
(* Whatever the relocations of a static PIE, its GOT, the page size and the*)
(* reach of a RELR bitmap: the start-up code relocates every word once,    *)
(* resolvers run on a relocated image, and only the GOT is sealed.         *)
(***************************************************************************)
EXTENDS PieRuntime, DivisionFacts, FiniteSetTheorems, SequenceTheorems

Entry == [at : Nat, symbol : Names]
Here(a, s) == [at |-> a, symbol |-> s]

(* The word at a that holds the address of s has been written down.        *)
Gathered(a, s) ==
    /\ Kind[s] = "object" => Here(a, s) \in Range(relative)
    /\ Kind[s] = "ifunc"  => Here(a, s) \in Range(irelative)

RequestsBefore(n) ==
    \A i \in DOMAIN link.requests :
        i < n /\ link.requests[i].section # "text" =>
            Gathered(Address(link.requests[i]), link.requests[i].symbol)
SlotsBefore(n) ==
    \A k \in DOMAIN GotNames : k < n => Gathered(Slot(GotNames[k]), GotNames[k])

(* The two lists hold what the relocations and the GOT ask for, as far as  *)
(* the loop has come.                                                      *)
CollectInv ==
    /\ link \in Links /\ next \in Nat \ {0}
    /\ relative \in Seq(Entry) /\ irelative \in Seq(Entry)
    /\ \A x \in Range(relative) :
          Kind[x.symbol] = "object" /\ x.symbol \in Requested(x.at) \cup Slotted(x.at)
    /\ \A x \in Range(irelative) :
          Kind[x.symbol] = "ifunc" /\ x.symbol \in Requested(x.at) \cup Slotted(x.at)
    /\ phase = "collect" => RequestsBefore(next)
    /\ phase = "got" => RequestsBefore(Len(link.requests) + 1) /\ SlotsBefore(next)
    /\ phase \notin {"collect", "got", "failed"} =>
          RequestsBefore(Len(link.requests) + 1) /\ SlotsBefore(Len(GotNames) + 1)

-----------------------------------------------------------------------------
(* The writable image.                                                     *)

LEMMA RoundedUp ==
    ASSUME NEW v \in Nat, NEW a \in Nat \ {0}
    PROVE  AlignUp(v, a) \in Nat /\ AlignUp(v, a) % a = 0 /\ v <= AlignUp(v, a)
  BY RoundUp DEF AlignUp

LEMMA ImageTypes ==
    ASSUME link \in Links
    PROVE  /\ link.data \in Nat /\ link.tls \in Nat
           /\ link.requests \in Seq(Request) /\ GotNames \in Seq(Names)
           /\ GotUsed \in Nat /\ GotBase \in Nat /\ GotSize \in Nat
           /\ GotBase % Page = 0 /\ GotSize % Page = 0 /\ GotUsed <= GotSize
           /\ TlsBase \in Nat /\ ImageEnd \in Nat
           /\ GotUsed # 0 => GotBase + GotSize <= ImageEnd
  <1>1. /\ link.data \in Nat /\ link.tls \in Nat /\ link.tpoff \in Nat
        /\ link.requests \in Seq(Request) /\ link.got \in Seq(Names)
        /\ Word \in Nat \ {0} /\ Page \in Nat \ {0}
    BY PieAssumption
  <1>2. GotNames = link.got /\ Len(GotNames) + link.tpoff \in Nat
    BY <1>1 DEF GotNames
  <1>3. GotUsed \in Nat
    BY <1>1, <1>2 DEF GotUsed
  <1>4. GotBase \in Nat /\ GotBase % Page = 0
    BY <1>1, RoundedUp DEF GotBase
  <1>5. GotSize \in Nat /\ GotSize % Page = 0 /\ GotUsed <= GotSize
    BY <1>1, <1>3, RoundedUp DEF GotSize
  <1>6. /\ TlsBase \in Nat
        /\ GotUsed # 0 => TlsBase = GotBase + GotSize
    BY <1>1, <1>4, <1>5 DEF TlsBase
  <1>7. ImageEnd \in Nat /\ (GotUsed # 0 => GotBase + GotSize <= ImageEnd)
    BY <1>1, <1>4, <1>5, <1>6 DEF ImageEnd
  <1> QED
    BY <1>1, <1>2, <1>3, <1>4, <1>5, <1>6, <1>7

LEMMA SlotIs ==
    ASSUME link \in Links, NEW n \in Range(GotNames)
    PROVE  Slot(n) \in Nat /\ n \in Names
  <1>1. /\ GotNames \in Seq(Names) /\ GotBase \in Nat /\ Word \in Nat \ {0}
    BY ImageTypes, PieAssumption
  <1>2. \E k \in DOMAIN GotNames : GotNames[k] = n
    BY DEF Range
  <1>3. PICK k \in DOMAIN GotNames : k = CHOOSE i \in DOMAIN GotNames : GotNames[i] = n
    BY <1>2
  <1>4. k \in Nat \ {0} /\ n \in Names
    BY <1>1, <1>2
  <1>5. Word * (k - 1) \in Nat
    BY <1>1, <1>4
  <1> QED
    BY <1>1, <1>3, <1>4, <1>5 DEF Slot

LEMMA RequestIs ==
    ASSUME link \in Links, NEW i \in DOMAIN link.requests
    PROVE  /\ link.requests[i] \in Request
           /\ Address(link.requests[i]) \in Nat
  <1>1. link.requests[i] \in Request /\ TlsBase \in Nat
    BY ImageTypes
  <1> QED
    BY <1>1 DEF Address, Request

(* What the image is made of changes with the link only.                   *)
LEMMA SameLink ==
    ASSUME UNCHANGED link
    PROVE  /\ GotNames' = GotNames /\ GotUsed' = GotUsed /\ GotBase' = GotBase
           /\ GotSize' = GotSize /\ TlsBase' = TlsBase /\ ImageEnd' = ImageEnd
           /\ \A n : Slot(n)' = Slot(n)
           /\ \A r : Address(r)' = Address(r)
           /\ \A a : /\ Requested(a)' = Requested(a) /\ Slotted(a)' = Slotted(a)
                     /\ LinkTime(a)' = LinkTime(a) /\ Wanted(a)' = Wanted(a)
  <1>1. /\ GotNames' = GotNames /\ GotUsed' = GotUsed /\ GotBase' = GotBase
        /\ GotSize' = GotSize
    BY DEF GotNames, GotUsed, GotBase, GotSize
  <1>2. TlsBase' = TlsBase
    BY <1>1 DEF TlsBase
  <1>3. ImageEnd' = ImageEnd
    BY <1>2 DEF ImageEnd
  <1>4. \A n : Slot(n)' = Slot(n)
    BY <1>1 DEF Slot
  <1>5. \A r : Address(r)' = Address(r)
    BY <1>2 DEF Address
  <1>6. \A a : Requested(a)' = Requested(a) /\ Slotted(a)' = Slotted(a)
    BY <1>1, <1>4, <1>5 DEF Requested, Slotted
  <1>7. ASSUME NEW a PROVE LinkTime(a)' = LinkTime(a) /\ Wanted(a)' = Wanted(a)
    <2>1. Requested(a)' = Requested(a) /\ Slotted(a)' = Slotted(a)
      BY <1>6
    <2>2. LinkTime(a)' = LinkTime(a)
      BY <2>1 DEF LinkTime, Plain, Linked
    <2> QED
      BY <2>1, <2>2 DEF Wanted
  <1> QED
    BY <1>1, <1>2, <1>3, <1>4, <1>5, <1>6, <1>7

-----------------------------------------------------------------------------
(* The collection.                                                         *)

LEMMA EntryAdded ==
    ASSUME NEW s \in Seq(Entry), NEW e \in Entry
    PROVE  /\ Append(s, e) \in Seq(Entry)
           /\ Range(Append(s, e)) = Range(s) \cup {e}
  <1> DEFINE t == Append(s, e)
  <1>1. /\ DOMAIN t = DOMAIN s \cup {Len(s) + 1}
        /\ \A i \in DOMAIN s : t[i] = s[i]
        /\ t[Len(s) + 1] = e /\ t \in Seq(Entry)
    OBVIOUS
  <1> HIDE DEF t
  <1>2. Range(t) = Range(s) \cup {e}
    BY <1>1 DEF Range
  <1> QED
    BY <1>1, <1>2 DEF t

(* What has been written down stays so, and the next word is added.        *)
LEMMA KeepAdds ==
    ASSUME CollectInv, NEW a \in Nat, NEW s \in Names, Keep(a, s),
           Kind[s] \in {"object", "ifunc"}, s \in Requested(a) \cup Slotted(a)
    PROVE  /\ relative' \in Seq(Entry) /\ irelative' \in Seq(Entry)
           /\ \A x \in Range(relative') :
                 Kind[x.symbol] = "object" /\ x.symbol \in Requested(x.at) \cup Slotted(x.at)
           /\ \A x \in Range(irelative') :
                 Kind[x.symbol] = "ifunc" /\ x.symbol \in Requested(x.at) \cup Slotted(x.at)
           /\ Gathered(a, s)'
           /\ \A b, r : Gathered(b, r) => Gathered(b, r)'
  <1> DEFINE e == Here(a, s)
  <1>1. e \in Entry /\ e.at = a /\ e.symbol = s
    BY DEF Here, Entry
  <1>2. relative \in Seq(Entry) /\ irelative \in Seq(Entry)
    BY DEF CollectInv
  <1>3. CASE Kind[s] = "ifunc"
    <2>1. relative' = relative /\ irelative' = Append(irelative, e)
      BY <1>3 DEF Keep, Here
    <2>2. irelative' \in Seq(Entry) /\ Range(irelative') = Range(irelative) \cup {e}
      BY <1>1, <1>2, <2>1, EntryAdded
    <2> QED
      BY <1>1, <1>2, <1>3, <2>1, <2>2 DEF CollectInv, Gathered
  <1>4. CASE Kind[s] = "object"
    <2>1. irelative' = irelative /\ relative' = Append(relative, e)
      BY <1>4 DEF Keep, Here
    <2>2. relative' \in Seq(Entry) /\ Range(relative') = Range(relative) \cup {e}
      BY <1>1, <1>2, <2>1, EntryAdded
    <2> QED
      BY <1>1, <1>2, <1>4, <2>1, <2>2 DEF CollectInv, Gathered
  <1> QED
    BY <1>3, <1>4

LEMMA CollectDirectStep == CollectInv /\ CollectDirect => CollectInv'
  <1> SUFFICES ASSUME CollectInv, CollectDirect PROVE CollectInv'
    OBVIOUS
  <1>1. PICK r : r = link.requests[next]
    OBVIOUS
  <1>2. /\ link \in Links /\ next \in DOMAIN link.requests /\ link.requests \in Seq(Request)
        /\ next \in Nat /\ phase = "collect" /\ UNCHANGED link
    <2>1. link \in Links /\ next \in Nat \ {0} /\ phase = "collect" /\ next <= Len(link.requests)
      BY DEF CollectInv, CollectDirect
    <2>2. link.requests \in Seq(Request)
      BY <2>1, ImageTypes
    <2> QED
      BY <2>1, <2>2 DEF CollectDirect, Refuse, Pass, Keep
  <1>3. r \in Request /\ Address(r) \in Nat /\ r.symbol \in Names
    BY <1>1, <1>2, RequestIs DEF Request
  <1>4. RequestsBefore(next)
    BY <1>2 DEF CollectInv
  <1>5. CASE \E reason : Refuse(reason)
    BY <1>2, <1>5, SameLink DEF CollectInv, Refuse, tables
  <1>6. CASE r.section # "text" /\ Kind[r.symbol] = "weak" /\ Pass
    <2>1. UNCHANGED <<relative, irelative, phase>> /\ next' = next + 1
      BY <1>6 DEF Pass, tables
    <2>2. RequestsBefore(next)'
      <3> SUFFICES ASSUME NEW i \in DOMAIN link.requests, i < next + 1,
                          link.requests[i].section # "text"
                   PROVE  Gathered(Address(link.requests[i]), link.requests[i].symbol)'
        BY <1>2, <2>1 DEF RequestsBefore
      <3>1. Gathered(Address(link.requests[i]), link.requests[i].symbol)
        <4>1. CASE i = next
          BY <1>1, <1>6, <4>1 DEF Gathered
        <4>2. CASE i # next
          BY <1>2, <1>4, <4>2 DEF RequestsBefore
        <4> QED
          BY <4>1, <4>2
      <3> QED
        BY <1>2, <2>1, <3>1, SameLink DEF Gathered
    <2> QED
      BY <1>2, <2>1, <2>2, SameLink DEF CollectInv
  <1>7. CASE r.section # "text" /\ Kind[r.symbol] \in {"object", "ifunc"}
             /\ Keep(Address(r), r.symbol)
    <2>1. PICK a \in Nat : a = Address(r)
      BY <1>3
    <2>2. Keep(a, r.symbol) /\ phase' = phase /\ next' = next + 1
      BY <1>7, <2>1 DEF Keep
    <2>3. r.symbol \in Requested(a)
      BY <1>1, <1>2, <1>7, <2>1 DEF Requested, Range
    <2>4. /\ relative' \in Seq(Entry) /\ irelative' \in Seq(Entry)
          /\ \A x \in Range(relative') :
                Kind[x.symbol] = "object" /\ x.symbol \in Requested(x.at) \cup Slotted(x.at)
          /\ \A x \in Range(irelative') :
                Kind[x.symbol] = "ifunc" /\ x.symbol \in Requested(x.at) \cup Slotted(x.at)
          /\ Gathered(a, r.symbol)'
          /\ \A b, s : Gathered(b, s) => Gathered(b, s)'
      BY <1>3, <1>7, <2>2, <2>3, KeepAdds
    <2>5. RequestsBefore(next)'
      <3> SUFFICES ASSUME NEW i \in DOMAIN link.requests, i < next + 1,
                          link.requests[i].section # "text"
                   PROVE  Gathered(Address(link.requests[i]), link.requests[i].symbol)'
        BY <1>2, <2>2 DEF RequestsBefore
      <3>1. PICK b, s : b = Address(link.requests[i]) /\ s = link.requests[i].symbol
        OBVIOUS
      <3>2. Gathered(b, s)'
        <4>1. CASE i = next
          BY <1>1, <2>1, <2>4, <3>1, <4>1
        <4>2. CASE i # next
          <5>1. i < next
            BY <1>2, <4>2
          <5>2. Gathered(b, s)
            BY <1>4, <3>1, <5>1 DEF RequestsBefore
          <5> QED
            BY <2>4, <5>2
        <4> QED
          BY <4>1, <4>2
      <3> QED
        BY <1>2, <3>1, <3>2, SameLink DEF Gathered
    <2> QED
      BY <1>2, <2>2, <2>4, <2>5, SameLink DEF CollectInv
  <1> QED
    BY <1>1, <1>5, <1>6, <1>7 DEF CollectDirect

LEMMA StartGotStep == CollectInv /\ StartGot => CollectInv'
  <1> SUFFICES ASSUME CollectInv, StartGot PROVE CollectInv'
    OBVIOUS
  <1>1. /\ UNCHANGED <<link, relative, irelative>> /\ phase' = "got" /\ next' = 1
        /\ link \in Links /\ RequestsBefore(next) /\ next > Len(link.requests)
        /\ next \in Nat
    BY DEF CollectInv, StartGot, tables
  <1>2. link.requests \in Seq(Request) /\ GotNames \in Seq(Names)
    BY <1>1, ImageTypes
  <1>3. RequestsBefore(Len(link.requests) + 1)
    BY <1>1, <1>2 DEF RequestsBefore
  <1>4. RequestsBefore(Len(link.requests) + 1)'
    BY <1>1, <1>3, SameLink DEF RequestsBefore, Gathered
  <1>5. SlotsBefore(next)'
    BY <1>1, <1>2, SameLink DEF SlotsBefore
  <1> QED
    BY <1>1, <1>4, <1>5, SameLink DEF CollectInv

LEMMA CollectGotStep == CollectInv /\ CollectGot => CollectInv'
  <1> SUFFICES ASSUME CollectInv, CollectGot PROVE CollectInv'
    OBVIOUS
  <1>1. PICK n : n = GotNames[next]
    OBVIOUS
  <1>2. /\ link \in Links /\ next \in DOMAIN GotNames /\ GotNames \in Seq(Names)
        /\ next \in Nat /\ phase = "got" /\ UNCHANGED link
    <2>1. link \in Links /\ next \in Nat \ {0} /\ phase = "got" /\ next <= Len(GotNames)
      BY DEF CollectInv, CollectGot
    <2>2. GotNames \in Seq(Names)
      BY <2>1, ImageTypes
    <2> QED
      BY <2>1, <2>2 DEF CollectGot, Refuse, Pass, Keep
  <1>3. n \in Range(GotNames) /\ n \in Names /\ Slot(n) \in Nat
    <2>1. n \in Range(GotNames)
      BY <1>1, <1>2 DEF Range
    <2> QED
      BY <1>2, <2>1, SlotIs
  <1>4. RequestsBefore(Len(link.requests) + 1) /\ SlotsBefore(next)
    BY <1>2 DEF CollectInv
  <1>5. CASE \E reason : Refuse(reason)
    BY <1>2, <1>5, SameLink DEF CollectInv, Refuse, tables
  <1>6. ASSUME UNCHANGED phase, next' = next + 1,
               relative' \in Seq(Entry) /\ irelative' \in Seq(Entry),
               \A x \in Range(relative') :
                  Kind[x.symbol] = "object" /\ x.symbol \in Requested(x.at) \cup Slotted(x.at),
               \A x \in Range(irelative') :
                  Kind[x.symbol] = "ifunc" /\ x.symbol \in Requested(x.at) \cup Slotted(x.at),
               \A b, r : Gathered(b, r) => Gathered(b, r)',
               NEW a, a = Slot(n), Gathered(a, n)'
        PROVE  CollectInv'
    <2>1. RequestsBefore(Len(link.requests) + 1)'
      <3> SUFFICES ASSUME NEW i \in DOMAIN link.requests, i < Len(link.requests) + 1,
                          link.requests[i].section # "text"
                   PROVE  Gathered(Address(link.requests[i]), link.requests[i].symbol)'
        BY <1>2 DEF RequestsBefore
      <3>1. PICK b, s : b = Address(link.requests[i]) /\ s = link.requests[i].symbol
        OBVIOUS
      <3>2. Gathered(b, s)
        BY <1>4, <3>1 DEF RequestsBefore
      <3>3. Gathered(b, s)'
        BY <1>6, <3>2
      <3> QED
        BY <1>2, <3>1, <3>3, SameLink DEF Gathered
    <2>2. SlotsBefore(next)'
      <3> SUFFICES ASSUME NEW k \in DOMAIN GotNames, k < next + 1
                   PROVE  Gathered(Slot(GotNames[k]), GotNames[k])'
        BY <1>2, <1>6, SameLink DEF SlotsBefore
      <3>1. PICK b, s : b = Slot(GotNames[k]) /\ s = GotNames[k]
        OBVIOUS
      <3>2. Gathered(b, s)'
        <4>1. CASE k = next
          BY <1>1, <1>6, <3>1, <4>1
        <4>2. CASE k # next
          <5>1. k < next
            BY <1>2, <4>2
          <5>2. Gathered(b, s)
            BY <1>4, <3>1, <5>1 DEF SlotsBefore
          <5> QED
            BY <1>6, <5>2
        <4> QED
          BY <4>1, <4>2
      <3> QED
        BY <1>2, <3>1, <3>2, SameLink DEF Gathered
    <2> QED
      BY <1>2, <1>6, <2>1, <2>2, SameLink DEF CollectInv
  <1>7. CASE Kind[n] \in {"weak", "abs"} /\ Pass
    <2>1. UNCHANGED <<relative, irelative, phase>> /\ next' = next + 1
      BY <1>7 DEF Pass, tables
    <2>2. \A b, r : Gathered(b, r) => Gathered(b, r)'
      BY <2>1 DEF Gathered
    <2>3. PICK a : a = Slot(n)
      OBVIOUS
    <2>4. Gathered(a, n)'
      BY <1>7 DEF Gathered
    <2>5. /\ relative' \in Seq(Entry) /\ irelative' \in Seq(Entry)
          /\ \A x \in Range(relative') :
                Kind[x.symbol] = "object" /\ x.symbol \in Requested(x.at) \cup Slotted(x.at)
          /\ \A x \in Range(irelative') :
                Kind[x.symbol] = "ifunc" /\ x.symbol \in Requested(x.at) \cup Slotted(x.at)
      BY <2>1 DEF CollectInv
    <2> QED
      BY <1>6, <2>1, <2>2, <2>3, <2>4, <2>5
  <1>8. CASE Kind[n] \in {"object", "ifunc"} /\ Keep(Slot(n), n)
    <2>1. PICK a \in Nat : a = Slot(n)
      BY <1>3
    <2>2. Keep(a, n) /\ phase' = phase /\ next' = next + 1
      BY <1>8, <2>1 DEF Keep
    <2>3. n \in Slotted(a)
      BY <1>3, <2>1 DEF Slotted
    <2>4. /\ relative' \in Seq(Entry) /\ irelative' \in Seq(Entry)
          /\ \A x \in Range(relative') :
                Kind[x.symbol] = "object" /\ x.symbol \in Requested(x.at) \cup Slotted(x.at)
          /\ \A x \in Range(irelative') :
                Kind[x.symbol] = "ifunc" /\ x.symbol \in Requested(x.at) \cup Slotted(x.at)
          /\ Gathered(a, n)'
          /\ \A b, s : Gathered(b, s) => Gathered(b, s)'
      BY <1>3, <1>8, <2>2, <2>3, KeepAdds
    <2> QED
      BY <1>6, <2>1, <2>2, <2>4
  <1> QED
    BY <1>1, <1>5, <1>7, <1>8 DEF CollectGot

-----------------------------------------------------------------------------
(* The sort by address.                                                    *)

Before(j, k) == \/ relative[j].at < relative[k].at
                \/ relative[j].at = relative[k].at /\ j <= k

LEMMA RanksGrow ==
    ASSUME relative \in Seq(Entry), NEW k \in DOMAIN relative
    PROVE  /\ TargetRank(k) \in DOMAIN relative
           /\ \A l \in DOMAIN relative : ~Before(l, k) => TargetRank(k) < TargetRank(l)
  <1> DEFINE Behind(m) == {j \in DOMAIN relative : Before(j, m)}
  <1>1. \A m : TargetRank(m) = Cardinality(Behind(m))
    BY DEF TargetRank, Before
  <1>2. PICK n \in Nat : n = Len(relative) /\ DOMAIN relative = 1 .. n
    OBVIOUS
  <1>3. IsFiniteSet(1 .. n) /\ Cardinality(1 .. n) = n
    BY FS_Interval
  <1>4. ASSUME NEW j \in DOMAIN relative PROVE relative[j].at \in Nat /\ j \in Nat
    <2>1. relative[j] \in Entry /\ j \in Nat
      OBVIOUS
    <2> QED
      BY <2>1 DEF Entry
  <1>5. ASSUME NEW m \in DOMAIN relative
        PROVE  /\ IsFiniteSet(Behind(m)) /\ Cardinality(Behind(m)) \in 1 .. n
               /\ m \in Behind(m)
    <2>1. m \in Behind(m) /\ Behind(m) \subseteq 1 .. n
      BY <1>2, <1>4 DEF Before
    <2>2. IsFiniteSet(Behind(m)) /\ Cardinality(Behind(m)) <= n
      BY <1>3, <2>1, FS_Subset
    <2>3. Cardinality(Behind(m)) \in Nat /\ Cardinality(Behind(m)) # 0
      BY <2>1, <2>2, FS_CardinalityType, FS_EmptySet
    <2> QED
      BY <2>1, <2>2, <2>3
  <1>6. ASSUME NEW l \in DOMAIN relative, ~Before(l, k)
        PROVE  Cardinality(Behind(k)) < Cardinality(Behind(l))
    <2>1. Behind(k) \subseteq Behind(l)
      BY <1>4, <1>6 DEF Before
    <2>2. l \in Behind(l) /\ l \notin Behind(k)
      BY <1>5, <1>6
    <2>3. /\ Cardinality(Behind(k)) \in 1 .. n /\ Cardinality(Behind(l)) \in 1 .. n
      BY <1>5, <1>6
    <2>4. PICK x \in 1 .. n, y \in 1 .. n :
              x = Cardinality(Behind(k)) /\ y = Cardinality(Behind(l))
      BY <2>3
    <2>5. x <= y /\ x # y
      BY <1>5, <2>1, <2>2, <2>4, FS_Subset
    <2>6. x < y
      BY <2>5
    <2> QED
      BY <2>4, <2>6
  <1>7. TargetRank(k) \in DOMAIN relative
    BY <1>1, <1>2, <1>5
  <1>8. ASSUME NEW l \in DOMAIN relative, ~Before(l, k)
        PROVE  TargetRank(k) < TargetRank(l)
    BY <1>1, <1>6, <1>8
  <1> QED
    BY <1>7, <1>8

(* The list is rearranged, by address.                                     *)
LEMMA SortedByTarget ==
    ASSUME relative \in Seq(Entry)
    PROVE  /\ ByTarget \in Seq(Entry) /\ DOMAIN ByTarget = DOMAIN relative
           /\ Range(ByTarget) = Range(relative)
           /\ \A i, j \in DOMAIN ByTarget : i < j => ByTarget[i].at <= ByTarget[j].at
  <1> DEFINE S == DOMAIN relative
             rank == [k \in S |-> TargetRank(k)]
             place == [i \in S |-> CHOOSE k \in S : TargetRank(k) = i]
  <1>1. PICK n \in Nat : S = 1 .. n
    OBVIOUS
  <1>2. ASSUME NEW j \in S
        PROVE  relative[j].at \in Nat /\ relative[j] \in Entry /\ j \in Nat
    <2>1. relative[j] \in Entry /\ j \in Nat
      OBVIOUS
    <2> QED
      BY <2>1 DEF Entry
  <1>3. \A k \in S : TargetRank(k) \in S
    BY RanksGrow
  <1>4. \A k, l \in S : TargetRank(k) <= TargetRank(l) => Before(k, l)
    <2> SUFFICES ASSUME NEW k \in S, NEW l \in S, ~Before(k, l)
                 PROVE  ~(TargetRank(k) <= TargetRank(l))
      OBVIOUS
    <2>1. TargetRank(l) < TargetRank(k)
      BY RanksGrow
    <2>2. TargetRank(l) \in Nat /\ TargetRank(k) \in Nat
      BY <1>1, <1>3
    <2> QED
      BY <2>1, <2>2
  <1>5. \A k, l \in S : TargetRank(k) = TargetRank(l) => k = l
    <2> SUFFICES ASSUME NEW k \in S, NEW l \in S, TargetRank(k) = TargetRank(l)
                 PROVE  k = l
      OBVIOUS
    <2>1. TargetRank(k) \in Nat
      BY <1>1, <1>3
    <2>2. Before(k, l) /\ Before(l, k)
      BY <1>4, <2>1
    <2> QED
      BY <1>2, <2>2 DEF Before
  <1>6. rank \in Injection(S, S)
    BY <1>3, <1>5 DEF Injection, IsInjective
  <1>7. IsFiniteSet(S)
    BY <1>1, FS_Interval
  <1>8. rank \in Surjection(S, S)
    BY <1>6, <1>7, FS_Injection
  <1>9. \A i \in S : \E k \in S : TargetRank(k) = i
    BY <1>8 DEF Surjection
  <1>10. \A i \in S : place[i] \in S /\ TargetRank(place[i]) = i
    BY <1>9
  <1>11. ByTarget = [i \in S |-> relative[place[i]]]
    BY DEF ByTarget
  <1> HIDE DEF rank, place
  <1>12. DOMAIN ByTarget = S /\ \A i \in S : ByTarget[i] \in Entry
    BY <1>2, <1>10, <1>11
  <1>13. ByTarget \in Seq(Entry)
    <2>1. ByTarget \in [1 .. n -> Entry]
      BY <1>1, <1>11, <1>12
    <2> QED
      BY <2>1
  <1>14. \A k \in S : ByTarget[TargetRank(k)] = relative[k]
    BY <1>3, <1>5, <1>10, <1>11
  <1>15. Range(ByTarget) = Range(relative)
    <2>1. ASSUME NEW x PROVE x \in Range(ByTarget) <=> x \in Range(relative)
      <3>1. x \in Range(ByTarget) <=> \E i \in S : ByTarget[i] = x
        BY <1>12 DEF Range
      <3>2. x \in Range(relative) <=> \E i \in S : relative[i] = x
        BY DEF Range
      <3> QED
        BY <1>3, <1>10, <1>11, <1>14, <3>1, <3>2
    <2> QED
      BY <2>1
  <1>16. ASSUME NEW i \in S, NEW j \in S, i < j
         PROVE  ByTarget[i].at <= ByTarget[j].at
    <2>1. PICK k \in S, l \in S : k = place[i] /\ l = place[j]
      BY <1>10
    <2>2. TargetRank(k) = i /\ TargetRank(l) = j /\ i <= j
      BY <1>1, <1>10, <1>16, <2>1
    <2>3. Before(k, l)
      BY <1>4, <2>2
    <2>4. relative[k].at <= relative[l].at
      BY <1>2, <2>3 DEF Before
    <2> QED
      BY <1>11, <2>1, <2>4
  <1> QED
    BY <1>12, <1>13, <1>15, <1>16

(* When the tables are built the lists hold what they held, in some order. *)
LEMMA Rearranged ==
    ASSUME CollectInv, phase = "got", next > Len(GotNames),
           UNCHANGED <<link, irelative>>, relative' \in Seq(Entry),
           Range(relative') = Range(relative), next' \in Nat \ {0},
           phase' \notin {"collect", "got", "failed"}
    PROVE  CollectInv'
  <1>1. /\ link \in Links /\ GotNames \in Seq(Names) /\ next \in Nat
        /\ RequestsBefore(Len(link.requests) + 1) /\ SlotsBefore(next)
    BY ImageTypes DEF CollectInv
  <1>2. SlotsBefore(Len(GotNames) + 1)
    BY <1>1 DEF SlotsBefore
  <1>3. \A b, s : Gathered(b, s)' <=> Gathered(b, s)
    BY DEF Gathered
  <1>4. RequestsBefore(Len(link.requests) + 1)' /\ SlotsBefore(Len(GotNames) + 1)'
    <2>1. ASSUME NEW i \in DOMAIN link.requests, i < Len(link.requests) + 1,
                 link.requests[i].section # "text"
          PROVE  Gathered(Address(link.requests[i]), link.requests[i].symbol)'
      <3>1. PICK b, s : b = Address(link.requests[i]) /\ s = link.requests[i].symbol
        OBVIOUS
      <3>2. Gathered(b, s)'
        BY <1>1, <1>3, <2>1, <3>1 DEF RequestsBefore
      <3> QED
        BY <3>1, <3>2, SameLink DEF Gathered
    <2>2. ASSUME NEW k \in DOMAIN GotNames
          PROVE  Gathered(Slot(GotNames[k]), GotNames[k])'
      <3>1. PICK b, s : b = Slot(GotNames[k]) /\ s = GotNames[k]
        OBVIOUS
      <3>2. Gathered(b, s)'
        BY <1>1, <1>2, <1>3, <3>1 DEF SlotsBefore
      <3> QED
        BY <3>1, <3>2, SameLink DEF Gathered
    <2> QED
      BY <2>1, <2>2, SameLink DEF RequestsBefore, SlotsBefore
  <1> QED
    BY <1>1, <1>4, SameLink DEF CollectInv

LEMMA BuildTablesStep == CollectInv /\ BuildTables => CollectInv'
  <1> SUFFICES ASSUME CollectInv, BuildTables PROVE CollectInv'
    OBVIOUS
  <1>1. /\ phase = "got" /\ next > Len(GotNames) /\ UNCHANGED <<link, irelative>>
        /\ relative \in Seq(Entry) /\ next \in Nat \ {0}
    BY DEF CollectInv, BuildTables, Refuse, tables
  <1>2. CASE \E reason : Refuse(reason)
    BY <1>1, <1>2, SameLink DEF CollectInv, Refuse, tables
  <1>3. CASE relative' = relative /\ next' = next /\ phase' \in {"plain", "layout"}
    BY <1>1, <1>3, Rearranged
  <1>4. CASE relative' = ByTarget /\ next' = 1 /\ phase' = "encode"
    BY <1>1, <1>4, SortedByTarget, Rearranged
  <1> QED
    BY <1>1, <1>2, <1>3, <1>4 DEF BuildTables, tables

(* From the tables on, the lists are only read.                            *)
LEMMA ListsKept ==
    ASSUME CollectInv, phase \notin {"collect", "got", "failed"},
           UNCHANGED <<link, relative, irelative>>, next' \in Nat \ {0},
           phase' \notin {"collect", "got"}
    PROVE  CollectInv'
  <1>1. \A b, s : Gathered(b, s)' <=> Gathered(b, s)
    BY DEF Gathered
  <1>2. RequestsBefore(Len(link.requests) + 1)' /\ SlotsBefore(Len(GotNames) + 1)'
    <2>1. RequestsBefore(Len(link.requests) + 1) /\ SlotsBefore(Len(GotNames) + 1)
      BY DEF CollectInv
    <2> QED
      BY <2>1, SameLink DEF RequestsBefore, SlotsBefore, Gathered
  <1> QED
    BY <1>2, SameLink DEF CollectInv

(* A bitmap takes the next target, and those up to the last within reach.  *)
LEMMA TakenIs ==
    ASSUME relative \in Seq(Entry), next \in Nat \ {0}, next <= Len(relative),
           Within(relative[next].at)
    PROVE  LET taken == {k \in next .. Len(relative) : Within(relative[k].at)}
           IN  Max(taken) \in taken /\ \A k \in taken : k <= Max(taken)
  <1> DEFINE taken == {k \in next .. Len(relative) : Within(relative[k].at)}
  <1>1. PICK n \in Nat : n = Len(relative)
    OBVIOUS
  <1>2. taken \in SUBSET (0 .. n) /\ next \in taken
    BY <1>1
  <1>3. \E x \in taken : \A y \in taken : x >= y
    BY <1>2, GreatestOfSet
  <1>4. Max(taken) \in taken /\ \A y \in taken : Max(taken) >= y
    BY <1>3 DEF Max
  <1> QED
    BY <1>1, <1>4

LEMMA CollectInvInit == PieInit => CollectInv
  <1> SUFFICES ASSUME PieInit PROVE CollectInv
    OBVIOUS
  <1>1. /\ link \in Links /\ next = 1 /\ phase = "collect"
        /\ relative = <<>> /\ irelative = <<>>
    BY DEF PieInit
  <1>2. link.requests \in Seq(Request)
    BY <1>1, ImageTypes
  <1>3. RequestsBefore(next)
    BY <1>1, <1>2 DEF RequestsBefore
  <1>4. Range(relative) = {} /\ Range(irelative) = {}
    BY <1>1 DEF Range
  <1> QED
    BY <1>1, <1>3, <1>4 DEF CollectInv

LEMMA CollectInvStep == CollectInv /\ [PieNext \/ Ended]_pieVars => CollectInv'
  <1> SUFFICES ASSUME CollectInv, [PieNext \/ Ended]_pieVars PROVE CollectInv'
    OBVIOUS
  <1>1. next \in Nat \ {0} /\ next + 1 \in Nat \ {0} /\ relative \in Seq(Entry)
    BY DEF CollectInv
  <1>2. CASE Collecting
    BY <1>2, CollectDirectStep, StartGotStep, CollectGotStep, BuildTablesStep DEF Collecting
  <1>3. CASE EncodeDirect \/ EndRun \/ EncodeNothing
    BY <1>1, <1>3, ListsKept DEF EncodeDirect, EndRun, EncodeNothing, tables
  <1>4. CASE EncodeBitmap
    <2> DEFINE taken == {k \in next .. Len(relative) : Within(relative[k].at)}
    <2>1. /\ phase = "bitmap" /\ UNCHANGED <<link, phase, relative, irelative>>
          /\ next' = Max(taken) + 1 /\ next <= Len(relative) /\ Within(relative[next].at)
      BY <1>4 DEF EncodeBitmap
    <2>2. Max(taken) \in taken
      BY <1>1, <2>1, TakenIs
    <2>3. Max(taken) \in Nat
      BY <1>1, <2>2
    <2>4. next' \in Nat \ {0}
      BY <2>1, <2>3
    <2> QED
      BY <2>1, <2>4, ListsKept
  <1>5. CASE LayOutRuntime
    <2>1. CASE \E reason : Refuse(reason)
      BY <1>1, <1>5, <2>1, ListsKept DEF LayOutRuntime, Refuse, tables
    <2>2. CASE phase' = "relr" /\ next' = 1 /\ UNCHANGED <<link, relative, irelative>>
      BY <1>5, <2>2, ListsKept DEF LayOutRuntime
    <2> QED
      BY <1>5, <2>1, <2>2 DEF LayOutRuntime
  <1>6. CASE Relocating
    BY <1>1, <1>6, ListsKept DEF Relocating, RelrDirect, RelrBitmap, RelrDone, StoreRelative,
       CallResolver, ResolverReturns, RelaDone, tables
  <1>7. CASE Sealing
    BY <1>1, <1>7, ListsKept DEF Sealing, SealSegment, SealFails, EnterUser, tables
  <1>8. CASE UNCHANGED pieVars
    BY <1>8, SameLink DEF pieVars, tables, CollectInv, RequestsBefore, SlotsBefore, Gathered
  <1> QED
    BY <1>2, <1>3, <1>4, <1>5, <1>6, <1>7, <1>8 DEF PieNext, Ended, Encoding

-----------------------------------------------------------------------------
(* The seal.                                                               *)

(* What the trampoline seals was laid out after the image, on pages of its *)
(* own, and the pages sealed are those of the segments passed.             *)
SealedBefore(n) ==
    \A p : p \in sealed <=> \E i \in DOMAIN relro : i < n /\ p \in PagesOf(relro[i])
Row == [kind : {"relative", "irelative"}, at : Nat, symbol : Names]
RowOf(kind, x) == [kind |-> kind, at |-> x.at, symbol |-> x.symbol]

SealInv ==
    /\ DOMAIN memory = 0 .. ImageEnd - 1
    /\ rela \in Seq(Row)
    /\ \E S : relr \in Seq(S)
    /\ phase \in {"relr", "rela", "resolver", "seal", "exited", "user"} => relro = RelroSegments
    /\ phase \notin {"seal", "exited", "user"} => sealed = {}
    /\ phase = "seal" => SealedBefore(next)
    /\ phase = "user" => SealedBefore(Len(relro) + 1)

LEMMA EntriesAre ==
    ASSUME NEW list \in Seq(Entry), NEW kind \in {"relative", "irelative"}
    PROVE  /\ RelaEntries(kind, list) \in Seq(Row)
           /\ Len(RelaEntries(kind, list)) = Len(list)
           /\ \A k \in 1 .. Len(list) : RelaEntries(kind, list)[k] = RowOf(kind, list[k])
  <1>1. PICK n \in Nat : n = Len(list) /\ DOMAIN list = 1 .. n
    OBVIOUS
  <1>2. \A k \in 1 .. n : list[k] \in Entry
    BY <1>1
  <1>3. RelaEntries(kind, list) = [k \in 1 .. n |-> RowOf(kind, list[k])]
    BY <1>1 DEF RelaEntries, RowOf
  <1>4. \A k \in 1 .. n : RowOf(kind, list[k]) \in Row
    BY <1>2 DEF Entry, Row, RowOf
  <1> QED
    BY <1>1, <1>3, <1>4

(* RELA holds the words RELR does not, and then the resolvers.             *)
RelativePart == IF link.packed THEN 0 ELSE Len(relative)
LEMMA TableIs ==
    ASSUME relative \in Seq(Entry), irelative \in Seq(Entry)
    PROVE  /\ RelaTable \in Seq(Row)
           /\ RelativePart \in Nat /\ Len(RelaTable) = RelativePart + Len(irelative)
           /\ \A j \in 1 .. RelativePart : RelaTable[j] = RowOf("relative", relative[j])
           /\ \A j \in RelativePart + 1 .. Len(RelaTable) :
                 RelaTable[j] = RowOf("irelative", irelative[j - RelativePart])
  <1> DEFINE first == IF link.packed THEN <<>> ELSE RelaEntries("relative", relative)
             second == RelaEntries("irelative", irelative)
  <1>1. /\ first \in Seq(Row) /\ Len(first) = RelativePart /\ RelativePart \in Nat
        /\ \A j \in 1 .. RelativePart : first[j] = RowOf("relative", relative[j])
    <2>1. CASE link.packed
      <3>1. <<>> \in Seq(Row) /\ Len(<<>>) = 0 /\ RelativePart = 0
        BY <2>1 DEF RelativePart
      <3> QED
        BY <2>1, <3>1
    <2>2. CASE ~link.packed
      <3>1. /\ RelaEntries("relative", relative) \in Seq(Row)
            /\ Len(RelaEntries("relative", relative)) = Len(relative)
            /\ \A k \in 1 .. Len(relative) :
                  RelaEntries("relative", relative)[k] = RowOf("relative", relative[k])
        BY EntriesAre
      <3>2. RelativePart = Len(relative)
        BY <2>2 DEF RelativePart
      <3>3. first = RelaEntries("relative", relative)
        BY <2>2
      <3> HIDE DEF first
      <3> QED
        BY <3>1, <3>2, <3>3
    <2> QED
      BY <2>1, <2>2
  <1>2. /\ second \in Seq(Row) /\ Len(second) = Len(irelative)
        /\ \A j \in 1 .. Len(irelative) : second[j] = RowOf("irelative", irelative[j])
    BY EntriesAre
  <1>3. RelaTable = first \o second
    BY DEF RelaTable
  <1> HIDE DEF first, second
  <1>4. PICK m \in Nat, n \in Nat : m = RelativePart /\ n = Len(irelative)
    <2>1. RelativePart \in Nat
      BY <1>1
    <2>2. Len(irelative) \in Nat
      OBVIOUS
    <2> QED
      BY <2>1, <2>2
  <1>5. PICK f \in Seq(Row), g \in Seq(Row) :
            f = first /\ g = second /\ m = Len(f) /\ n = Len(g)
    BY <1>1, <1>2, <1>4
  <1>6. /\ f \o g \in Seq(Row) /\ Len(f \o g) = m + n
        /\ \A j \in 1 .. m : (f \o g)[j] = f[j]
        /\ \A j \in m + 1 .. m + n : (f \o g)[j] = g[j - m]
    BY <1>5, ConcatProperties
  <1>7. \A j \in m + 1 .. m + n : j - m \in 1 .. n
    OBVIOUS
  <1>8. \A j \in m + 1 .. m + n : RelaTable[j] = RowOf("irelative", irelative[j - m])
    BY <1>2, <1>3, <1>4, <1>6, <1>7, <1>5
  <1>9. \A j \in 1 .. m : RelaTable[j] = RowOf("relative", relative[j])
    BY <1>1, <1>3, <1>4, <1>6, <1>5
  <1> QED
    BY <1>3, <1>4, <1>6, <1>8, <1>9, <1>5

(* PT_DYNAMIC starts after the image, on a page of its own.                *)
LEMMA DynamicIsApart ==
    ASSUME link \in Links, Len(relr) \in Nat, Len(rela) \in Nat
    PROVE  /\ DynamicAt \in Nat /\ DynamicAt % Page = 0 /\ ImageEnd <= DynamicAt
           /\ DynamicSize \in Nat
  <1>1. ImageEnd \in Nat /\ Page \in Nat \ {0} /\ Word \in Nat \ {0}
    BY ImageTypes, PieAssumption
  <1>2. TablesAt \in Nat /\ ImageEnd <= TablesAt
    BY <1>1, RoundedUp DEF TablesAt
  <1>3. Word * Len(relr) \in Nat /\ 3 * Word * Len(rela) \in Nat
    BY <1>1
  <1>4. RelaAt \in Nat /\ ImageEnd <= RelaAt
    BY <1>1, <1>2, <1>3 DEF RelaAt
  <1>5. PICK v \in Nat : v = RelaAt + 3 * Word * Len(rela) /\ ImageEnd <= v
    BY <1>1, <1>3, <1>4
  <1>6. TrampolineAt \in Nat /\ TrampolineAt % Page = 0 /\ ImageEnd <= TrampolineAt
    BY <1>1, <1>5, RoundedUp DEF TrampolineAt
  <1>7. DynamicAt \in Nat /\ ImageEnd <= DynamicAt
    BY <1>1, <1>6 DEF DynamicAt
  <1>8. DynamicAt % Page = 0
    <2>1. Page % Page = 0
      BY <1>1
    <2> QED
      BY <1>1, <1>6, <2>1, SumOfMultiples DEF DynamicAt
  <1>9. DynamicSize \in Nat
    <2>1. PICK e \in Nat : DynamicSize = 2 * Word * e
      BY DEF DynamicSize
    <2> QED
      BY <1>1, <2>1
  <1> QED
    BY <1>7, <1>8, <1>9

(* The segments that are sealed start on a page.                           *)
LEMMA SegmentsAre ==
    ASSUME link \in Links, Len(relr) \in Nat, Len(rela) \in Nat
    PROVE  LET last == Len(RelroSegments)
               got  == [base |-> GotBase, size |-> GotSize]
               dyn  == [base |-> DynamicAt, size |-> DynamicSize]
           IN  /\ \A i \in DOMAIN RelroSegments :
                     RelroSegments[i] = dyn \/ (GotUsed # 0 /\ RelroSegments[i] = got)
               /\ GotUsed # 0 => 1 \in DOMAIN RelroSegments /\ RelroSegments[1] = got
               /\ last \in Nat /\ DOMAIN RelroSegments = 1 .. last
  <1> DEFINE got == [base |-> GotBase, size |-> GotSize]
             dyn == [base |-> DynamicAt, size |-> DynamicSize]
  <1> HIDE DEF got, dyn
  <1>1. CASE GotUsed = 0
    <2>1. RelroSegments = <<dyn>>
      BY <1>1 DEF RelroSegments, dyn
    <2> QED
      BY <1>1, <2>1 DEF dyn
  <1>2. CASE GotUsed # 0
    <2>1. RelroSegments = <<got>> \o <<dyn>>
      BY <1>2 DEF RelroSegments, got, dyn
    <2>2. PICK f, g : f = <<got>> /\ g = <<dyn>>
      OBVIOUS
    <2>3. f \in Seq({got, dyn}) /\ g \in Seq({got, dyn}) /\ Len(f) = 1 /\ Len(g) = 1
      BY <2>2
    <2>4. /\ f \o g \in Seq({got, dyn}) /\ Len(f \o g) = 2
          /\ (f \o g)[1] = got /\ (f \o g)[2] = dyn
      BY <2>2, <2>3, ConcatProperties
    <2>5. DOMAIN (f \o g) = 1 .. 2
      BY <2>4
    <2> QED
      BY <1>2, <2>1, <2>2, <2>4, <2>5 DEF got, dyn
  <1> QED
    BY <1>1, <1>2

(* Whole pages up to an address hold only what is below it, and whole      *)
(* pages from an address on what is not.                                   *)
LEMMA PagesAreWhole ==
    ASSUME NEW a \in Nat, NEW c \in Nat, NEW e \in Nat, e % Page = 0,
           a \div Page = c \div Page
    PROVE  e <= a <=> e <= c
  <1>1. Page \in Nat \ {0}
    BY PieAssumption
  <1>2. PICK q \in Nat : e = q * Page
    BY <1>1, QuotientOf
  <1> QED
    BY <1>1, <1>2, PageOfRun

(* The segments depend on the link and on the lengths of the tables.       *)
LEMMA SameSegments ==
    ASSUME UNCHANGED <<link, relr, rela>>
    PROVE  RelroSegments' = RelroSegments
  <1>1. GotUsed' = GotUsed /\ GotBase' = GotBase /\ GotSize' = GotSize /\ ImageEnd' = ImageEnd
    BY SameLink
  <1>2. TablesAt' = TablesAt
    BY <1>1 DEF TablesAt
  <1>3. RelaAt' = RelaAt
    BY <1>2 DEF RelaAt
  <1>4. TrampolineAt' = TrampolineAt
    BY <1>3 DEF TrampolineAt
  <1>5. DynamicAt' = DynamicAt /\ DynamicSize' = DynamicSize
    BY <1>4 DEF DynamicAt, DynamicSize
  <1> QED
    BY <1>1, <1>5 DEF RelroSegments

LEMMA SealInvInit == PieInit => SealInv
  <1> SUFFICES ASSUME PieInit PROVE SealInv
    OBVIOUS
  <1>1. /\ DOMAIN memory = 0 .. ImageEnd - 1 /\ phase = "collect" /\ sealed = {}
        /\ rela = <<>> /\ relr = <<>>
    BY DEF PieInit
  <1>2. rela \in Seq(Row) /\ relr \in Seq({})
    BY <1>1
  <1> QED
    BY <1>1, <1>2 DEF SealInv

LEMMA SealInvStep ==
    CollectInv /\ SealInv /\ [PieNext \/ Ended]_pieVars => SealInv'
  <1> SUFFICES ASSUME CollectInv, SealInv, [PieNext \/ Ended]_pieVars PROVE SealInv'
    OBVIOUS
  <1>1. /\ link \in Links /\ next \in Nat \ {0} /\ relative \in Seq(Entry)
        /\ irelative \in Seq(Entry) /\ rela \in Seq(Row) /\ Len(relr) \in Nat
        /\ DOMAIN memory = 0 .. ImageEnd - 1 /\ Len(rela) \in Nat
    BY DEF CollectInv, SealInv
  <1>2. UNCHANGED link => ImageEnd' = ImageEnd
    BY SameLink
  <1>3. CASE Collecting
    <2>1. UNCHANGED <<link, relr, sealed>> /\ phase \in {"collect", "got"}
      BY <1>3 DEF Collecting, CollectDirect, StartGot, CollectGot, BuildTables, Refuse, Pass,
         Keep, tables
    <2>2. phase' \in {"collect", "got", "plain", "layout", "encode", "failed"}
      BY <1>3 DEF Collecting, CollectDirect, StartGot, CollectGot, BuildTables, Refuse, Pass,
         Keep, tables
    <2>3. DOMAIN memory' = DOMAIN memory
      BY <1>3 DEF Collecting, CollectDirect, StartGot, CollectGot, BuildTables, Refuse, Pass,
         Keep, tables, Materialized
    <2>4. rela' = rela \/ rela' = RelaTable
      BY <1>3 DEF Collecting, CollectDirect, StartGot, CollectGot, BuildTables, Refuse, Pass,
         Keep, tables
    <2>5. rela' \in Seq(Row)
      BY <1>1, <2>4, TableIs
    <2> QED
      BY <1>1, <1>2, <2>1, <2>2, <2>3, <2>5 DEF SealInv
  <1>4. CASE EncodeDirect \/ EncodeBitmap \/ EndRun \/ EncodeNothing
    <2>1. /\ UNCHANGED <<link, sealed, memory, rela>>
          /\ phase \in {"encode", "bitmap"} /\ phase' \in {"encode", "bitmap", "layout"}
      BY <1>4 DEF EncodeDirect, EncodeBitmap, EndRun, EncodeNothing, tables
    <2>2. \E S : relr' \in Seq(S)
      <3>1. PICK S : relr \in Seq(S)
        BY DEF SealInv
      <3>2. CASE relr' = relr
        BY <3>1, <3>2
      <3>3. CASE \E e : relr' = Append(relr, e)
        <4>1. PICK e : relr' = Append(relr, e)
          BY <3>3
        <4>2. relr' \in Seq(S \cup {e})
          BY <3>1, <4>1
        <4> QED
          BY <4>2
      <3> QED
        BY <1>4, <3>2, <3>3 DEF EncodeDirect, EncodeBitmap, EndRun, EncodeNothing, tables
    <2> QED
      BY <1>1, <1>2, <2>1, <2>2 DEF SealInv
  <1>5. CASE LayOutRuntime
    <2>1. CASE \E reason : Refuse(reason)
      BY <1>1, <1>2, <1>5, <2>1 DEF LayOutRuntime, Refuse, tables, SealInv
    <2>2. CASE /\ phase' = "relr" /\ relro' = RelroSegments
               /\ UNCHANGED <<link, relr, rela, memory, sealed>>
      <3>1. RelroSegments' = RelroSegments
        BY <2>2, SameSegments
      <3> QED
        BY <1>1, <1>2, <1>5, <2>2, <3>1 DEF LayOutRuntime, SealInv
    <2> QED
      BY <1>5, <2>1, <2>2 DEF LayOutRuntime
  <1>6. CASE Relocating
    <2>1. /\ UNCHANGED <<link, relr, rela, relro, sealed>>
          /\ phase \in {"relr", "rela", "resolver"}
          /\ phase' \in {"relr", "rela", "resolver", "seal"}
          /\ phase' = "seal" => next' = 1
      BY <1>6 DEF Relocating, RelrDirect, RelrBitmap, RelrDone, StoreRelative, CallResolver,
         ResolverReturns, RelaDone, tables
    <2>2. DOMAIN memory' = DOMAIN memory
      BY <1>6 DEF Relocating, RelrDirect, RelrBitmap, RelrDone, StoreRelative, CallResolver,
         ResolverReturns, RelaDone, AddBias
    <2>3. relro = RelroSegments /\ RelroSegments' = RelroSegments /\ sealed = {}
      BY <2>1, SameSegments DEF SealInv
    <2>4. DOMAIN relro = 1 .. Len(RelroSegments)
      BY <1>1, <2>3, SegmentsAre
    <2>5. phase' = "seal" => SealedBefore(next)'
      BY <2>1, <2>3, <2>4 DEF SealedBefore
    <2> QED
      BY <1>1, <1>2, <2>1, <2>2, <2>3, <2>5 DEF SealInv
  <1>7. CASE Sealing
    <2>1. /\ UNCHANGED <<link, relr, rela, relro, memory>>
          /\ phase = "seal" /\ phase' \in {"seal", "exited", "user"}
      BY <1>7 DEF Sealing, SealSegment, SealFails, EnterUser, tables
    <2>2. /\ relro = RelroSegments /\ RelroSegments' = RelroSegments /\ SealedBefore(next)
      BY <2>1, SameSegments DEF SealInv
    <2>3. PICK last \in Nat : DOMAIN relro = 1 .. last /\ Len(relro) = last
      BY <1>1, <2>2, SegmentsAre
    <2>4. CASE SealSegment
      <3>1. /\ next \in DOMAIN relro /\ next' = next + 1 /\ phase' = "seal"
            /\ \A p : p \in sealed' <=> p \in sealed \/ p \in PagesOf(relro[next])
        BY <1>1, <2>1, <2>3, <2>4 DEF SealSegment
      <3>2. \A i : PagesOf(relro'[i]) = PagesOf(relro[i])
        BY <2>1
      <3>3. \A i \in DOMAIN relro : i < next + 1 <=> i < next \/ i = next
        BY <1>1, <2>3
      <3>4. \A p : p \in sealed' <=> \E i \in DOMAIN relro : i < next + 1 /\ p \in PagesOf(relro[i])
        BY <2>2, <3>1, <3>3 DEF SealedBefore
      <3>5. SealedBefore(next)'
        BY <2>1, <3>1, <3>2, <3>4 DEF SealedBefore, PagesOf
      <3> QED
        BY <1>1, <1>2, <2>1, <2>2, <3>1, <3>5 DEF SealInv
    <2>5. CASE SealFails
      BY <1>1, <1>2, <2>1, <2>2, <2>5 DEF SealFails, SealInv
    <2>6. CASE EnterUser
      <3>1. SealedBefore(Len(relro) + 1)'
        BY <1>1, <2>1, <2>2, <2>3, <2>6 DEF EnterUser, SealedBefore, PagesOf
      <3> QED
        BY <1>1, <1>2, <2>1, <2>2, <2>6, <3>1 DEF EnterUser, SealInv
    <2> QED
      BY <1>7, <2>4, <2>5, <2>6 DEF Sealing
  <1>8. CASE UNCHANGED pieVars
    BY <1>1, <1>2, <1>8, SameSegments DEF pieVars, tables, SealInv, SealedBefore, PagesOf
  <1> QED
    BY <1>3, <1>4, <1>5, <1>6, <1>7, <1>8 DEF PieNext, Ended, Encoding

(* When the user's code starts, the GOT is sealed and nothing else of the  *)
(* writable image is, whatever the size of the pages.                      *)
LEMMA SealInvSeals == CollectInv /\ SealInv => OnlyTheGotIsSealed
  <1> SUFFICES ASSUME CollectInv, SealInv, phase = "user"
               PROVE  /\ {a \in DOMAIN memory : a \div Page \in sealed}
                             \subseteq GotBase .. GotBase + GotSize - 1
                      /\ \A k \in 0 .. GotUsed - 1 : (GotBase + k) \div Page \in sealed
    BY DEF OnlyTheGotIsSealed
  <1>1. /\ link \in Links /\ Len(rela) \in Nat /\ Len(relr) \in Nat
        /\ relro = RelroSegments /\ SealedBefore(Len(relro) + 1)
        /\ DOMAIN memory = 0 .. ImageEnd - 1
    BY DEF CollectInv, SealInv
  <1>2. /\ GotUsed \in Nat /\ GotBase \in Nat /\ GotSize \in Nat /\ ImageEnd \in Nat
        /\ GotBase % Page = 0 /\ GotSize % Page = 0 /\ GotUsed <= GotSize
        /\ GotUsed # 0 => GotBase + GotSize <= ImageEnd
    BY <1>1, ImageTypes
  <1>3. /\ DynamicAt \in Nat /\ DynamicAt % Page = 0 /\ ImageEnd <= DynamicAt
        /\ DynamicSize \in Nat
    BY <1>1, DynamicIsApart
  <1>4. Page \in Nat \ {0}
    BY PieAssumption
  <1>5. PICK end \in Nat : end = GotBase + GotSize /\ end % Page = 0
    <2>1. PICK b \in Nat, z \in Nat : b = GotBase /\ z = GotSize
      BY <1>2
    <2>2. b % Page = 0 /\ z % Page = 0
      BY <1>2, <2>1
    <2>3. (b + z) % Page = 0
      BY <1>4, <2>2, SumOfMultiples
    <2> QED
      BY <2>1, <2>3
  <1>6. PICK last \in Nat : DOMAIN relro = 1 .. last /\ Len(relro) = last
    BY <1>1, SegmentsAre
  <1>7. \A p : p \in sealed <=> \E i \in DOMAIN relro : p \in PagesOf(relro[i])
    BY <1>1, <1>6 DEF SealedBefore
  <1>8. \A i \in DOMAIN relro :
            \/ relro[i] = [base |-> DynamicAt, size |-> DynamicSize]
            \/ GotUsed # 0 /\ relro[i] = [base |-> GotBase, size |-> GotSize]
    BY <1>1, SegmentsAre
  <1>9. ASSUME NEW c \in DOMAIN memory, c \div Page \in sealed
        PROVE  c \in GotBase .. GotBase + GotSize - 1
    <2>1. c \in Nat /\ c < ImageEnd
      BY <1>1, <1>2
    <2>2. PICK i \in DOMAIN relro : c \div Page \in PagesOf(relro[i])
      BY <1>7, <1>9
    <2>3. CASE relro[i] = [base |-> DynamicAt, size |-> DynamicSize]
      <3>1. PICK a \in DynamicAt .. DynamicAt + DynamicSize - 1 : a \div Page = c \div Page
        BY <2>2, <2>3 DEF PagesOf
      <3>2. a \in Nat /\ DynamicAt <= a
        BY <1>3, <3>1
      <3>3. DynamicAt <= c
        BY <1>3, <2>1, <3>1, <3>2, PagesAreWhole
      <3> QED
        BY <1>2, <1>3, <2>1, <3>3
    <2>4. CASE GotUsed # 0 /\ relro[i] = [base |-> GotBase, size |-> GotSize]
      <3>1. PICK a \in GotBase .. GotBase + GotSize - 1 : a \div Page = c \div Page
        BY <2>2, <2>4 DEF PagesOf
      <3>2. a \in Nat /\ GotBase <= a /\ ~(end <= a)
        BY <1>2, <1>5, <3>1
      <3>3. GotBase <= c
        BY <1>2, <2>1, <3>1, <3>2, PagesAreWhole
      <3>4. ~(end <= c)
        BY <1>5, <2>1, <3>1, <3>2, PagesAreWhole
      <3> QED
        BY <1>2, <1>5, <2>1, <3>3, <3>4
    <2> QED
      BY <1>8, <2>3, <2>4
  <1>10. ASSUME NEW k \in 0 .. GotUsed - 1
         PROVE  (GotBase + k) \div Page \in sealed
    <2>1. GotUsed # 0 /\ k < GotSize /\ k \in Nat
      BY <1>2
    <2>2. 1 \in DOMAIN relro /\ relro[1] = [base |-> GotBase, size |-> GotSize]
      BY <1>1, <2>1, SegmentsAre
    <2>3. GotBase + k \in GotBase .. GotBase + GotSize - 1
      BY <1>2, <2>1
    <2>4. (GotBase + k) \div Page \in PagesOf(relro[1])
      BY <2>2, <2>3 DEF PagesOf
    <2> QED
      BY <1>7, <2>2, <2>4
  <1> QED
    BY <1>9, <1>10

THEOREM GotAloneIsSealed == PieSpec => []OnlyTheGotIsSealed
  <1>1. CollectInv /\ SealInv /\ [PieNext \/ Ended]_pieVars => (CollectInv /\ SealInv)'
    BY CollectInvStep, SealInvStep
  <1> QED
    BY <1>1, CollectInvInit, SealInvInit, SealInvSeals, PTL DEF PieSpec

-----------------------------------------------------------------------------
(* The tables.                                                             *)

Built == phase \notin {"collect", "got", "failed", "plain"}
Increasing(list) ==
    /\ \A k \in DOMAIN list : list[k].at % Word = 0
    /\ \A i, j \in DOMAIN list : i < j => list[i].at < list[j].at

TableInv ==
    /\ Built => rela = RelaTable
    /\ phase \in {"encode", "bitmap"} => link.packed
    /\ Built /\ link.packed => Increasing(relative)
    /\ ~Built \/ ~link.packed => relr = <<>> \/ phase = "failed"
    /\ phase = "resolver" => next \in DOMAIN rela /\ rela[next].kind = "irelative"

(* What is wanted at an address is what was collected for it.              *)
LEMMA WantedIs ==
    ASSUME CollectInv, Built, NEW a, NEW s
    PROVE  s \in Wanted(a) <=>
              \/ Kind[s] = "object" /\ Here(a, s) \in Range(relative)
              \/ Kind[s] = "ifunc" /\ Here(a, s) \in Range(irelative)
  <1>1. /\ link \in Links /\ RequestsBefore(Len(link.requests) + 1)
        /\ SlotsBefore(Len(GotNames) + 1)
    BY DEF CollectInv, Built
  <1>2. link.requests \in Seq(Request) /\ GotNames \in Seq(Names)
    BY <1>1, ImageTypes
  <1>3. ASSUME s \in Requested(a) PROVE Gathered(a, s)
    <2>1. PICK i \in DOMAIN link.requests :
             /\ link.requests[i].section # "text" /\ Address(link.requests[i]) = a
             /\ link.requests[i].symbol = s
      BY <1>3 DEF Requested, Range
    <2>2. i < Len(link.requests) + 1
      BY <1>2
    <2> QED
      BY <1>1, <2>1, <2>2 DEF RequestsBefore
  <1>4. ASSUME s \in Slotted(a) PROVE Gathered(a, s)
    <2>1. PICK k \in DOMAIN GotNames : GotNames[k] = s /\ Slot(GotNames[k]) = a
      BY <1>4 DEF Slotted, Range
    <2>2. k < Len(GotNames) + 1
      BY <1>2
    <2> QED
      BY <1>1, <2>1, <2>2 DEF SlotsBefore
  <1>5. Here(a, s).at = a /\ Here(a, s).symbol = s
    BY DEF Here
  <1>6. ASSUME Kind[s] = "object", Here(a, s) \in Range(relative) PROVE s \in Wanted(a)
    BY <1>5, <1>6 DEF CollectInv, Wanted
  <1>7. ASSUME Kind[s] = "ifunc", Here(a, s) \in Range(irelative) PROVE s \in Wanted(a)
    BY <1>5, <1>7 DEF CollectInv, Wanted
  <1>8. ASSUME s \in Wanted(a)
        PROVE  \/ Kind[s] = "object" /\ Here(a, s) \in Range(relative)
               \/ Kind[s] = "ifunc" /\ Here(a, s) \in Range(irelative)
    <2>1. s \in Requested(a) \cup Slotted(a) /\ Kind[s] \in {"object", "ifunc"}
      BY <1>8 DEF Wanted
    <2>2. Gathered(a, s)
      BY <1>3, <1>4, <2>1
    <2> QED
      BY <2>1, <2>2 DEF Gathered
  <1> QED
    BY <1>6, <1>7, <1>8

LEMMA TableInvInit == PieInit => TableInv
  BY DEF PieInit, TableInv, Built

(* The checks before the encoding leave distinct, aligned targets.         *)
LEMMA CheckedIsIncreasing ==
    ASSUME relative \in Seq(Entry), Bad(ByTarget) = {}
    PROVE  Increasing(ByTarget)
  <1> DEFINE D == DOMAIN ByTarget
  <1>1. /\ ByTarget \in Seq(Entry)
        /\ \A i, j \in D : i < j => ByTarget[i].at <= ByTarget[j].at
    BY SortedByTarget
  <1>2. PICK n \in Nat : D = 1 .. n
    BY <1>1
  <1>3. ASSUME NEW k \in D PROVE ByTarget[k].at \in Nat
    <2>1. ByTarget[k] \in Entry
      BY <1>1
    <2> QED
      BY <2>1 DEF Entry
  <1>4. \A k \in D : ByTarget[k].at % Word = 0 /\ ~(k > 1 /\ ByTarget[k].at = ByTarget[k - 1].at)
    BY DEF Bad
  <1>5. ASSUME NEW i \in D, NEW j \in D, i < j
        PROVE  ByTarget[i].at < ByTarget[j].at
    <2>1. j - 1 \in D /\ i <= j - 1 /\ j > 1 /\ j - 1 < j /\ i \in Nat /\ j \in Nat
      BY <1>2, <1>5
    <2>2. ByTarget[i].at <= ByTarget[j - 1].at
      <3>1. CASE i = j - 1
        BY <1>3, <2>1, <3>1
      <3>2. CASE i < j - 1
        BY <1>1, <2>1, <3>2
      <3> QED
        BY <2>1, <3>1, <3>2
    <2>3. ByTarget[j - 1].at <= ByTarget[j].at /\ ByTarget[j].at # ByTarget[j - 1].at
      BY <1>1, <1>4, <2>1
    <2> QED
      BY <1>3, <2>1, <2>2, <2>3
  <1> QED
    BY <1>4, <1>5 DEF Increasing

LEMMA TableInvStep ==
    CollectInv /\ SealInv /\ TableInv /\ [PieNext \/ Ended]_pieVars => TableInv'
  <1> SUFFICES ASSUME CollectInv, SealInv, TableInv, [PieNext \/ Ended]_pieVars PROVE TableInv'
    OBVIOUS
  <1>1. /\ link \in Links /\ next \in Nat \ {0} /\ relative \in Seq(Entry)
        /\ irelative \in Seq(Entry) /\ rela \in Seq(Row)
    BY DEF CollectInv, SealInv
  <1>2. CASE CollectDirect \/ StartGot \/ CollectGot
    <2>1. /\ UNCHANGED relr /\ phase \in {"collect", "got"} /\ phase' \in {"collect", "got", "failed"}
          /\ relr = <<>>
      BY <1>2 DEF CollectDirect, StartGot, CollectGot, Refuse, Pass, Keep, tables, TableInv, Built
    <2> QED
      BY <2>1 DEF TableInv, Built
  <1>3. CASE BuildTables
    <2>1. phase = "got" /\ UNCHANGED <<relr, link>> /\ relr = <<>>
      BY <1>3 DEF BuildTables, Refuse, tables, TableInv, Built
    <2>2. CASE phase' \in {"plain", "failed"}
      BY <2>1, <2>2 DEF TableInv, Built
    <2>3. CASE ~link.packed /\ phase' = "layout" /\ rela' = RelaTable /\ UNCHANGED <<relative, irelative>>
      BY <2>1, <2>3 DEF TableInv, Built, RelaTable, RelaEntries
    <2>4. CASE /\ link.packed /\ phase' = "encode" /\ rela' = RelaTable /\ UNCHANGED irelative
               /\ relative' = ByTarget /\ Bad(ByTarget) = {}
      <3>1. Increasing(ByTarget)
        BY <1>1, <2>4, CheckedIsIncreasing
      <3>2. Increasing(relative)'
        BY <2>4, <3>1 DEF Increasing
      <3>3. RelaTable' = RelaTable
        BY <2>1, <2>4 DEF RelaTable, RelaEntries
      <3> QED
        BY <2>1, <2>4, <3>2, <3>3 DEF TableInv, Built
    <2> QED
      BY <1>3, <2>1, <2>2, <2>3, <2>4, PieAssumption DEF BuildTables, Refuse, tables
  <1>4. ASSUME UNCHANGED <<link, relative, irelative, rela>>, Built,
               phase' # "plain", phase' # "collect", phase' # "got",
               relr' = relr \/ link.packed,
               phase' \in {"encode", "bitmap"} => phase \in {"encode", "bitmap"},
               phase' = "resolver" => phase = "rela" /\ next' = next /\ next \in DOMAIN rela
                                         /\ rela[next].kind = "irelative"
        PROVE  TableInv'
    <2>1. RelaTable' = RelaTable /\ Increasing(relative)' = Increasing(relative)
      BY <1>4 DEF RelaTable, RelaEntries, Increasing
    <2> QED
      BY <1>4, <2>1 DEF TableInv, Built
  <1>5. CASE EncodeDirect \/ EncodeBitmap \/ EndRun \/ EncodeNothing \/ LayOutRuntime
    <2>1. phase \in {"encode", "bitmap"} => link.packed
      BY DEF TableInv
    <2> QED
      BY <1>4, <1>5, <2>1 DEF EncodeDirect, EncodeBitmap, EndRun, EncodeNothing, LayOutRuntime,
         Refuse, tables, Built
  <1>6. CASE RelrDirect \/ RelrBitmap \/ RelrDone \/ StoreRelative \/ ResolverReturns \/ RelaDone
    BY <1>4, <1>6 DEF RelrDirect, RelrBitmap, RelrDone, StoreRelative, ResolverReturns, RelaDone,
       tables, Built
  <1>7. CASE CallResolver
    <2>1. next \in DOMAIN rela
      BY <1>1, <1>7 DEF CallResolver
    <2> QED
      BY <1>4, <1>7, <2>1 DEF CallResolver, tables, Built
  <1>8. CASE Sealing
    BY <1>4, <1>8 DEF Sealing, SealSegment, SealFails, EnterUser, tables, Built
  <1>9. CASE UNCHANGED pieVars
    BY <1>9 DEF pieVars, tables, TableInv, Built, RelaTable, RelaEntries, Increasing
  <1> QED
    BY <1>2, <1>3, <1>5, <1>6, <1>7, <1>8, <1>9
       DEF PieNext, Ended, Collecting, Encoding, Relocating

-----------------------------------------------------------------------------
(* The packed table and its reader.                                        *)

(* After i entries, e holds the words of the list after lo up to hi, and   *)
(* who reads it standing at base then stands at x.  The first is no bitmap.*)
Holds(list, e, i, base, lo, x, hi) ==
    /\ lo <= hi /\ hi <= Len(list)
    /\ \/ /\ e.kind = "direct" /\ hi = lo + 1
          /\ e.at = list[hi].at /\ x = e.at + Word
       \/ /\ e.kind = "bitmap" /\ i > 0 /\ x = base + BitmapSlots * Word
          /\ {base + Word * k : k \in e.slots \cap 0 .. BitmapSlots - 1} =
                {list[k].at : k \in lo + 1 .. hi}

(* The first i entries hold the first l[i] targets and end at b[i].        *)
Encodes(b, l) ==
    /\ b \in [0 .. Len(relr) -> Nat] /\ l \in [0 .. Len(relr) -> Nat] /\ l[0] = 0
    /\ \A i \in 0 .. Len(relr) - 1 :
          Holds(relative, relr[i + 1], i, b[i], l[i], b[i + 1], l[i + 1])

(* The addends are in the words, and the first n words have been moved.    *)
MovedUpTo(n) ==
    \A a \in DOMAIN memory :
        /\ \A j \in DOMAIN relative : relative[j].at = a =>
              memory[a] = IF j <= n THEN Moved(Linked(relative[j].symbol))
                          ELSE Linked(relative[j].symbol)
        /\ (\A j \in DOMAIN relative : relative[j].at # a) => memory[a] = LinkTime(a)

Standing(b, l) ==
    /\ phase \in {"encode", "bitmap"} => l[Len(relr)] = next - 1
    /\ phase = "bitmap" =>
          /\ Len(relr) # 0 /\ cursor = b[Len(relr)] /\ cursor % Word = 0
          /\ next <= Len(relative) => cursor <= relative[next].at
    /\ phase \in {"layout", "relr"} => l[Len(relr)] = Len(relative)
    /\ phase \in {"encode", "bitmap", "layout"} => MovedUpTo(0)
    /\ phase = "relr" => /\ next \in 1 .. Len(relr) + 1 /\ MovedUpTo(l[next - 1])
                         /\ next > 1 => cursor = b[next - 1]

RelrInv ==
    link.packed /\ phase \in {"encode", "bitmap", "layout", "relr"} =>
        \E b, l : Encodes(b, l) /\ Standing(b, l)

(* Words are as the linker wrote them until their table is gone through.   *)
AsLinked == \A a \in DOMAIN memory : memory[a] = LinkTime(a)
RelocatedBefore(n) ==
    \A a \in DOMAIN memory :
        /\ Wanted(a) = {} => memory[a] = LinkTime(a)
        /\ (\/ \E j \in DOMAIN rela : j < n /\ rela[j].at = a
            \/ link.packed /\ \E j \in DOMAIN relative : relative[j].at = a) =>
              \E s \in Wanted(a) : memory[a] = Final(s)

MemoryInv ==
    /\ phase \in {"collect", "got"} => AsLinked
    /\ phase \in {"layout", "relr"} /\ ~link.packed => AsLinked
    /\ phase \in {"rela", "resolver"} => RelocatedBefore(next)
    /\ phase \in {"seal", "user"} => RelocatedBefore(Len(rela) + 1)

(* One more entry.                                                         *)
LEMMA EncodesMore ==
    ASSUME NEW S, relr \in Seq(S), NEW b, NEW l, Encodes(b, l),
           NEW e, relr' = Append(relr, e), UNCHANGED relative,
           NEW x \in Nat, NEW m \in Nat,
           Holds(relative, e, Len(relr), b[Len(relr)], l[Len(relr)], x, m)
    PROVE  \E c, k : /\ Encodes(c, k)'
                     /\ c[Len(relr')] = x /\ k[Len(relr')] = m
  <1>1. PICK n \in Nat : n = Len(relr)
    OBVIOUS
  <1>2. /\ Len(relr') = n + 1 /\ relr'[n + 1] = e
        /\ \A i \in 1 .. n : relr'[i] = relr[i]
    BY <1>1
  <1> DEFINE c == [i \in 0 .. n + 1 |-> IF i = n + 1 THEN x ELSE b[i]]
             k == [i \in 0 .. n + 1 |-> IF i = n + 1 THEN m ELSE l[i]]
  <1>3. Holds(relative, e, n, b[n], l[n], x, m)
    BY <1>1
  <1>4. /\ b \in [0 .. n -> Nat] /\ l \in [0 .. n -> Nat] /\ l[0] = 0
        /\ \A i \in 0 .. n - 1 : Holds(relative, relr[i + 1], i, b[i], l[i], b[i + 1], l[i + 1])
    BY <1>1 DEF Encodes
  <1>5. /\ c \in [0 .. n + 1 -> Nat] /\ k \in [0 .. n + 1 -> Nat] /\ k[0] = 0
        /\ c[n + 1] = x /\ k[n + 1] = m
        /\ \A i \in 0 .. n : c[i] = b[i] /\ k[i] = l[i]
    BY <1>4
  <1> HIDE DEF c, k
  <1>7. ASSUME NEW i \in 0 .. n
        PROVE  Holds(relative, relr'[i + 1], i, c[i], k[i], c[i + 1], k[i + 1])
    <2>1. CASE i = n
      <3>1. /\ c[i] = b[n] /\ k[i] = l[n] /\ c[i + 1] = x /\ k[i + 1] = m
            /\ relr'[i + 1] = e
        BY <1>2, <1>5, <2>1
      <3> QED
        BY <1>3, <2>1, <3>1
    <2>2. CASE i \in 0 .. n - 1
      <3>1. /\ c[i] = b[i] /\ k[i] = l[i] /\ c[i + 1] = b[i + 1] /\ k[i + 1] = l[i + 1]
            /\ relr'[i + 1] = relr[i + 1]
        BY <1>2, <1>5, <2>2
      <3> QED
        BY <1>4, <2>2, <3>1
    <2>3. i = n \/ i \in 0 .. n - 1
      OBVIOUS
    <2> QED
      BY <2>1, <2>2, <2>3
  <1>8. Encodes(c, k)'
    BY <1>2, <1>5, <1>7 DEF Encodes
  <1> QED
    BY <1>2, <1>5, <1>8

LEMMA EncodesKept ==
    ASSUME UNCHANGED <<relr, relative>>, NEW b, NEW l, Encodes(b, l)
    PROVE  Encodes(b, l)'
  BY DEF Encodes

LEMMA MovedKept ==
    ASSUME UNCHANGED <<link, relative, memory>>, NEW n, MovedUpTo(n)
    PROVE  MovedUpTo(n)'
  BY SameLink DEF MovedUpTo

(* The addends are written where the targets are.                          *)
LEMMA MaterializedIs ==
    ASSUME relative \in Seq(Entry), AsLinked, Increasing(ByTarget),
           relative' = ByTarget, memory' = Materialized(ByTarget), UNCHANGED link
    PROVE  MovedUpTo(0)'
  <1> DEFINE D == DOMAIN ByTarget
  <1>1. ByTarget \in Seq(Entry)
    BY SortedByTarget
  <1>2. PICK n \in Nat : D = 1 .. n
    BY <1>1
  <1>3. ASSUME NEW i \in D, NEW j \in D, ByTarget[i].at = ByTarget[j].at
        PROVE  i = j
    <2>1. /\ i < j => ByTarget[i].at < ByTarget[j].at
          /\ j < i => ByTarget[j].at < ByTarget[i].at
      BY DEF Increasing
    <2>2. ByTarget[i] \in Entry /\ ByTarget[j] \in Entry
      BY <1>1
    <2>3. ByTarget[i].at \in Nat /\ ByTarget[j].at \in Nat
      BY <2>2 DEF Entry
    <2> QED
      BY <1>2, <1>3, <2>1, <2>3
  <1>4. ASSUME NEW a \in DOMAIN memory, NEW j \in D, ByTarget[j].at = a
        PROVE  memory'[a] = Linked(ByTarget[j].symbol)
    <2> DEFINE held == {x \in Range(ByTarget) : x.at = a}
    <2>1. ByTarget[j] \in held
      BY <1>4 DEF Range
    <2>2. \A x \in held : x = ByTarget[j]
      <3> SUFFICES ASSUME NEW x \in held PROVE x = ByTarget[j]
        OBVIOUS
      <3>1. PICK i \in D : x = ByTarget[i]
        BY DEF Range
      <3> QED
        BY <1>3, <1>4, <3>1
    <2>3. (CHOOSE x \in held : TRUE) = ByTarget[j]
      BY <2>1, <2>2
    <2>4. held # {}
      BY <2>1
    <2>5. memory'[a] = IF held = {} THEN memory[a] ELSE Linked((CHOOSE x \in held : TRUE).symbol)
      BY DEF Materialized
    <2> HIDE DEF held
    <2> QED
      BY <2>3, <2>4, <2>5
  <1>5. ASSUME NEW a \in DOMAIN memory, \A j \in D : ByTarget[j].at # a
        PROVE  memory'[a] = LinkTime(a)
    <2>1. {x \in Range(ByTarget) : x.at = a} = {}
      BY <1>5 DEF Range
    <2>2. memory'[a] = memory[a]
      BY <2>1 DEF Materialized
    <2> QED
      BY <2>2 DEF AsLinked
  <1>6. DOMAIN memory' = DOMAIN memory
    BY DEF Materialized
  <1>7. \A j \in D : ~(j <= 0)
    BY <1>2
  <1> QED
    BY <1>4, <1>5, <1>6, <1>7, SameLink DEF MovedUpTo

(* The start-up code adds the bias to the next words of the list.          *)
LEMMA MovesOn ==
    ASSUME relative \in Seq(Entry), Increasing(relative),
           NEW lo \in Nat, NEW hi \in Nat, lo <= hi, hi <= Len(relative), MovedUpTo(lo),
           AddBias({relative[k].at : k \in lo + 1 .. hi}), UNCHANGED <<link, relative>>
    PROVE  MovedUpTo(hi)'
  <1> DEFINE targets == {relative[k].at : k \in lo + 1 .. hi}
             D == DOMAIN relative
  <1>1. PICK n \in Nat : D = 1 .. n /\ hi <= n
    OBVIOUS
  <1>2. ASSUME NEW i \in D, NEW j \in D, relative[i].at = relative[j].at
        PROVE  i = j
    <2>1. /\ i < j => relative[i].at < relative[j].at
          /\ j < i => relative[j].at < relative[i].at
      BY DEF Increasing
    <2>2. relative[i] \in Entry /\ relative[j] \in Entry
      OBVIOUS
    <2>3. relative[i].at \in Nat /\ relative[j].at \in Nat
      BY <2>2 DEF Entry
    <2> QED
      BY <1>1, <1>2, <2>1, <2>3
  <1>3. /\ DOMAIN memory' = DOMAIN memory
        /\ \A a \in DOMAIN memory :
              memory'[a] = IF a \in targets THEN Moved(memory[a]) ELSE memory[a]
    BY DEF AddBias
  <1>4. ASSUME NEW j \in D
        PROVE  relative[j].at \in targets <=> j > lo /\ j <= hi
    <2>1. ASSUME relative[j].at \in targets PROVE j > lo /\ j <= hi
      <3>1. PICK k \in lo + 1 .. hi : relative[k].at = relative[j].at
        BY <2>1
      <3>2. k \in D
        BY <1>1, <3>1
      <3> QED
        BY <1>2, <3>1, <3>2
    <2>2. ASSUME j > lo /\ j <= hi PROVE relative[j].at \in targets
      <3>1. j \in lo + 1 .. hi
        BY <1>1, <2>2
      <3> QED
        BY <3>1
    <2> QED
      BY <2>1, <2>2
  <1>5. ASSUME NEW a \in DOMAIN memory, \A j \in D : relative[j].at # a
        PROVE  a \notin targets
    BY <1>1, <1>5
  <1> HIDE DEF targets
  <1>6. ASSUME NEW a \in DOMAIN memory, NEW j \in D, relative[j].at = a
        PROVE  memory'[a] = IF j <= hi THEN Moved(Linked(relative[j].symbol))
                            ELSE Linked(relative[j].symbol)
    <2>1. memory[a] = IF j <= lo THEN Moved(Linked(relative[j].symbol))
                      ELSE Linked(relative[j].symbol)
      BY <1>6 DEF MovedUpTo
    <2>2. a \in targets <=> j > lo /\ j <= hi
      BY <1>4, <1>6
    <2>3. j \in Nat
      BY <1>1
    <2> HIDE DEF D
    <2> QED
      BY <1>3, <2>1, <2>2, <2>3
  <1>7. ASSUME NEW a \in DOMAIN memory, \A j \in D : relative[j].at # a
        PROVE  memory'[a] = LinkTime(a)
    <2>1. memory[a] = LinkTime(a)
      BY <1>7 DEF MovedUpTo
    <2> QED
      BY <1>3, <1>5, <1>7, <2>1
  <1> QED
    BY <1>3, <1>6, <1>7, SameLink DEF MovedUpTo

-----------------------------------------------------------------------------
(* The encoder.                                                            *)

LEMMA DirectEncodes ==
    CollectInv /\ SealInv /\ TableInv /\ RelrInv /\ EncodeDirect => RelrInv'
  <1> SUFFICES ASSUME CollectInv, SealInv, TableInv, RelrInv, EncodeDirect PROVE RelrInv'
    OBVIOUS
  <1> DEFINE e == [kind |-> "direct", at |-> relative[next].at]
             x == relative[next].at + Word
  <1>1. /\ relative \in Seq(Entry) /\ next \in Nat \ {0} /\ next <= Len(relative)
        /\ phase = "encode" /\ link.packed /\ Increasing(relative)
        /\ UNCHANGED <<link, relative, memory>> /\ next' = next + 1 /\ phase' = "bitmap"
        /\ cursor' = x /\ relr' = Append(relr, e)
    BY DEF CollectInv, EncodeDirect, TableInv, Built
  <1>2. PICK S : relr \in Seq(S)
    BY DEF SealInv
  <1>3. PICK b, l : Encodes(b, l) /\ Standing(b, l)
    BY <1>1 DEF RelrInv
  <1>4. l[Len(relr)] = next - 1 /\ MovedUpTo(0)
    BY <1>1, <1>3 DEF Standing
  <1>5. ASSUME NEW k \in DOMAIN relative
        PROVE  relative[k].at \in Nat /\ relative[k].at % Word = 0
    <2>1. relative[k] \in Entry
      BY <1>1
    <2> QED
      BY <1>1, <2>1 DEF Entry, Increasing
  <1>6. Word \in Nat \ {0} /\ next \in DOMAIN relative
    BY <1>1, PieAssumption
  <1>7. PICK t \in Nat : t = relative[next].at /\ t % Word = 0
    BY <1>5, <1>6
  <1>8. x \in Nat /\ x % Word = 0
    <2>1. Word % Word = 0
      BY <1>6
    <2>2. (t + Word) % Word = 0
      BY <1>6, <1>7, <2>1, SumOfMultiples
    <2> QED
      BY <1>6, <1>7, <2>2
  <1>9. next + 1 <= Len(relative) => x <= relative[next + 1].at
    <2> SUFFICES ASSUME next + 1 <= Len(relative) PROVE x <= relative[next + 1].at
      OBVIOUS
    <2>1. next + 1 \in DOMAIN relative /\ next < next + 1
      BY <1>1
    <2>2. PICK u \in Nat : u = relative[next + 1].at /\ u % Word = 0
      BY <1>5, <2>1
    <2>3. t < u
      BY <1>1, <1>6, <1>7, <2>1, <2>2 DEF Increasing
    <2>4. t + Word <= u
      BY <1>6, <1>7, <2>2, <2>3, NextMultiple
    <2> QED
      BY <1>7, <2>2, <2>4
  <1>10. Holds(relative, e, Len(relr), b[Len(relr)], l[Len(relr)], x, next)
    <2>1. e.kind = "direct" /\ e.at = relative[next].at
      OBVIOUS
    <2> HIDE DEF e
    <2> QED
      BY <1>1, <1>4, <2>1 DEF Holds
  <1> HIDE DEF e, x
  <1>11. PICK c, k : Encodes(c, k)' /\ c[Len(relr')] = x /\ k[Len(relr')] = next
    BY <1>1, <1>2, <1>3, <1>8, <1>10, EncodesMore
  <1>12. MovedUpTo(0)'
    BY <1>1, <1>4, MovedKept
  <1>13. Len(relr') # 0
    BY <1>1, <1>2
  <1>14. Standing(c, k)'
    BY <1>1, <1>8, <1>9, <1>11, <1>12, <1>13 DEF Standing
  <1> QED
    BY <1>11, <1>14 DEF RelrInv

LEMMA BitmapEncodes ==
    CollectInv /\ SealInv /\ TableInv /\ RelrInv /\ EncodeBitmap => RelrInv'
  <1> SUFFICES ASSUME CollectInv, SealInv, TableInv, RelrInv, EncodeBitmap PROVE RelrInv'
    OBVIOUS
  <1> DEFINE taken == {k \in next .. Len(relative) : Within(relative[k].at)}
             e == [kind |-> "bitmap",
                   slots |-> {(relative[k].at - cursor) \div Word : k \in taken}]
             m == Max(taken)
  <1>1. /\ relative \in Seq(Entry) /\ next \in Nat \ {0} /\ next <= Len(relative)
        /\ phase = "bitmap" /\ link.packed /\ Increasing(relative)
        /\ UNCHANGED <<link, relative, memory, phase>> /\ Within(relative[next].at)
        /\ next' = m + 1 /\ relr' = Append(relr, e)
        /\ cursor' = cursor + BitmapSlots * Word
    BY DEF CollectInv, EncodeBitmap, TableInv, Built
  <1>2. PICK S : relr \in Seq(S)
    BY DEF SealInv
  <1>3. PICK b, l : Encodes(b, l) /\ Standing(b, l)
    BY <1>1 DEF RelrInv
  <1>4. /\ l[Len(relr)] = next - 1 /\ MovedUpTo(0) /\ Len(relr) # 0 /\ Len(relr) \in Nat
        /\ cursor = b[Len(relr)] /\ cursor % Word = 0 /\ cursor <= relative[next].at
        /\ cursor \in Nat
    BY <1>1, <1>2, <1>3 DEF Standing, Encodes
  <1>5. ASSUME NEW k \in DOMAIN relative
        PROVE  relative[k].at \in Nat /\ relative[k].at % Word = 0
    <2>1. relative[k] \in Entry
      BY <1>1
    <2> QED
      BY <1>1, <2>1 DEF Entry, Increasing
  <1>6. Word \in Nat \ {0} /\ BitmapSlots \in Nat \ {0}
    BY PieAssumption
  <1>7. PICK reach \in Nat : reach = BitmapSlots * Word /\ reach % Word = 0
    BY <1>6, MultipleOf
  <1>8. PICK n \in Nat : n = Len(relative) /\ DOMAIN relative = 1 .. n
    BY <1>1
  <1>9. m \in taken /\ \A k \in taken : k <= m
    BY <1>1, TakenIs
  <1>10. m \in next .. n /\ Within(relative[m].at)
    BY <1>8, <1>9
  <1>11. \A at : Within(at) <=> at - cursor < reach
    BY <1>7 DEF Within
  <1>12. ASSUME NEW k \in next .. n
         PROVE  k \in taken <=> k <= m
    <2>0. k \in DOMAIN relative /\ m \in DOMAIN relative
      BY <1>1, <1>8, <1>10
    <2> HIDE DEF taken, m
    <2>1. relative[k].at \in Nat /\ relative[m].at \in Nat
      BY <1>5, <2>0
    <2>2. k < m => relative[k].at < relative[m].at
      BY <1>1, <2>0 DEF Increasing
    <2>3. ASSUME k <= m PROVE Within(relative[k].at)
      <3>1. relative[m].at - cursor < reach
        BY <1>10, <1>11
      <3>2. relative[k].at <= relative[m].at
        BY <1>10, <2>1, <2>2, <2>3
      <3>3. relative[k].at - cursor < reach
        BY <1>4, <2>1, <3>1, <3>2
      <3> QED
        BY <1>11, <3>3
    <2>4. k \in taken <=> Within(relative[k].at)
      BY <1>8 DEF taken
    <2> QED
      BY <1>9, <2>3, <2>4
  <1>13. taken = next .. m
    <2>1. taken \subseteq next .. n
      BY <1>8
    <2> HIDE DEF taken, m
    <2>2. next .. m \subseteq next .. n /\ \A k \in next .. n : k <= m <=> k \in next .. m
      BY <1>1, <1>8, <1>10
    <2> QED
      BY <1>12, <2>1, <2>2
  <1>14. ASSUME NEW k \in taken
         PROVE  /\ (relative[k].at - cursor) \div Word \in 0 .. BitmapSlots - 1
                /\ relative[k].at = cursor + Word * ((relative[k].at - cursor) \div Word)
    <2>1. k \in DOMAIN relative /\ next \in DOMAIN relative /\ next <= k
      BY <1>1, <1>8
    <2>2. PICK t \in Nat : t = relative[k].at /\ t % Word = 0
      BY <1>5, <2>1
    <2>3. relative[next].at \in Nat /\ (next < k => relative[next].at < relative[k].at)
      BY <1>1, <1>5, <2>1 DEF Increasing
    <2>4. cursor <= t /\ t - cursor < reach
      <3>1. t - cursor < reach
        BY <1>11, <2>2
      <3>2. k \in Nat /\ (next = k \/ next < k)
        BY <1>1, <1>8, <2>1
      <3>3. PICK f \in Nat : f = relative[next].at
        BY <2>3
      <3>4. f <= t
        BY <2>2, <2>3, <3>2, <3>3
      <3> QED
        BY <1>4, <3>1, <3>3, <3>4
    <2>5. PICK c \in Nat : c = cursor /\ c % Word = 0
      BY <1>4
    <2>6. c <= t /\ t - c < BitmapSlots * Word
      BY <1>7, <2>4, <2>5
    <2>7. (t - c) \div Word \in 0 .. BitmapSlots - 1 /\ t = c + Word * ((t - c) \div Word)
      BY <1>6, <2>2, <2>5, <2>6, WordAmong
    <2> QED
      BY <2>2, <2>5, <2>7
  <1> DEFINE slot(k) == (relative[k].at - cursor) \div Word
  <1>15. {cursor + Word * s : s \in e.slots \cap 0 .. BitmapSlots - 1} =
           {relative[k].at : k \in next .. m}
    <2>1. e.slots = {slot(k) : k \in taken}
      OBVIOUS
    <2>2. \A k \in taken : slot(k) \in 0 .. BitmapSlots - 1 /\ relative[k].at = cursor + Word * slot(k)
      BY <1>14
    <2> HIDE DEF slot, e
    <2>3. e.slots \cap 0 .. BitmapSlots - 1 = {slot(k) : k \in taken}
      BY <2>1, <2>2
    <2>4. {cursor + Word * s : s \in {slot(k) : k \in taken}} = {relative[k].at : k \in taken}
      BY <2>2
    <2> QED
      BY <1>13, <2>3, <2>4
  <1>16. PICK h \in Nat : h = m /\ next <= h /\ h <= n
    <2> HIDE DEF taken, m
    <2>1. PICK h \in next .. n : h = m
      BY <1>10
    <2> QED
      BY <1>1, <1>8, <2>1
  <1>17. PICK x \in Nat : x = cursor + reach
    BY <1>4
  <1>18. x % Word = 0
    <2>1. PICK c \in Nat : c = cursor /\ c % Word = 0
      BY <1>4
    <2>2. (c + reach) % Word = 0
      BY <1>6, <1>7, <2>1, SumOfMultiples
    <2> QED
      BY <1>17, <2>1, <2>2
  <1>19. h + 1 <= Len(relative) => x <= relative[h + 1].at
    <2> SUFFICES ASSUME h + 1 <= Len(relative) PROVE x <= relative[h + 1].at
      OBVIOUS
    <2>1. h + 1 \in next .. n /\ h + 1 \in DOMAIN relative /\ ~(h + 1 <= h)
      BY <1>1, <1>8, <1>16
    <2>2. h + 1 \notin taken
      BY <1>12, <1>16, <2>1
    <2>3. ~Within(relative[h + 1].at)
      BY <1>8, <2>1, <2>2
    <2>4. relative[h + 1].at \in Nat
      BY <1>5, <2>1
    <2> QED
      BY <1>4, <1>11, <1>17, <2>3, <2>4
  <1>20. Holds(relative, e, Len(relr), b[Len(relr)], l[Len(relr)], x, h)
    <2>1. e.kind = "bitmap"
      OBVIOUS
    <2>2. x = cursor + BitmapSlots * Word
      BY <1>7, <1>17
    <2>3. PICK lo \in Nat : lo = next - 1
      BY <1>1
    <2>4. lo <= h /\ Len(relr) > 0 /\ h <= Len(relative)
      BY <1>1, <1>4, <1>8, <1>16, <2>3
    <2> HIDE DEF e, m
    <2>5. lo + 1 .. h = next .. m
      BY <1>1, <1>16, <2>3
    <2>6. {cursor + Word * s : s \in e.slots \cap 0 .. BitmapSlots - 1} =
            {relative[k].at : k \in lo + 1 .. h}
      BY <1>15, <2>5
    <2>7. Holds(relative, e, Len(relr), cursor, lo, x, h)
      BY <2>1, <2>2, <2>4, <2>6 DEF Holds
    <2>8. cursor = b[Len(relr)] /\ lo = l[Len(relr)]
      BY <1>4, <2>3
    <2> QED
      BY <2>7, <2>8
  <1> HIDE DEF e, taken, m
  <1>21. PICK c, k : Encodes(c, k)' /\ c[Len(relr')] = x /\ k[Len(relr')] = h
    BY <1>1, <1>2, <1>3, <1>20, EncodesMore
  <1>22. MovedUpTo(0)'
    BY <1>1, <1>4, MovedKept
  <1>23. Len(relr') # 0
    BY <1>1, <1>2
  <1>24. next' = h + 1 /\ cursor' = x
    BY <1>1, <1>7, <1>16, <1>17
  <1>25. Standing(c, k)'
    BY <1>1, <1>16, <1>18, <1>19, <1>21, <1>22, <1>23, <1>24 DEF Standing
  <1> QED
    BY <1>21, <1>25 DEF RelrInv

(* Encoding starts with an empty table, or takes its end.                  *)
LEMMA TablesEncode ==
    CollectInv /\ TableInv /\ MemoryInv /\ BuildTables => RelrInv'
  <1> SUFFICES ASSUME CollectInv, TableInv, MemoryInv, BuildTables, link'.packed,
                      phase' \in {"encode", "bitmap", "layout", "relr"}
               PROVE  \E b, l : (Encodes(b, l) /\ Standing(b, l))'
    BY DEF RelrInv
  <1>1. /\ phase = "got" /\ UNCHANGED <<link, relr>> /\ relr = <<>> /\ AsLinked
        /\ relative \in Seq(Entry)
    BY DEF CollectInv, BuildTables, Refuse, tables, TableInv, MemoryInv, Built
  <1>2. /\ phase' = "encode" /\ next' = 1 /\ relative' = ByTarget
        /\ memory' = Materialized(ByTarget) /\ Bad(ByTarget) = {}
    BY <1>1 DEF BuildTables, Refuse
  <1>3. Increasing(ByTarget)
    BY <1>1, <1>2, CheckedIsIncreasing
  <1>4. MovedUpTo(0)'
    BY <1>1, <1>2, <1>3, MaterializedIs
  <1> DEFINE none == [i \in 0 .. 0 |-> 0]
  <1>5. Len(relr') = 0 /\ none \in [0 .. 0 -> Nat] /\ none[0] = 0
    BY <1>1
  <1> HIDE DEF none
  <1>6. Encodes(none, none)'
    BY <1>5 DEF Encodes
  <1>7. Standing(none, none)'
    BY <1>2, <1>4, <1>5 DEF Standing
  <1> QED
    BY <1>6, <1>7

LEMMA RunEnds ==
    CollectInv /\ SealInv /\ TableInv /\ RelrInv /\ (EndRun \/ EncodeNothing \/ LayOutRuntime)
        => RelrInv'
  <1> SUFFICES ASSUME CollectInv, SealInv, TableInv, RelrInv,
                      EndRun \/ EncodeNothing \/ LayOutRuntime, link'.packed,
                      phase' \in {"encode", "bitmap", "layout", "relr"}
               PROVE  \E b, l : (Encodes(b, l) /\ Standing(b, l))'
    BY DEF RelrInv
  <1>1. /\ UNCHANGED <<link, relative, relr, memory, cursor>>
        /\ phase \in {"encode", "bitmap", "layout"} /\ link.packed
        /\ relative \in Seq(Entry) /\ next \in Nat \ {0}
    BY DEF CollectInv, EndRun, EncodeNothing, LayOutRuntime, Refuse, tables
  <1>2. PICK b, l : Encodes(b, l) /\ Standing(b, l)
    BY <1>1 DEF RelrInv
  <1>3. PICK S : relr \in Seq(S)
    BY DEF SealInv
  <1>4. PICK n \in Nat : n = Len(relr)
    BY <1>3
  <1>5. l[n] \in Nat /\ l[n] <= Len(relative) /\ l[0] = 0
    <2>1. l \in [0 .. n -> Nat] /\ l[0] = 0
      BY <1>2, <1>4 DEF Encodes
    <2>2. CASE n = 0
      BY <1>1, <2>1, <2>2
    <2>3. CASE n # 0
      <3>1. n - 1 \in 0 .. n - 1 /\ (n - 1) + 1 = n
        BY <2>3
      <3>2. Holds(relative, relr[(n - 1) + 1], n - 1, b[n - 1], l[n - 1], b[(n - 1) + 1], l[(n - 1) + 1])
        BY <1>2, <1>4, <3>1 DEF Encodes
      <3>3. l[(n - 1) + 1] <= Len(relative)
        BY <3>2 DEF Holds
      <3> QED
        BY <2>1, <3>1, <3>3
    <2> QED
      BY <2>2, <2>3
  <1>6. Encodes(b, l)'
    BY <1>1, <1>2, EncodesKept
  <1>7. MovedUpTo(0)'
    BY <1>1, <1>2, MovedKept DEF Standing
  <1>8. CASE EndRun
    <2>1. /\ phase = "bitmap" /\ next' = next
          /\ phase' = IF next > Len(relative) THEN "layout" ELSE "encode"
      BY <1>8 DEF EndRun
    <2>2. l[n] = next - 1
      BY <1>2, <1>4, <2>1 DEF Standing
    <2>3. phase' = "layout" => l[n] = Len(relative)
      BY <1>1, <1>5, <2>1, <2>2
    <2>4. Standing(b, l)'
      BY <1>1, <1>4, <1>7, <2>1, <2>2, <2>3 DEF Standing
    <2> QED
      BY <1>6, <2>4
  <1>9. CASE EncodeNothing
    <2>1. phase = "encode" /\ phase' = "layout" /\ relative = <<>>
      BY <1>9 DEF EncodeNothing
    <2>2. l[n] = Len(relative)
      BY <1>5, <2>1
    <2>3. Standing(b, l)'
      BY <1>1, <1>4, <1>7, <2>1, <2>2 DEF Standing
    <2> QED
      BY <1>6, <2>3
  <1>10. CASE LayOutRuntime
    <2>1. phase = "layout" /\ phase' = "relr" /\ next' = 1
      BY <1>10 DEF LayOutRuntime, Refuse
    <2>2. l[n] = Len(relative) /\ l[next' - 1] = 0
      BY <1>2, <1>4, <1>5, <2>1 DEF Standing
    <2>3. MovedUpTo(l[next - 1])'
      <3>1. PICK z : z = 0 /\ l[next' - 1] = z
        BY <2>2
      <3>2. MovedUpTo(z)'
        BY <1>7, <3>1
      <3> QED
        BY <3>1, <3>2 DEF MovedUpTo
    <2>4. Standing(b, l)'
      BY <1>1, <1>4, <2>1, <2>2, <2>3 DEF Standing
    <2> QED
      BY <1>6, <2>4
  <1> QED
    BY <1>8, <1>9, <1>10

-----------------------------------------------------------------------------
(* The start-up code.                                                      *)

LEMMA EntryMoves ==
    CollectInv /\ SealInv /\ TableInv /\ RelrInv /\ (RelrDirect \/ RelrBitmap) => RelrInv'
  <1> SUFFICES ASSUME CollectInv, SealInv, TableInv, RelrInv, RelrDirect \/ RelrBitmap, link'.packed
               PROVE  \E b, l : (Encodes(b, l) /\ Standing(b, l))'
    BY DEF RelrInv
  <1>1. /\ UNCHANGED <<link, phase, relative, relr>> /\ next' = next + 1
        /\ phase = "relr" /\ link.packed /\ Increasing(relative)
        /\ relative \in Seq(Entry) /\ next \in Nat \ {0} /\ next <= Len(relr)
    BY DEF CollectInv, TableInv, Built, RelrDirect, RelrBitmap, tables
  <1>2. PICK b, l : Encodes(b, l) /\ Standing(b, l)
    BY <1>1 DEF RelrInv
  <1>3. PICK S : relr \in Seq(S)
    BY DEF SealInv
  <1>4. PICK n \in Nat, i \in Nat : n = Len(relr) /\ next = i + 1 /\ i \in 0 .. n - 1
    BY <1>1, <1>3
  <1>5. /\ b \in [0 .. n -> Nat] /\ l \in [0 .. n -> Nat]
        /\ Holds(relative, relr[i + 1], i, b[i], l[i], b[i + 1], l[i + 1])
    BY <1>2, <1>4 DEF Encodes
  <1>6. l[n] = Len(relative) /\ (next > 1 => cursor = b[next - 1]) /\ MovedUpTo(l[next - 1])
    BY <1>1, <1>2, <1>4 DEF Standing
  <1>7. PICK lo \in Nat, hi \in Nat, base \in Nat, x \in Nat :
            lo = l[i] /\ hi = l[i + 1] /\ base = b[i] /\ x = b[i + 1]
    BY <1>4, <1>5
  <1> PICK e : e = relr[next]
    OBVIOUS
  <1>8. Holds(relative, e, i, base, lo, x, hi) /\ MovedUpTo(lo) /\ (i > 0 => cursor = base)
    BY <1>4, <1>5, <1>6, <1>7
  <1>9. lo <= hi /\ hi <= Len(relative)
    BY <1>8 DEF Holds
  <1>10. AddBias({relative[k].at : k \in lo + 1 .. hi}) /\ cursor' = x
    <2>1. CASE RelrDirect
      <3>1. /\ e.kind = "direct" /\ AddBias({e.at}) /\ cursor' = e.at + Word
        BY <1>7, <2>1 DEF RelrDirect
      <3>2. hi = lo + 1 /\ e.at = relative[hi].at /\ x = e.at + Word
        BY <1>8, <3>1 DEF Holds
      <3>3. {relative[k].at : k \in lo + 1 .. hi} = {e.at}
        <4>1. lo + 1 .. hi = {hi}
          BY <3>2
        <4> QED
          BY <3>2, <4>1
      <3> QED
        BY <3>1, <3>2, <3>3
    <2>2. CASE RelrBitmap
      <3>1. /\ e.kind = "bitmap" /\ cursor' = cursor + BitmapSlots * Word
            /\ AddBias({cursor + Word * k : k \in e.slots \cap 0 .. BitmapSlots - 1})
        BY <1>7, <2>2 DEF RelrBitmap
      <3>2. cursor = base
        BY <1>8, <3>1 DEF Holds
      <3>3. Holds(relative, e, i, cursor, lo, x, hi)
        BY <1>8, <3>2
      <3>4. /\ x = cursor + BitmapSlots * Word
            /\ {cursor + Word * k : k \in e.slots \cap 0 .. BitmapSlots - 1} =
                 {relative[k].at : k \in lo + 1 .. hi}
        BY <3>1, <3>3 DEF Holds
      <3> QED
        BY <3>1, <3>4
    <2> QED
      BY <2>1, <2>2
  <1>11. MovedUpTo(hi)'
    BY <1>1, <1>8, <1>9, <1>10, MovesOn
  <1>12. Encodes(b, l)'
    BY <1>1, <1>2, EncodesKept
  <1>13. MovedUpTo(l[next - 1])'
    <2>1. l[next' - 1] = hi
      BY <1>1, <1>4, <1>7
    <2> QED
      BY <1>11, <2>1 DEF MovedUpTo
  <1>14. next' \in 1 .. n + 1 /\ (next' > 1 => cursor' = b[next' - 1])
    BY <1>1, <1>4, <1>7, <1>10
  <1>15. Standing(b, l)'
    BY <1>1, <1>4, <1>6, <1>13, <1>14 DEF Standing
  <1> QED
    BY <1>12, <1>15

LEMMA RelrInvInit == PieInit => RelrInv
  BY DEF PieInit, RelrInv

LEMMA RelrInvStep ==
    CollectInv /\ SealInv /\ TableInv /\ MemoryInv /\ RelrInv /\ [PieNext \/ Ended]_pieVars
        => RelrInv'
  <1> SUFFICES ASSUME CollectInv, SealInv, TableInv, MemoryInv, RelrInv,
                      [PieNext \/ Ended]_pieVars
               PROVE  RelrInv'
    OBVIOUS
  <1>1. CASE CollectDirect \/ StartGot \/ CollectGot
    <2>1. phase' \in {"collect", "got", "failed"}
      BY <1>1 DEF CollectDirect, StartGot, CollectGot, Refuse, Pass, Keep
    <2> QED
      BY <2>1 DEF RelrInv
  <1>2. CASE EncodeDirect \/ EncodeBitmap \/ EndRun \/ EncodeNothing \/ LayOutRuntime
    BY <1>2, DirectEncodes, BitmapEncodes, RunEnds
  <1>3. CASE RelrDirect \/ RelrBitmap
    BY <1>3, EntryMoves
  <1>4. CASE RelrDone \/ StoreRelative \/ CallResolver \/ ResolverReturns \/ RelaDone \/ Sealing
    <2>1. phase' \in {"rela", "resolver", "seal", "exited", "user"}
      BY <1>4 DEF RelrDone, StoreRelative, CallResolver, ResolverReturns, RelaDone,
         Sealing, SealSegment, SealFails, EnterUser
    <2> QED
      BY <2>1 DEF RelrInv
  <1>5. CASE UNCHANGED pieVars
    <2>1. UNCHANGED <<link, phase, next, relative, relr, memory, cursor>>
      BY <1>5 DEF pieVars, tables
    <2>2. ASSUME NEW b, NEW l, Encodes(b, l), Standing(b, l)
          PROVE  Encodes(b, l)' /\ Standing(b, l)'
      <3>1. Encodes(b, l)'
        BY <2>1, <2>2, EncodesKept
      <3>2. \A k : MovedUpTo(k)' <=> MovedUpTo(k)
        BY <2>1, SameLink DEF MovedUpTo
      <3>3. MovedUpTo(l[next - 1])' <=> MovedUpTo(l[next - 1])
        BY <2>1, SameLink DEF MovedUpTo
      <3>4. Standing(b, l)'
        BY <2>1, <2>2, <3>2, <3>3 DEF Standing
      <3> QED
        BY <3>1, <3>4
    <2> QED
      BY <2>1, <2>2 DEF RelrInv
  <1> QED
    BY <1>1, <1>2, <1>3, <1>4, <1>5, TablesEncode
       DEF PieNext, Ended, Collecting, Encoding, Relocating

-----------------------------------------------------------------------------
(* The words of the image.                                                 *)

LEMMA MemoryInvInit == PieInit => MemoryInv
  BY DEF PieInit, MemoryInv, AsLinked

(* A word of a list was wanted there.                                      *)
LEMMA ListedIsWanted ==
    ASSUME CollectInv, Built
    PROVE  /\ \A j \in DOMAIN relative :
                 /\ relative[j].symbol \in Wanted(relative[j].at)
                 /\ Kind[relative[j].symbol] = "object"
           /\ \A j \in DOMAIN irelative :
                 /\ irelative[j].symbol \in Wanted(irelative[j].at)
                 /\ Kind[irelative[j].symbol] = "ifunc"
  BY DEF CollectInv, Range, Wanted

LEMMA RowFields ==
    ASSUME NEW kind, NEW x
    PROVE  /\ RowOf(kind, x).kind = kind /\ RowOf(kind, x).at = x.at
           /\ RowOf(kind, x).symbol = x.symbol
  BY DEF RowOf

(* The rows of RELA are the words RELR does not hold, then the resolvers'. *)
LEMMA RowsAre ==
    ASSUME CollectInv, TableInv, Built
    PROVE  \E m, n \in Nat :
             /\ m = RelativePart /\ n = Len(irelative) /\ DOMAIN rela = 1 .. m + n
             /\ DOMAIN irelative = 1 .. n /\ 1 .. m \subseteq DOMAIN relative
             /\ \A i \in 1 .. m :
                   /\ rela[i].kind = "relative" /\ rela[i].at = relative[i].at
                   /\ rela[i].symbol = relative[i].symbol
             /\ \A i \in m + 1 .. m + n :
                   /\ rela[i].kind = "irelative" /\ rela[i].at = irelative[i - m].at
                   /\ rela[i].symbol = irelative[i - m].symbol
  <1>1. /\ relative \in Seq(Entry) /\ irelative \in Seq(Entry) /\ rela = RelaTable
    BY DEF CollectInv, TableInv
  <1>2. PICK m \in Nat, n \in Nat : m = RelativePart /\ n = Len(irelative)
    <2>1. RelativePart \in Nat
      BY <1>1, TableIs
    <2>2. Len(irelative) \in Nat
      BY <1>1
    <2> QED
      BY <2>1, <2>2
  <1>3. /\ Len(rela) = m + n /\ rela \in Seq(Row)
        /\ \A i \in 1 .. m : rela[i] = RowOf("relative", relative[i])
        /\ \A i \in m + 1 .. m + n : rela[i] = RowOf("irelative", irelative[i - m])
    BY <1>1, <1>2, TableIs
  <1>4. /\ DOMAIN rela = 1 .. m + n /\ DOMAIN irelative = 1 .. n
    BY <1>1, <1>2, <1>3
  <1>5. 1 .. m \subseteq DOMAIN relative
    <2>1. m = 0 \/ m = Len(relative)
      BY <1>2 DEF RelativePart
    <2> QED
      BY <1>1, <2>1
  <1>6. ASSUME NEW i \in 1 .. m
        PROVE  /\ rela[i].kind = "relative" /\ rela[i].at = relative[i].at
               /\ rela[i].symbol = relative[i].symbol
    <2>1. PICK x : x = relative[i] /\ rela[i] = RowOf("relative", x)
      BY <1>3
    <2> QED
      BY <2>1, RowFields
  <1>7. ASSUME NEW i \in m + 1 .. m + n
        PROVE  /\ rela[i].kind = "irelative" /\ rela[i].at = irelative[i - m].at
               /\ rela[i].symbol = irelative[i - m].symbol
    <2>1. PICK x : x = irelative[i - m] /\ rela[i] = RowOf("irelative", x)
      BY <1>3
    <2> QED
      BY <2>1, RowFields
  <1> QED
    BY <1>2, <1>4, <1>5, <1>6, <1>7

(* What the rows of RELA are for.                                          *)
LEMMA RowIsWanted ==
    ASSUME CollectInv, TableInv, Built, NEW j \in DOMAIN rela
    PROVE  /\ rela[j].symbol \in Wanted(rela[j].at)
           /\ rela[j].kind = "relative" =>
                 Final(rela[j].symbol) = Moved(Linked(rela[j].symbol))
           /\ rela[j].kind = "irelative" =>
                 /\ Kind[rela[j].symbol] = "ifunc"
                 /\ Final(rela[j].symbol) = Resolved(rela[j].symbol)
  <1>1. PICK m \in Nat, n \in Nat :
            /\ DOMAIN rela = 1 .. m + n
            /\ DOMAIN irelative = 1 .. n /\ 1 .. m \subseteq DOMAIN relative
            /\ \A i \in 1 .. m :
                  /\ rela[i].kind = "relative" /\ rela[i].at = relative[i].at
                  /\ rela[i].symbol = relative[i].symbol
            /\ \A i \in m + 1 .. m + n :
                  /\ rela[i].kind = "irelative" /\ rela[i].at = irelative[i - m].at
                  /\ rela[i].symbol = irelative[i - m].symbol
    BY RowsAre
  <1>2. CASE j \in 1 .. m
    <2>1. /\ rela[j].kind = "relative" /\ rela[j].at = relative[j].at
          /\ rela[j].symbol = relative[j].symbol /\ j \in DOMAIN relative
      BY <1>1, <1>2
    <2> QED
      BY <2>1, ListedIsWanted DEF Final
  <1>3. CASE j \in m + 1 .. m + n
    <2>1. PICK i \in 1 .. n : i = j - m
      BY <1>3
    <2>2. /\ rela[j].kind = "irelative" /\ rela[j].at = irelative[i].at
          /\ rela[j].symbol = irelative[i].symbol /\ i \in DOMAIN irelative
      BY <1>1, <1>3, <2>1
    <2> QED
      BY <2>2, ListedIsWanted DEF Final
  <1>4. j \in 1 .. m \/ j \in m + 1 .. m + n
    BY <1>1
  <1> QED
    BY <1>2, <1>3, <1>4

(* Every word that was wanted is in one of the tables.                     *)
LEMMA WantedIsListed ==
    ASSUME CollectInv, TableInv, Built, NEW a, NEW s \in Wanted(a)
    PROVE  \/ /\ Kind[s] = "ifunc"
              /\ \E j \in DOMAIN rela : rela[j].at = a
           \/ /\ Kind[s] = "object" /\ link.packed
              /\ \E j \in DOMAIN relative : relative[j].at = a
           \/ /\ Kind[s] = "object"
              /\ \E j \in DOMAIN rela :
                    /\ rela[j].at = a
                    /\ \A i \in DOMAIN rela : rela[i].kind = "irelative" => j < i
  <1>1. PICK m \in Nat, n \in Nat :
            /\ m = RelativePart /\ DOMAIN rela = 1 .. m + n
            /\ DOMAIN irelative = 1 .. n /\ 1 .. m \subseteq DOMAIN relative
            /\ \A i \in 1 .. m :
                  /\ rela[i].kind = "relative" /\ rela[i].at = relative[i].at
                  /\ rela[i].symbol = relative[i].symbol
            /\ \A i \in m + 1 .. m + n :
                  /\ rela[i].kind = "irelative" /\ rela[i].at = irelative[i - m].at
                  /\ rela[i].symbol = irelative[i - m].symbol
    BY RowsAre
  <1>2. relative \in Seq(Entry)
    BY DEF CollectInv
  <1>3. CASE Kind[s] = "ifunc" /\ Here(a, s) \in Range(irelative)
    <2>1. PICK i \in 1 .. n : irelative[i] = Here(a, s)
      BY <1>1, <1>3 DEF Range
    <2>2. PICK j \in Nat : j = m + i
      OBVIOUS
    <2>3. j \in m + 1 .. m + n /\ j - m = i /\ j \in DOMAIN rela
      BY <1>1, <2>2
    <2>4. rela[j].at = a
      BY <1>1, <2>1, <2>3 DEF Here
    <2> QED
      BY <1>3, <2>3, <2>4
  <1>4. CASE Kind[s] = "object" /\ Here(a, s) \in Range(relative)
    <2>1. PICK j \in DOMAIN relative : relative[j] = Here(a, s)
      BY <1>4 DEF Range
    <2>2. relative[j].at = a
      BY <2>1 DEF Here
    <2>3. CASE link.packed
      BY <1>4, <2>2, <2>3
    <2>4. CASE ~link.packed
      <3>1. j \in 1 .. m /\ j \in DOMAIN rela
        <4>1. m = Len(relative)
          BY <1>1, <2>4 DEF RelativePart
        <4> QED
          BY <1>1, <1>2, <4>1
      <3>2. rela[j].at = a
        BY <1>1, <2>2, <3>1
      <3>3. ASSUME NEW i \in DOMAIN rela, rela[i].kind = "irelative"
            PROVE  j < i
        <4>1. i \notin 1 .. m
          BY <1>1, <3>3
        <4> QED
          BY <1>1, <3>1, <4>1
      <3> QED
        BY <1>4, <3>1, <3>2, <3>3
    <2> QED
      BY <2>3, <2>4
  <1> QED
    BY <1>3, <1>4, WantedIs

LEMMA RelocatedKept ==
    ASSUME UNCHANGED <<link, relative, rela, memory>>, NEW n, RelocatedBefore(n)
    PROVE  RelocatedBefore(n)'
  BY SameLink DEF RelocatedBefore

(* RELR done: the words of a packed table have moved, no other word has.   *)
LEMMA RelrLeaves ==
    CollectInv /\ SealInv /\ TableInv /\ RelrInv /\ MemoryInv /\ RelrDone => MemoryInv'
  <1> SUFFICES ASSUME CollectInv, SealInv, TableInv, RelrInv, MemoryInv, RelrDone
               PROVE  MemoryInv'
    OBVIOUS
  <1>1. /\ phase = "relr" /\ next > Len(relr) /\ phase' = "rela" /\ next' = 1
        /\ UNCHANGED <<link, relative, rela, memory>> /\ Built
        /\ relative \in Seq(Entry) /\ rela \in Seq(Row)
    BY DEF CollectInv, SealInv, RelrDone, tables, Built
  <1>2. ASSUME NEW a \in DOMAIN memory, \E j \in DOMAIN rela : j < 1 /\ rela[j].at = a
        PROVE  FALSE
    BY <1>1, <1>2
  <1>3. CASE ~link.packed
    <2>1. AsLinked
      BY <1>1, <1>3 DEF MemoryInv
    <2>2. RelocatedBefore(1)
      BY <1>2, <1>3, <2>1 DEF RelocatedBefore, AsLinked
    <2> QED
      BY <1>1, <2>2, RelocatedKept DEF MemoryInv
  <1>4. CASE link.packed
    <2>1. PICK b, l : Encodes(b, l) /\ Standing(b, l)
      BY <1>1, <1>4 DEF RelrInv
    <2>2. PICK S : relr \in Seq(S)
      BY DEF SealInv
    <2>3. PICK n \in Nat : n = Len(relr)
      BY <2>2
    <2>4. next \in 1 .. n + 1 /\ MovedUpTo(l[next - 1]) /\ l[n] = Len(relative)
      BY <1>1, <2>1, <2>3 DEF Standing
    <2>5. next - 1 = n
      BY <1>1, <2>3, <2>4
    <2>6. MovedUpTo(Len(relative))
      BY <2>4, <2>5
    <2>7. ASSUME NEW a \in DOMAIN memory, NEW j \in DOMAIN relative, relative[j].at = a
          PROVE  \E s \in Wanted(a) : memory[a] = Final(s)
      <3>1. j <= Len(relative)
        BY <1>1
      <3>2. memory[a] = Moved(Linked(relative[j].symbol))
        BY <2>6, <2>7, <3>1 DEF MovedUpTo
      <3>3. relative[j].symbol \in Wanted(a) /\ Kind[relative[j].symbol] = "object"
        BY <1>1, <2>7, ListedIsWanted
      <3>4. memory[a] = Final(relative[j].symbol)
        BY <3>2, <3>3 DEF Final
      <3> QED
        BY <3>3, <3>4
    <2>8. ASSUME NEW a \in DOMAIN memory, Wanted(a) = {}
          PROVE  memory[a] = LinkTime(a)
      <3>1. \A j \in DOMAIN relative : relative[j].at # a
        BY <1>1, <2>8, ListedIsWanted
      <3> QED
        BY <2>6, <3>1 DEF MovedUpTo
    <2>9. RelocatedBefore(1)
      BY <1>2, <2>7, <2>8 DEF RelocatedBefore
    <2> QED
      BY <1>1, <2>9, RelocatedKept DEF MemoryInv
  <1> QED
    BY <1>3, <1>4

(* A row of RELA settles its word.                                         *)
LEMMA RowSettles ==
    ASSUME CollectInv, TableInv, Built, UNCHANGED <<link, relative, rela>>,
           rela \in Seq(Row), NEW n \in DOMAIN rela, RelocatedBefore(n),
           memory' = [memory EXCEPT ![rela[n].at] = Final(rela[n].symbol)]
    PROVE  RelocatedBefore(n + 1)'
  <1>1. PICK at, s : at = rela[n].at /\ s = rela[n].symbol
    OBVIOUS
  <1>2. s \in Wanted(at)
    BY <1>1, RowIsWanted
  <1>3. /\ DOMAIN memory' = DOMAIN memory
        /\ \A a \in DOMAIN memory : memory'[a] = IF a = at THEN Final(s) ELSE memory[a]
    BY <1>1
  <1>4. ASSUME NEW a \in DOMAIN memory, Wanted(a) = {}
        PROVE  memory'[a] = LinkTime(a)
    <2>1. a # at
      BY <1>2, <1>4
    <2> QED
      BY <1>3, <1>4, <2>1 DEF RelocatedBefore
  <1>5. ASSUME NEW a \in DOMAIN memory,
               \/ \E j \in DOMAIN rela : j < n + 1 /\ rela[j].at = a
               \/ link.packed /\ \E j \in DOMAIN relative : relative[j].at = a
        PROVE  \E w \in Wanted(a) : memory'[a] = Final(w)
    <2>1. CASE a = at
      BY <1>2, <1>3, <2>1
    <2>2. CASE a # at
      <3>1. ASSUME NEW j \in DOMAIN rela, j < n + 1, rela[j].at = a PROVE j < n
        <4>1. j # n
          BY <1>1, <2>2, <3>1
        <4> QED
          BY <3>1, <4>1
      <3>2. \E w \in Wanted(a) : memory[a] = Final(w)
        BY <1>5, <3>1 DEF RelocatedBefore
      <3> QED
        BY <1>3, <2>2, <3>2
    <2> QED
      BY <2>1, <2>2
  <1> QED
    BY <1>3, <1>4, <1>5, SameLink DEF RelocatedBefore

LEMMA MemoryInvStep ==
    CollectInv /\ SealInv /\ TableInv /\ RelrInv /\ MemoryInv /\ [PieNext \/ Ended]_pieVars
        => MemoryInv'
  <1> SUFFICES ASSUME CollectInv, SealInv, TableInv, RelrInv, MemoryInv,
                      [PieNext \/ Ended]_pieVars
               PROVE  MemoryInv'
    OBVIOUS
  <1>1. rela \in Seq(Row) /\ next \in Nat \ {0}
    BY DEF CollectInv, SealInv
  <1>2. ASSUME UNCHANGED <<link, memory>>, AsLinked PROVE AsLinked'
    BY <1>2, SameLink DEF AsLinked
  <1>3. CASE CollectDirect \/ StartGot \/ CollectGot
    <2>1. /\ phase \in {"collect", "got"} /\ phase' \in {"collect", "got", "failed"}
          /\ UNCHANGED <<link, memory>>
      BY <1>3 DEF CollectDirect, StartGot, CollectGot, Refuse, Pass, Keep
    <2> QED
      BY <1>2, <2>1 DEF MemoryInv
  <1>4. CASE BuildTables
    <2>1. phase = "got" /\ UNCHANGED link /\ AsLinked
      BY <1>4 DEF BuildTables, Refuse, MemoryInv
    <2>2. CASE phase' \in {"plain", "failed", "encode"}
      BY <2>2 DEF MemoryInv
    <2>3. CASE phase' = "layout" /\ UNCHANGED memory
      BY <1>2, <2>1, <2>3 DEF MemoryInv
    <2> QED
      BY <1>4, <2>2, <2>3 DEF BuildTables, Refuse
  <1>5. CASE EncodeDirect \/ EncodeBitmap \/ EndRun \/ EncodeNothing
    <2>1. link.packed /\ UNCHANGED link /\ phase' \in {"encode", "bitmap", "layout"}
      BY <1>5 DEF EncodeDirect, EncodeBitmap, EndRun, EncodeNothing, TableInv
    <2> QED
      BY <2>1 DEF MemoryInv
  <1>6. CASE LayOutRuntime
    <2>1. phase = "layout" /\ UNCHANGED <<link, memory>> /\ phase' \in {"relr", "failed"}
      BY <1>6 DEF LayOutRuntime, Refuse
    <2> QED
      BY <1>2, <2>1 DEF MemoryInv
  <1>7. CASE RelrDirect \/ RelrBitmap
    <2>1. /\ phase = "relr" /\ phase' = "relr" /\ UNCHANGED link /\ relr # <<>>
      <3>1. PICK S : relr \in Seq(S)
        BY DEF SealInv
      <3> QED
        BY <1>1, <1>7, <3>1 DEF RelrDirect, RelrBitmap
    <2>2. link.packed
      BY <2>1 DEF TableInv
    <2> QED
      BY <2>1, <2>2 DEF MemoryInv
  <1>8. CASE RelrDone
    BY <1>8, RelrLeaves
  <1>9. CASE StoreRelative \/ ResolverReturns
    <2>1. /\ phase \in {"rela", "resolver"} /\ phase' = "rela" /\ next' = next + 1
          /\ UNCHANGED <<link, relative, rela>> /\ RelocatedBefore(next) /\ Built
      BY <1>9 DEF StoreRelative, ResolverReturns, tables, MemoryInv, Built
    <2>2. PICK n \in DOMAIN rela : n = next
      BY <1>1, <1>9 DEF StoreRelative, ResolverReturns, TableInv
    <2>3. memory' = [memory EXCEPT ![rela[n].at] = Final(rela[n].symbol)]
      <3>1. CASE StoreRelative
        BY <2>1, <2>2, <3>1, RowIsWanted DEF StoreRelative
      <3>2. CASE ResolverReturns
        BY <2>1, <2>2, <3>2, RowIsWanted DEF ResolverReturns, TableInv
      <3> QED
        BY <1>9, <3>1, <3>2
    <2>4. RelocatedBefore(n + 1)'
      BY <1>1, <2>1, <2>2, <2>3, RowSettles
    <2>5. RelocatedBefore(next)'
      BY <2>1, <2>2, <2>4 DEF RelocatedBefore
    <2> QED
      BY <2>1, <2>5 DEF MemoryInv
  <1>10. CASE CallResolver
    <2>1. /\ phase = "rela" /\ phase' = "resolver" /\ UNCHANGED <<link, relative, rela, memory, next>>
          /\ RelocatedBefore(next)
      BY <1>10 DEF CallResolver, tables, MemoryInv
    <2>2. RelocatedBefore(next)'
      BY <2>1, SameLink DEF RelocatedBefore
    <2> QED
      BY <2>1, <2>2 DEF MemoryInv
  <1>11. CASE RelaDone
    <2>1. /\ phase = "rela" /\ phase' = "seal" /\ UNCHANGED <<link, relative, rela, memory>>
          /\ RelocatedBefore(next) /\ next > Len(rela)
      BY <1>11 DEF RelaDone, tables, MemoryInv
    <2>2. \A j \in DOMAIN rela : j < Len(rela) + 1 => j < next
      BY <1>1, <2>1
    <2>3. RelocatedBefore(Len(rela) + 1)
      BY <2>1, <2>2 DEF RelocatedBefore
    <2>4. RelocatedBefore(Len(rela) + 1)'
      BY <2>1, <2>3, SameLink DEF RelocatedBefore
    <2> QED
      BY <2>1, <2>4 DEF MemoryInv
  <1>12. CASE Sealing
    <2>1. /\ phase = "seal" /\ phase' \in {"seal", "exited", "user"}
          /\ UNCHANGED <<link, relative, rela, memory>> /\ RelocatedBefore(Len(rela) + 1)
      BY <1>12 DEF Sealing, SealSegment, SealFails, EnterUser, tables, MemoryInv
    <2>2. RelocatedBefore(Len(rela) + 1)'
      BY <2>1, SameLink DEF RelocatedBefore
    <2> QED
      BY <2>1, <2>2 DEF MemoryInv
  <1>13. CASE UNCHANGED pieVars
    <2>1. UNCHANGED <<link, phase, next, relative, rela, memory>>
      BY <1>13 DEF pieVars, tables
    <2>2. RelocatedBefore(next)' <=> RelocatedBefore(next)
      BY <2>1, SameLink DEF RelocatedBefore
    <2>3. RelocatedBefore(Len(rela) + 1)' <=> RelocatedBefore(Len(rela) + 1)
      BY <2>1, SameLink DEF RelocatedBefore
    <2> QED
      BY <1>2, <2>1, <2>2, <2>3 DEF MemoryInv
  <1> QED
    BY <1>3, <1>4, <1>5, <1>6, <1>7, <1>8, <1>9, <1>10, <1>11, <1>12, <1>13
       DEF PieNext, Ended, Collecting, Encoding, Relocating

-----------------------------------------------------------------------------
PieInv == CollectInv /\ SealInv /\ TableInv /\ RelrInv /\ MemoryInv

LEMMA PieInvHolds == PieSpec => []PieInv
  <1>1. PieInit => PieInv
    BY CollectInvInit, SealInvInit, TableInvInit, RelrInvInit, MemoryInvInit DEF PieInv
  <1>2. PieInv /\ [PieNext \/ Ended]_pieVars => PieInv'
    BY CollectInvStep, SealInvStep, TableInvStep, RelrInvStep, MemoryInvStep DEF PieInv
  <1> QED
    BY <1>1, <1>2, PTL DEF PieSpec

LEMMA PieInvRelocates == PieInv => RelocatedExactlyOnce
  <1> SUFFICES ASSUME PieInv, phase \in {"seal", "user"}, NEW a \in DOMAIN memory
               PROVE  IF Wanted(a) = {} THEN memory[a] = LinkTime(a)
                      ELSE \E s \in Wanted(a) : memory[a] = Final(s)
    BY DEF RelocatedExactlyOnce
  <1>1. /\ CollectInv /\ TableInv /\ Built /\ RelocatedBefore(Len(rela) + 1) /\ rela \in Seq(Row)
    BY DEF PieInv, MemoryInv, SealInv, Built
  <1>2. ASSUME NEW s \in Wanted(a)
        PROVE  \E w \in Wanted(a) : memory[a] = Final(w)
    <2>1. \/ \E j \in DOMAIN rela : rela[j].at = a
          \/ link.packed /\ \E j \in DOMAIN relative : relative[j].at = a
      BY <1>1, WantedIsListed
    <2>2. \A j \in DOMAIN rela : j < Len(rela) + 1
      BY <1>1
    <2> QED
      BY <1>1, <2>1, <2>2 DEF RelocatedBefore
  <1>3. Wanted(a) = {} => memory[a] = LinkTime(a)
    BY <1>1 DEF RelocatedBefore
  <1> QED
    BY <1>2, <1>3

LEMMA PieInvServesResolvers == PieInv => ResolversRunRelocated
  <1> SUFFICES ASSUME PieInv, phase = "resolver"
               PROVE  /\ sealed = {} /\ Kind[rela[next].symbol] = "ifunc"
                      /\ \A a \in DOMAIN memory :
                           LET plain == {s \in Wanted(a) : Kind[s] = "object"}
                           IN (plain # {} /\ plain = Wanted(a)) =>
                                \E s \in plain : memory[a] = Moved(Linked(s))
    BY DEF ResolversRunRelocated
  <1>1. /\ CollectInv /\ TableInv /\ Built /\ RelocatedBefore(next) /\ sealed = {}
        /\ next \in DOMAIN rela /\ rela[next].kind = "irelative"
    BY DEF PieInv, MemoryInv, SealInv, TableInv, Built
  <1>2. Kind[rela[next].symbol] = "ifunc"
    BY <1>1, RowIsWanted
  <1>3. ASSUME NEW a \in DOMAIN memory, NEW s \in Wanted(a), \A w \in Wanted(a) : Kind[w] = "object"
        PROVE  \E w \in Wanted(a) : memory[a] = Moved(Linked(w))
    <2>1. \/ link.packed /\ \E j \in DOMAIN relative : relative[j].at = a
          \/ \E j \in DOMAIN rela : rela[j].at = a /\ j < next
      BY <1>1, <1>3, WantedIsListed
    <2>2. PICK w \in Wanted(a) : memory[a] = Final(w)
      BY <1>1, <2>1 DEF RelocatedBefore
    <2>3. Kind[w] = "object"
      BY <1>3
    <2> QED
      BY <2>2, <2>3 DEF Final
  <1> QED
    BY <1>1, <1>2, <1>3

(* Whichever table a word is in, and however the packed words fall into    *)
(* bitmaps, the start-up code relocates it once before it seals the image; *)
(* it changes no other word.                                               *)
THEOREM EveryWordIsRelocatedOnce == PieSpec => []RelocatedExactlyOnce
  BY PieInvHolds, PieInvRelocates, PTL

(* No resolver is called before the words of the ordinary relocations have *)
(* moved, whether they are in RELR or in front of it in RELA.              *)
THEOREM ResolversFindARelocatedImage == PieSpec => []ResolversRunRelocated
  BY PieInvHolds, PieInvServesResolvers, PTL

-----------------------------------------------------------------------------
(* The inspector's list.                                                   *)

LEMMA ProductsOrder ==
    ASSUME NEW w \in Nat \ {0}, NEW j \in Nat, NEW k \in Nat, w * j < w * k
    PROVE  j < k
  <1> SUFFICES ASSUME k <= j PROVE FALSE
    OBVIOUS
  <1>1. w * k <= w * j
    OBVIOUS
  <1>2. w * k \in Nat /\ w * j \in Nat
    OBVIOUS
  <1> QED
    BY <1>1, <1>2

(* The m set bits are p[1], ..., p[m], from low to high.                   *)
Enumerates(p, m, slots) ==
    /\ p \in [1 .. m -> 0 .. BitmapSlots - 1]
    /\ \A i, j \in 1 .. m : i < j => p[i] < p[j]
    /\ \A j \in 1 .. m : p[j] \in slots
    /\ \A k \in slots \cap 0 .. BitmapSlots - 1 : \E j \in 1 .. m : p[j] = k
(* The first c of them are below n.                                        *)
Below(p, m, n, c) == c \in 0 .. m /\ \A j \in 1 .. m : j <= c <=> p[j] < n

LEMMA BelowIs ==
    ASSUME NEW m \in Nat, NEW slots, NEW p, Enumerates(p, m, slots), NEW n \in Nat
    PROVE  \E c : Below(p, m, n, c)
  <1> DEFINE T == {j \in 0 .. m : j = 0 \/ p[j] < n}
  <1>1. T \in SUBSET (0 .. m) /\ 0 \in T
    OBVIOUS
  <1>2. PICK c \in T : \A j \in T : c >= j
    BY <1>1, GreatestOfSet
  <1>3. ASSUME NEW j \in 1 .. m PROVE j <= c <=> p[j] < n
    <2>1. c \in 0 .. m /\ p \in [1 .. m -> 0 .. BitmapSlots - 1] /\ BitmapSlots \in Nat
      BY <1>2, PieAssumption DEF Enumerates
    <2>2. ASSUME p[j] < n PROVE j <= c
      <3>1. j \in T
        BY <2>2
      <3> QED
        BY <1>2, <3>1, <2>1
    <2>3. ASSUME j <= c PROVE p[j] < n
      <3>1. c \in 1 .. m /\ p[c] < n
        BY <1>2, <2>1, <2>3
      <3>2. j = c \/ p[j] < p[c]
        BY <2>1, <2>3, <3>1 DEF Enumerates
      <3> QED
        BY <2>1, <3>1, <3>2
    <2> QED
      BY <2>2, <2>3
  <1> QED
    BY <1>2, <1>3 DEF Below

(* From bit n to the next one the count grows by one if the bit is set.    *)
LEMMA NextBelow ==
    ASSUME NEW m \in Nat, NEW slots, NEW p, Enumerates(p, m, slots),
           NEW n \in 0 .. BitmapSlots - 1, NEW c, NEW d,
           Below(p, m, n, c), Below(p, m, n + 1, d)
    PROVE  IF n \in slots THEN d = c + 1 /\ p[d] = n ELSE d = c
  <1>1. /\ BitmapSlots \in Nat /\ p \in [1 .. m -> 0 .. BitmapSlots - 1]
        /\ c \in 0 .. m /\ d \in 0 .. m
    BY PieAssumption DEF Enumerates, Below
  <1>2. \A j \in 1 .. m : p[j] \in Nat /\ (j <= c <=> p[j] < n) /\ (j <= d <=> p[j] < n + 1)
    BY <1>1 DEF Below
  <1>3. c <= d
    <2>1. CASE c = 0
      BY <1>1, <2>1
    <2>2. CASE c # 0
      <3>1. c \in 1 .. m /\ p[c] < n
        BY <1>1, <1>2, <2>2
      <3> QED
        BY <1>1, <1>2, <3>1
    <2> QED
      BY <2>1, <2>2
  <1>4. ASSUME NEW j \in 1 .. m, j > c, j <= d PROVE p[j] = n
    BY <1>1, <1>2, <1>4
  <1>5. CASE n \in slots
    <2>1. PICK j \in 1 .. m : p[j] = n
      BY <1>1, <1>5 DEF Enumerates
    <2>2. j > c /\ j <= d
      BY <1>1, <1>2, <2>1
    <2>3. d \in 1 .. m /\ d > c /\ p[d] = n
      BY <1>1, <1>4, <2>2
    <2>4. j = d
      BY <1>1, <2>1, <2>2, <2>3 DEF Enumerates
    <2>5. ASSUME d # c + 1 PROVE FALSE
      <3>1. c + 1 \in 1 .. m /\ c + 1 > c /\ c + 1 < d
        BY <1>1, <2>3, <2>5
      <3>2. p[c + 1] = n
        BY <1>1, <1>4, <3>1
      <3>3. p[c + 1] < p[d]
        BY <1>1, <2>3, <3>1 DEF Enumerates
      <3> QED
        BY <1>1, <2>3, <3>2, <3>3
    <2> QED
      BY <1>5, <2>3, <2>5
  <1>6. CASE n \notin slots
    <2>1. ASSUME c # d PROVE FALSE
      <3>1. d \in 1 .. m /\ d > c /\ d <= d
        BY <1>1, <1>3, <2>1
      <3>2. p[d] = n /\ p[d] \in slots
        BY <1>4, <3>1 DEF Enumerates
      <3> QED
        BY <1>6, <3>2
    <2> QED
      BY <1>6, <2>1
  <1> QED
    BY <1>5, <1>6


LEMMA BitsAre ==
    ASSUME NEW m \in Nat, NEW slots, NEW p, Enumerates(p, m, slots), NEW base \in Nat
    PROVE  BitsFound(slots, base) = [j \in 1 .. m |-> base + Word * p[j]]
  <1> DEFINE N == BitmapSlots
             step(f, n) == IF n = 0 THEN <<>>
                           ELSE IF n - 1 \in slots THEN Append(f[n - 1], base + Word * (n - 1))
                           ELSE f[n - 1]
             Rec(f) == f = [n \in 0 .. N |-> step(f, n)]
             upto(c) == [j \in 1 .. c |-> base + Word * p[j]]
  <1>1. /\ N \in Nat \ {0} /\ Word \in Nat \ {0} /\ p \in [1 .. m -> 0 .. N - 1]
    BY PieAssumption DEF Enumerates
  <1>2. \A n \in Nat : \E c : Below(p, m, n, c)
    BY BelowIs
  <1> DEFINE count == [n \in 0 .. N |-> CHOOSE c : Below(p, m, n, c)]
             F == [n \in 0 .. N |-> upto(count[n])]
  <1>3. \A n \in 0 .. N : Below(p, m, n, count[n])
    <2> SUFFICES ASSUME NEW n \in 0 .. N PROVE Below(p, m, n, count[n])
      OBVIOUS
    <2>1. \E c : Below(p, m, n, c)
      BY <1>1, <1>2
    <2>2. Below(p, m, n, CHOOSE c : Below(p, m, n, c))
      BY <2>1
    <2> QED
      BY <2>2
  <1> HIDE DEF count
  <1>4. count[0] = 0 /\ count[N] = m
    <2>1. Below(p, m, 0, count[0]) /\ Below(p, m, N, count[N])
      BY <1>1, <1>3
    <2>2. \A j \in 1 .. m : p[j] \in 0 .. N - 1
      BY <1>1
    <2>3. count[0] = 0
      <3> SUFFICES ASSUME count[0] # 0 PROVE FALSE
        OBVIOUS
      <3>1. count[0] \in 1 .. m /\ p[count[0]] < 0
        BY <2>1 DEF Below
      <3> QED
        BY <2>2, <3>1
    <2>4. count[N] = m
      <3> SUFFICES ASSUME count[N] # m PROVE FALSE
        OBVIOUS
      <3>1. count[N] \in 0 .. m /\ m \in 1 .. m /\ ~(m <= count[N])
        BY <2>1 DEF Below
      <3>2. ~(p[m] < N)
        BY <2>1, <3>1 DEF Below
      <3> QED
        BY <1>1, <2>2, <3>1, <3>2
    <2> QED
      BY <2>3, <2>4
  <1>5. ASSUME NEW n \in 0 .. N PROVE F[n] = step(F, n)
    <2>1. F[n] = upto(count[n])
      OBVIOUS
    <2>2. CASE n = 0
      <3>1. F[n] = <<>>
        BY <1>4, <2>1, <2>2
      <3> QED
        BY <2>2, <3>1
    <2>3. CASE n # 0
      <3>1. n - 1 \in 0 .. N - 1 /\ n - 1 \in 0 .. N /\ (n - 1) + 1 = n
        BY <1>1, <2>3
      <3>2. Below(p, m, n - 1, count[n - 1]) /\ Below(p, m, (n - 1) + 1, count[n])
        BY <1>3, <3>1
      <3>3. IF n - 1 \in slots THEN count[n] = count[n - 1] + 1 /\ p[count[n]] = n - 1
            ELSE count[n] = count[n - 1]
        BY <3>1, <3>2, NextBelow
      <3>4. F[n - 1] = upto(count[n - 1])
        BY <3>1
      <3>5. CASE n - 1 \in slots
        <4>1. PICK c \in Nat : c = count[n - 1]
          BY <3>2 DEF Below
        <4>2. count[n] = c + 1 /\ p[c + 1] = n - 1
          BY <3>3, <3>5, <4>1
        <4>3. upto(c + 1) = Append(upto(c), base + Word * p[c + 1])
          <5> DEFINE word(j) == base + Word * p[j]
          <5> HIDE DEF word
          <5>1. [j \in 1 .. c + 1 |-> word(j)] = Append([j \in 1 .. c |-> word(j)], word(c + 1))
            OBVIOUS
          <5> QED
            BY <5>1 DEF word
        <4> QED
          BY <2>1, <2>3, <3>4, <3>5, <4>1, <4>2, <4>3
      <3>6. CASE n - 1 \notin slots
        BY <2>1, <2>3, <3>3, <3>4, <3>6
      <3> QED
        BY <3>5, <3>6
    <2> QED
      BY <2>2, <2>3
  <1>6. Rec(F)
    <2> HIDE DEF step
    <2>1. F = [n \in 0 .. N |-> step(F, n)]
      BY <1>5
    <2> QED
      BY <2>1
  <1> DEFINE f == CHOOSE g : Rec(g)
  <1>7. Rec(f)
    <2> HIDE DEF Rec, F
    <2> QED
      BY <1>6
  <1>8. BitsFound(slots, base) = f[N]
    BY DEF BitsFound
  <1> HIDE DEF f, F
  <1>9. \A n \in 0 .. N : f[n] = step(f, n) /\ F[n] = step(F, n)
    <2>1. \A n \in 0 .. N : f[n] = step(f, n)
      <3> HIDE DEF step
      <3> QED
        BY <1>7
    <2> QED
      BY <1>5, <2>1
  <1>10. \A n \in 0 .. N : f[n] = F[n]
    <2> DEFINE T == {n \in 0 .. N : f[n] # F[n]}
    <2> SUFFICES ASSUME T # {} PROVE FALSE
      OBVIOUS
    <2>1. PICK n \in T : \A k \in T : n <= k
      <3>1. T \in SUBSET Nat
        OBVIOUS
      <3> HIDE DEF T
      <3> QED
        BY <3>1, LeastOfSet
    <2>2. CASE n = 0
      BY <1>9, <2>1, <2>2
    <2>3. CASE n # 0
      <3>1. n - 1 \in 0 .. N /\ n - 1 < n
        BY <1>1, <2>1, <2>3
      <3>2. f[n - 1] = F[n - 1]
        BY <2>1, <3>1
      <3> QED
        BY <1>9, <2>1, <2>3, <3>2
    <2> QED
      BY <2>2, <2>3
  <1>11. F[N] = upto(m)
    BY <1>1, <1>4 DEF F
  <1> QED
    BY <1>1, <1>8, <1>10, <1>11


(* The set bits stand for the targets after lo up to hi.                   *)
BitsStandFor(slots, base, lo, hi) ==
    {base + Word * k : k \in slots \cap 0 .. BitmapSlots - 1} =
        {relative[k].at : k \in lo + 1 .. hi}

(* What the packed words from lo to hi add to the list.                    *)
LEMMA BitmapLists ==
    ASSUME relative \in Seq(Entry), Increasing(relative), NEW slots, NEW base \in Nat,
           NEW lo \in Nat, NEW hi \in Nat, lo <= hi, hi <= Len(relative),
           BitsStandFor(slots, base, lo, hi)
    PROVE  BitsFound(slots, base) = [j \in 1 .. hi - lo |-> relative[lo + j].at]
  <1> DEFINE m == hi - lo
             set == slots \cap 0 .. BitmapSlots - 1
             target(j) == relative[lo + j].at
  <1>1. /\ BitmapSlots \in Nat \ {0} /\ Word \in Nat \ {0} /\ m \in Nat
        /\ \A j \in 1 .. m : lo + j \in DOMAIN relative /\ lo + j \in lo + 1 .. hi
    BY PieAssumption
  <1>2. \A j \in 1 .. m : target(j) \in Nat
    <2> SUFFICES ASSUME NEW j \in 1 .. m PROVE target(j) \in Nat
      OBVIOUS
    <2>1. relative[lo + j] \in Entry
      BY <1>1
    <2> QED
      BY <2>1 DEF Entry
  <1>3. \A i, j \in 1 .. m : i < j => target(i) < target(j)
    BY <1>1 DEF Increasing
  <1>4. \A j \in 1 .. m : \E k \in set : target(j) = base + Word * k
    BY <1>1 DEF BitsStandFor
  <1>5. \A k \in set : \E j \in 1 .. m : target(j) = base + Word * k
    <2> SUFFICES ASSUME NEW k \in set PROVE \E j \in 1 .. m : target(j) = base + Word * k
      OBVIOUS
    <2>1. PICK i \in lo + 1 .. hi : relative[i].at = base + Word * k
      BY DEF BitsStandFor
    <2>2. i - lo \in 1 .. m /\ lo + (i - lo) = i
      OBVIOUS
    <2> QED
      BY <2>1, <2>2
  <1> HIDE DEF target
  <1> DEFINE p == [j \in 1 .. m |-> CHOOSE k \in set : target(j) = base + Word * k]
  <1>6. \A j \in 1 .. m : p[j] \in set /\ target(j) = base + Word * p[j]
    BY <1>4
  <1>7. p \in [1 .. m -> 0 .. BitmapSlots - 1]
    BY <1>4
  <1> HIDE DEF p
  <1>8. ASSUME NEW i \in 1 .. m, NEW j \in 1 .. m, i < j PROVE p[i] < p[j]
    <2>1. target(i) < target(j)
      BY <1>3, <1>8
    <2>2. PICK a \in Nat, b \in Nat : a = p[i] /\ b = p[j]
      BY <1>1, <1>7
    <2>3. target(i) = base + Word * a /\ target(j) = base + Word * b
      BY <1>6, <2>2
    <2>4. Word * a \in Nat /\ Word * b \in Nat
      BY <1>1
    <2>5. Word * a < Word * b
      BY <2>1, <2>3, <2>4
    <2> QED
      BY <1>1, <2>2, <2>5, ProductsOrder
  <1>9. ASSUME NEW k \in set PROVE \E j \in 1 .. m : p[j] = k
    <2>1. PICK j \in 1 .. m : target(j) = base + Word * k
      BY <1>5
    <2>2. PICK a \in Nat, b \in Nat : a = p[j] /\ b = k
      BY <1>1, <1>7
    <2>3. Word * a \in Nat /\ Word * b \in Nat /\ base + Word * a = base + Word * b
      <3>1. Word * a \in Nat /\ Word * b \in Nat
        BY <1>1
      <3>2. target(j) = base + Word * a
        BY <1>6, <2>2
      <3>3. target(j) = base + Word * b
        BY <2>1, <2>2
      <3> QED
        BY <3>1, <3>2, <3>3
    <2>4. ~(Word * a < Word * b) /\ ~(Word * b < Word * a)
      BY <2>3
    <2>5. a = b
      <3>1. ASSUME a < b PROVE FALSE
        <4>1. Word * a < Word * b
          BY <1>1, <3>1
        <4> QED
          BY <2>4, <4>1
      <3>2. ASSUME b < a PROVE FALSE
        <4>1. Word * b < Word * a
          BY <1>1, <3>2
        <4> QED
          BY <2>4, <4>1
      <3> QED
        BY <3>1, <3>2
    <2> QED
      BY <2>2, <2>5
  <1>10. Enumerates(p, m, slots)
    BY <1>6, <1>7, <1>8, <1>9 DEF Enumerates
  <1> HIDE DEF m
  <1>11. BitsFound(slots, base) = [j \in 1 .. m |-> base + Word * p[j]]
    BY <1>1, <1>10, BitsAre
  <1>12. [j \in 1 .. m |-> base + Word * p[j]] = [j \in 1 .. m |-> target(j)]
    BY <1>6
  <1> QED
    BY <1>11, <1>12 DEF target, m

Targets(n) == [k \in 1 .. n |-> relative[k].at]

LEMMA WordsListed ==
    ASSUME CollectInv, TableInv, NEW S, relr \in Seq(S), link.packed, Built,
           NEW b, NEW l, Encodes(b, l)
    PROVE  Inspected(relr) = Targets(l[Len(relr)])
  <1> PICK N \in Nat : N = Len(relr)
    OBVIOUS
  <1> DEFINE step(f, n) == IF n = 0 THEN [found |-> <<>>, cursor |-> 0]
                           ELSE InspectorStep(f[n - 1], relr[n])
             Rec(f) == f = [n \in 0 .. N |-> step(f, n)]
             F == [n \in 0 .. N |-> [found |-> Targets(l[n]),
                                     cursor |-> IF n = 0 THEN 0 ELSE b[n]]]
  <1>1. /\ relative \in Seq(Entry) /\ Increasing(relative) /\ Word \in Nat \ {0}
        /\ b \in [0 .. N -> Nat] /\ l \in [0 .. N -> Nat] /\ l[0] = 0
        /\ \A i \in 0 .. N - 1 :
              Holds(relative, relr[i + 1], i, b[i], l[i], b[i + 1], l[i + 1])
    BY PieAssumption DEF CollectInv, TableInv, Encodes
  <1>2. ASSUME NEW n \in 0 .. N PROVE F[n] = step(F, n)
    <2>1. CASE n = 0
      <3>1. Targets(0) = <<>>
        BY DEF Targets
      <3> QED
        BY <1>1, <2>1, <3>1
    <2>2. CASE n # 0
      <3>1. n - 1 \in 0 .. N - 1 /\ n - 1 \in 0 .. N /\ (n - 1) + 1 = n
        BY <2>2
      <3>2. PICK lo \in Nat, hi \in Nat, base \in Nat, x \in Nat :
               lo = l[n - 1] /\ hi = l[n] /\ base = b[n - 1] /\ x = b[n]
        BY <1>1, <3>1
      <3>3. PICK e : e = relr[n]
        OBVIOUS
      <3>4. Holds(relative, e, n - 1, base, lo, x, hi)
        BY <1>1, <3>1, <3>2, <3>3
      <3>5. F[n - 1].found = Targets(lo) /\ (n - 1 > 0 => F[n - 1].cursor = base)
        BY <3>1, <3>2
      <3>6. F[n] = [found |-> Targets(hi), cursor |-> x]
        BY <2>2, <3>2
      <3>7. step(F, n) = InspectorStep(F[n - 1], e)
        BY <2>2, <3>3
      <3>8. lo <= hi /\ hi <= Len(relative)
        BY <3>4 DEF Holds
      <3> HIDE DEF F, step
      <3>9. CASE e.kind = "direct"
        <4>1. hi = lo + 1 /\ e.at = relative[hi].at /\ x = e.at + Word
          BY <3>4, <3>9 DEF Holds
        <4>2. Targets(hi) = Append(Targets(lo), e.at)
          <5> DEFINE word(k) == relative[k].at
          <5> HIDE DEF word
          <5>1. [k \in 1 .. lo + 1 |-> word(k)] = Append([k \in 1 .. lo |-> word(k)], word(lo + 1))
            OBVIOUS
          <5> QED
            BY <4>1, <5>1 DEF word, Targets
        <4>3. InspectorStep(F[n - 1], e) = [found |-> Targets(hi), cursor |-> x]
          BY <3>5, <3>9, <4>1, <4>2 DEF InspectorStep
        <4> QED
          BY <3>6, <3>7, <4>3
      <3>10. CASE e.kind # "direct"
        <4>1. /\ n - 1 > 0 /\ x = base + BitmapSlots * Word
              /\ {base + Word * k : k \in e.slots \cap 0 .. BitmapSlots - 1} =
                    {relative[k].at : k \in lo + 1 .. hi}
          BY <3>4, <3>10 DEF Holds
        <4>2. BitsFound(e.slots, base) = [j \in 1 .. hi - lo |-> relative[lo + j].at]
          <5>1. PICK slots : slots = e.slots
            OBVIOUS
          <5>2. BitsStandFor(slots, base, lo, hi)
            BY <4>1, <5>1 DEF BitsStandFor
          <5>3. relative \in Seq(Entry) /\ Increasing(relative)
            BY <1>1
          <5>4. BitsFound(slots, base) = [j \in 1 .. hi - lo |-> relative[lo + j].at]
            BY <3>8, <5>2, <5>3, BitmapLists
          <5> QED
            BY <5>1, <5>4
        <4>3. Targets(hi) = Targets(lo) \o BitsFound(e.slots, base)
          <5> DEFINE word(k) == relative[k].at
          <5> HIDE DEF word
          <5>1. PICK m \in Nat : m = hi - lo /\ hi = lo + m
            BY <3>8
          <5>2. [k \in 1 .. lo + m |-> word(k)] =
                   [k \in 1 .. lo |-> word(k)] \o [j \in 1 .. m |-> word(lo + j)]
            OBVIOUS
          <5> QED
            BY <4>2, <5>1, <5>2 DEF word, Targets
        <4>4. F[n - 1].cursor = base
          BY <3>5, <4>1
        <4>5. InspectorStep(F[n - 1], e) = [found |-> Targets(hi), cursor |-> x]
          BY <3>5, <3>10, <4>1, <4>3, <4>4 DEF InspectorStep
        <4> QED
          BY <3>6, <3>7, <4>5
      <3> QED
        BY <3>9, <3>10
    <2> QED
      BY <2>1, <2>2
  <1>3. Rec(F)
    <2> HIDE DEF step
    <2>1. F = [n \in 0 .. N |-> step(F, n)]
      BY <1>2
    <2> QED
      BY <2>1
  <1> DEFINE f == CHOOSE g : Rec(g)
  <1>4. Rec(f)
    <2> HIDE DEF Rec, F
    <2> QED
      BY <1>3
  <1>5. Inspected(relr) = f[N].found
    BY DEF Inspected
  <1>6. F[N].found = Targets(l[N])
    OBVIOUS
  <1> HIDE DEF f, F
  <1>7. \A n \in 0 .. N : f[n] = step(f, n) /\ F[n] = step(F, n)
    <2>1. \A n \in 0 .. N : f[n] = step(f, n)
      <3> HIDE DEF step
      <3> QED
        BY <1>4
    <2> QED
      BY <1>2, <2>1
  <1>8. \A n \in 0 .. N : f[n] = F[n]
    <2> DEFINE T == {n \in 0 .. N : f[n] # F[n]}
    <2> SUFFICES ASSUME T # {} PROVE FALSE
      OBVIOUS
    <2>1. PICK n \in T : \A k \in T : n <= k
      <3>1. T \in SUBSET Nat
        OBVIOUS
      <3> HIDE DEF T
      <3> QED
        BY <3>1, LeastOfSet
    <2>2. CASE n = 0
      BY <1>7, <2>1, <2>2
    <2>3. CASE n # 0
      <3>1. n - 1 \in 0 .. N /\ n - 1 < n
        BY <2>1, <2>3
      <3>2. f[n - 1] = F[n - 1]
        BY <2>1, <3>1
      <3> QED
        BY <1>7, <2>1, <2>3, <3>2
    <2> QED
      BY <2>2, <2>3
  <1> QED
    BY <1>5, <1>6, <1>8

LEMMA PieInvInspects == PieInv => InspectorListsTargets
  <1> SUFFICES ASSUME PieInv, phase \in {"layout", "relr"}, link.packed
               PROVE  Inspected(relr) = [k \in DOMAIN relative |-> relative[k].at]
    BY DEF InspectorListsTargets
  <1>1. CollectInv /\ SealInv /\ TableInv /\ RelrInv /\ Built
    BY DEF PieInv, Built
  <1>2. PICK S : relr \in Seq(S)
    BY <1>1 DEF SealInv
  <1>3. PICK b, l : Encodes(b, l) /\ Standing(b, l)
    BY <1>1 DEF RelrInv
  <1>4. l[Len(relr)] = Len(relative)
    BY <1>3 DEF Standing
  <1>5. Inspected(relr) = Targets(Len(relative))
    BY <1>1, <1>2, <1>3, <1>4, WordsListed
  <1>6. relative \in Seq(Entry)
    BY <1>1 DEF CollectInv
  <1> QED
    BY <1>5, <1>6 DEF Targets

(* InspectorListsTargets: mini-elf-dynrelr, which decodes DT_RELR in its   *)
(* own way, lists what the encoder packed, for every list of targets.      *)
THEOREM InspectorReadsThePackedTable == PieSpec => []InspectorListsTargets
  BY PieInvHolds, PieInvInspects, PTL

=============================================================================
