--------------------------- MODULE RelocatedWords_proofs ---------------------------
(***************************************************************************)
(* For every world: what the plan of a loaded image has accepted the later *)
(* passes carry out, the loader writes each word and entry once, and every *)
(* reference leads to the symbol it names.                                 *)
(*                                                                         *)
(* A world never changes, so what is said of it and of a plan is said here *)
(* of a given w and p; the invariants are about those that are the world   *)
(* and the plan of the state.                                              *)
(***************************************************************************)
EXTENDS RelocatedWords, DivisionFacts, SequenceTheorems

GoodWorld(w) == w.mode \in Modes /\ WellFormed(w.objects) /\ w.localized \subseteq STRING

LoadedIn(w)    == w.mode \in {"shared", "pie"}
Sites(w)       == SitesOf(w.objects)
Ref(w, x)      == RefAt(w.objects, x)
NameAt(w, x)   == Ref(w, x).sym.name
FlagsAt(w, x)  == TableAt(w.objects, x).flags
Known(w, n)    == n \in DOMAIN DefinitionsOf(w.objects)
DefOf(w, n)    == DefinitionsOf(w.objects)[n][2]

(* What stands behind a planned name: a reference that asks for it, and a  *)
(* definition or an import.                                                *)
Asked(w, type, n) == \E x \in Sites(w) : Ref(w, x).type = type /\ NameAt(w, x) = n
Named(w, p, n)    == Known(w, n) \/ n \in DOMAIN p.imports

PlanFields == {"imports", "sites", "got", "relativeGot", "copy", "copySites", "noncopy", "plt",
               "gd", "ie", "desc", "descCalls", "descSites", "dtpoffSites", "ld"}
GoodNames(w, p) ==
    /\ \A n \in p.got : Asked(w, "GOTPCREL", n) /\ Named(w, p, n) /\ (Known(w, n) => ~Protected(DefOf(w, n)))
    /\ \A n \in p.relativeGot : Asked(w, "GOTPCREL", n) /\ Known(w, n) /\ Protected(DefOf(w, n))
    /\ \A n \in p.plt : Asked(w, "PLT32", n) /\ Named(w, p, n) /\ (Known(w, n) => Preemptible(DefOf(w, n)))
    /\ \A n \in p.gd : Asked(w, "TLSGD", n) /\ Named(w, p, n)
    /\ \A n \in p.ie : Asked(w, "GOTTPOFF", n) /\ Named(w, p, n)
    /\ \A n \in p.desc : Asked(w, "GOTPC32_TLSDESC", n) /\ Named(w, p, n)
    /\ \A n \in p.copy : ~Known(w, n) /\ Named(w, p, n)
    /\ p.ld \in BOOLEAN /\ (p.ld => \E x \in Sites(w) : Ref(w, x).type = "TLSLD")
GoodSites(w, p) ==
    /\ \A x \in p.sites : /\ x \in Sites(w) /\ Ref(w, x).type = "64" /\ Writable(FlagsAt(w, x))
                          /\ Nonlocal(Ref(w, x).sym) /\ Named(w, p, NameAt(w, x))
    /\ \A x \in p.copySites : /\ x \in Sites(w) /\ Ref(w, x).type = "PC32"
                              /\ Nonlocal(Ref(w, x).sym) /\ NameAt(w, x) \in p.copy
    /\ \A x \in p.dtpoffSites : x \in Sites(w) /\ Ref(w, x).type = "DTPOFF32"
    /\ \A x \in p.descSites : x \in Sites(w) /\ Ref(w, x).type = "TLSDESC_CALL"
IsPlan(p) == p = [f \in PlanFields |-> p[f]]
GoodPlan(w, p) == IsPlan(p) /\ GoodNames(w, p) /\ GoodSites(w, p)

(* What the first pass has settled about a relocation, and the second.     *)
SettledTls(w, p, x) ==
    LET r == Ref(w, x)
        n == r.sym.name
    IN /\ r.type \in LdTypes => LocalTls(r.sym)
       /\ r.type = "TLSLD" => p.ld
       /\ r.type = "DTPOFF32" => x \in p.dtpoffSites
       /\ r.type \in TlsTypes \ LdTypes => /\ Nonlocal(r.sym) /\ r.sym.kind = "tls"
                                           /\ ~Known(w, n) => n \in DOMAIN p.imports
       /\ r.type = "TLSGD" => n \in p.gd
       /\ r.type = "GOTTPOFF" => n \in p.ie
       /\ r.type = "GOTPC32_TLSDESC" => n \in p.desc
       /\ r.type = "TLSDESC_CALL" => x \in p.descSites
       /\ r.type \notin TlsTypes => r.sym.kind # "tls"
SupportedIn(w, x) ==
    Ref(w, x).type \in TlsTypes \cup {"64", "PLT32", "GOTPCREL"} \cup IF w.mode = "pie" THEN {"PC32"} ELSE {}
SettledRest(w, p, x) ==
    LET r == Ref(w, x)
        n == r.sym.name
        d == DefOf(w, n)
    IN /\ SupportedIn(w, x)
       /\ r.type = "GOTPCREL" => Nonlocal(r.sym)
       /\ Nonlocal(r.sym) /\ ~Known(w, n) =>
            /\ r.type = "GOTPCREL" => n \in p.got
            /\ r.type = "PLT32" => n \in p.plt
            /\ r.type = "PC32" => x \in p.copySites
            /\ r.type = "64" => x \in p.sites
       /\ Nonlocal(r.sym) /\ Known(w, n) =>
            /\ r.type = "GOTPCREL" => n \in p.got \cup p.relativeGot
            /\ r.type = "PLT32" => n \in p.plt \/ Protected(d)
            /\ r.type = "PC32" => ~d.abs
            /\ r.type = "64" => x \in p.sites \/ Protected(d)

(* Where the passes have been.                                             *)
EarlierTable(x, a) == x[1] < a[1] \/ (x[1] = a[1] /\ x[2] < a[2])
SameTable(x, a)    == x[1] = a[1] /\ x[2] = a[2]
Earlier(x, a)      == EarlierTable(x, a) \/ (SameTable(x, a) /\ x[3] < a[3])
InTables == {"tls", "types", "rest", "next"}
Planning == InTables \cup {"symbols", "plan"}
TlsPast(x, a, ph) ==
    CASE ph = "tls" -> Earlier(x, a)
      [] ph \in {"types", "rest", "next"} -> EarlierTable(x, a) \/ SameTable(x, a)
      [] ph = "symbols" -> x[1] <= a[1]
      [] OTHER -> TRUE
RestPast(x, a, ph) ==
    CASE ph \in {"tls", "types"} -> EarlierTable(x, a)
      [] ph = "rest" -> Earlier(x, a)
      [] ph = "next" -> EarlierTable(x, a) \/ SameTable(x, a)
      [] ph = "symbols" -> x[1] <= a[1]
      [] OTHER -> TRUE
PlaceOK(w, a, ph) ==
    /\ ph \in InTables => a \in Sites(w)
    /\ ph \in {"types", "next"} => a[3] = 1
    /\ ph = "next" => a[2] < Len(w.objects[a[1]].tables)
    /\ ph = "symbols" => a[1] \in 1 .. Len(w.objects)
    /\ ph = "rest" => \A x \in Sites(w) : SameTable(x, a) => SupportedIn(w, x)

LatePhases(w) ==
    {"collect", "tables", "slots", "loaded"}
      \cup (IF LoadedIn(w) THEN {"patch", "loader"} ELSE {"static_tls"})
      \cup (IF w.mode = "static_pie" THEN {"loader"} ELSE {})
EarlyPhases(w) == IF LoadedIn(w) THEN Planning ELSE IF w.mode = "static_pie" THEN {"pie"} ELSE {}

Settled(w, p, a, ph) ==
    /\ GoodPlan(w, p)
    /\ PlaceOK(w, a, ph)
    /\ \A x \in Sites(w) : TlsPast(x, a, ph) => SettledTls(w, p, x)
    /\ \A x \in Sites(w) : RestPast(x, a, ph) => SettledRest(w, p, x)

(* What validate_position_independent_inputs has seen to.                  *)
PieFine(w, x) ==
    LET r == Ref(w, x)
        s == r.sym
        d == DefOf(w, s.name)
    IN /\ r.type \in PieTypes
       /\ r.type \in PcTypes /\ Nonlocal(s) /\ Known(w, s.name) => ~d.abs
       /\ r.type \in PcTypes /\ ~Nonlocal(s) => ~(s.def /\ s.abs)
       /\ r.type \in PcTypes /\ Nonlocal(s) /\ ~Known(w, s.name) => s.bind # "weak"

PlanAt(w, p, a, ph) ==
    /\ GoodWorld(w)
    /\ ph \in EarlyPhases(w) \cup LatePhases(w) \cup {"refused"}
    /\ LoadedIn(w) /\ ph # "refused" => Settled(w, p, a, ph)
    /\ ~LoadedIn(w) => p = EmptyPlan
    /\ w.mode = "static_pie" /\ ph \in LatePhases(w) => \A x \in Sites(w) : PieFine(w, x)
PlanInv ==
    \A w, p, a, ph : w = world /\ p = plan /\ a = at /\ ph = phase => PlanAt(w, p, a, ph)

-----------------------------------------------------------------------------
(* Sites, their relocations and the names they use.                        *)
LEMMA ElementOf ==
    ASSUME NEW S, NEW s \in Seq(S)
    PROVE  DOMAIN s = 1 .. Len(s) /\ Len(s) \in Nat /\ \A i \in 1 .. Len(s) : s[i] \in S
    OBVIOUS

LEMMA TablesTyped ==
    ASSUME NEW w, GoodWorld(w), NEW o \in 1 .. Len(w.objects)
    PROVE  /\ DOMAIN w.objects = 1 .. Len(w.objects) /\ Len(w.objects) \in Nat
           /\ w.objects[o].symbols \subseteq Symbol
           /\ DOMAIN w.objects[o].tables = 1 .. Len(w.objects[o].tables)
           /\ Len(w.objects[o].tables) \in Nat
           /\ \A t \in 1 .. Len(w.objects[o].tables) : w.objects[o].tables[t] \in InputTable
<1>1. w.objects \in Seq(InputObject)
  BY DEF GoodWorld, WellFormed
<1>2. DOMAIN w.objects = 1 .. Len(w.objects) /\ Len(w.objects) \in Nat /\ w.objects[o] \in InputObject
  BY <1>1, ElementOf
<1>3. w.objects[o].tables \in Seq(InputTable) /\ w.objects[o].symbols \subseteq Symbol
  BY <1>2 DEF InputObject
<1> QED
  BY <1>2, <1>3, ElementOf

LEMMA RefsTyped ==
    ASSUME NEW t \in InputTable
    PROVE  /\ t.flags \subseteq Flags /\ Len(t.refs) \in Nat \ {0} /\ DOMAIN t.refs = 1 .. Len(t.refs)
           /\ \A i \in 1 .. Len(t.refs) : t.refs[i] \in Reference
<1>1. t.flags \subseteq Flags /\ t.refs \in Seq(Reference) /\ t.refs # <<>>
  BY DEF InputTable
<1> HIDE DEF Reference
<1>2. DOMAIN t.refs = 1 .. Len(t.refs) /\ Len(t.refs) \in Nat /\ \A i \in 1 .. Len(t.refs) : t.refs[i] \in Reference
  BY <1>1, ElementOf
<1>3. Len(t.refs) # 0
  BY <1>1, EmptySeq
<1> QED
  BY <1>1, <1>2, <1>3

LEMMA SiteShape ==
    ASSUME NEW w, GoodWorld(w), NEW x
    PROVE  x \in Sites(w) <=> /\ x = <<x[1], x[2], x[3]>>
                              /\ x[1] \in 1 .. Len(w.objects)
                              /\ x[2] \in 1 .. Len(w.objects[x[1]].tables)
                              /\ x[3] \in 1 .. Len(w.objects[x[1]].tables[x[2]].refs)
<1>0. DOMAIN w.objects = 1 .. Len(w.objects)
  BY ElementOf DEF GoodWorld, WellFormed
<1>1. \A z : z \in TablesOf(w.objects) <=> \E o \in 1 .. Len(w.objects) : \E t \in 1 .. Len(w.objects[o].tables) : z = <<o, t>>
  BY <1>0, TablesTyped DEF TablesOf
<1>2. x \in Sites(w) <=> \E z \in TablesOf(w.objects) : \E i \in DOMAIN w.objects[z[1]].tables[z[2]].refs : x = <<z[1], z[2], i>>
  BY DEF Sites, SitesOf, TableAt
<1>3. \A o \in 1 .. Len(w.objects) : \A t \in 1 .. Len(w.objects[o].tables) :
        DOMAIN w.objects[o].tables[t].refs = 1 .. Len(w.objects[o].tables[t].refs)
  BY TablesTyped, RefsTyped
<1>4. x \in Sites(w) <=> \E o \in 1 .. Len(w.objects) : \E t \in 1 .. Len(w.objects[o].tables) :
                            \E i \in 1 .. Len(w.objects[o].tables[t].refs) : x = <<o, t, i>>
  <2>1. ASSUME NEW o \in 1 .. Len(w.objects), NEW t \in 1 .. Len(w.objects[o].tables), NEW z, z = <<o, t>>
        PROVE  (\E i \in DOMAIN w.objects[z[1]].tables[z[2]].refs : x = <<z[1], z[2], i>>)
                 <=> \E i \in 1 .. Len(w.objects[o].tables[t].refs) : x = <<o, t, i>>
    <3>1. z[1] = o /\ z[2] = t
      BY <2>1
    <3>2. DOMAIN w.objects[o].tables[t].refs = 1 .. Len(w.objects[o].tables[t].refs)
      BY <1>3
    <3> QED
      BY <3>1, <3>2
  <2>2. ASSUME x \in Sites(w)
        PROVE  \E o \in 1 .. Len(w.objects) : \E t \in 1 .. Len(w.objects[o].tables) :
                  \E i \in 1 .. Len(w.objects[o].tables[t].refs) : x = <<o, t, i>>
    <3>1. PICK z \in TablesOf(w.objects) : \E i \in DOMAIN w.objects[z[1]].tables[z[2]].refs : x = <<z[1], z[2], i>>
      BY <1>2, <2>2
    <3>2. PICK o \in 1 .. Len(w.objects) : \E t \in 1 .. Len(w.objects[o].tables) : z = <<o, t>>
      BY <1>1
    <3>3. PICK t \in 1 .. Len(w.objects[o].tables) : z = <<o, t>>
      BY <3>2
    <3>4. \E i \in 1 .. Len(w.objects[o].tables[t].refs) : x = <<o, t, i>>
      BY <2>1, <3>1, <3>3
    <3> QED
      BY <3>4
  <2>3. ASSUME NEW o \in 1 .. Len(w.objects), NEW t \in 1 .. Len(w.objects[o].tables),
               \E i \in 1 .. Len(w.objects[o].tables[t].refs) : x = <<o, t, i>>
        PROVE  x \in Sites(w)
    <3>1. PICK z : z = <<o, t>>
      OBVIOUS
    <3>2. z \in TablesOf(w.objects)
      BY <1>1, <3>1
    <3>3. \E i \in DOMAIN w.objects[z[1]].tables[z[2]].refs : x = <<z[1], z[2], i>>
      BY <2>1, <2>3, <3>1, SMTT(30)
    <3> QED
      BY <1>2, <3>2, <3>3
  <2> QED
    BY <2>2, <2>3
<1> QED
  BY <1>4

LEMMA SiteTyped ==
    ASSUME NEW w, GoodWorld(w), NEW x \in Sites(w)
    PROVE  /\ Ref(w, x) \in Reference /\ Ref(w, x).sym \in Symbol
           /\ x[1] \in DOMAIN w.objects /\ Ref(w, x).sym \in w.objects[x[1]].symbols
           /\ FlagsAt(w, x) \subseteq Flags
           /\ x[1] \in Nat /\ x[2] \in Nat /\ x[3] \in Nat \ {0}
<1>1. /\ x[1] \in 1 .. Len(w.objects)
      /\ x[2] \in 1 .. Len(w.objects[x[1]].tables)
      /\ x[3] \in 1 .. Len(w.objects[x[1]].tables[x[2]].refs)
  BY SiteShape
<1>2. /\ w.objects[x[1]].tables[x[2]] \in InputTable /\ w.objects[x[1]].symbols \subseteq Symbol
      /\ x[1] \in DOMAIN w.objects /\ x[2] \in DOMAIN w.objects[x[1]].tables
      /\ Len(w.objects) \in Nat /\ Len(w.objects[x[1]].tables) \in Nat
  BY <1>1, TablesTyped
<1>3. /\ w.objects[x[1]].tables[x[2]].refs[x[3]] \in Reference
      /\ w.objects[x[1]].tables[x[2]].flags \subseteq Flags
      /\ Len(w.objects[x[1]].tables[x[2]].refs) \in Nat
      /\ x[3] \in DOMAIN w.objects[x[1]].tables[x[2]].refs
  BY <1>1, <1>2, RefsTyped
<1>4. w.objects[x[1]].tables[x[2]].refs[x[3]].sym \in w.objects[x[1]].symbols
  BY <1>2, <1>3 DEF GoodWorld, WellFormed
<1>5. x[1] \in Nat /\ x[2] \in Nat /\ x[3] \in Nat \ {0}
  BY <1>1, <1>2, <1>3
<1> QED
  BY <1>2, <1>3, <1>4, <1>5 DEF Ref, RefAt, FlagsAt, TableAt

(* The first entry of a table is a site.                                   *)
LEMMA FirstSite ==
    ASSUME NEW w, GoodWorld(w), NEW o \in 1 .. Len(w.objects), NEW t \in 1 .. Len(w.objects[o].tables)
    PROVE  <<o, t, 1>> \in Sites(w)
<1>1. w.objects[o].tables[t] \in InputTable
  BY TablesTyped
<1>2. 1 \in 1 .. Len(w.objects[o].tables[t].refs)
  BY <1>1, RefsTyped
<1> DEFINE x == <<o, t, 1>>
<1>3. x[1] = o /\ x[2] = t /\ x[3] = 1
  OBVIOUS
<1> HIDE DEF x
<1>4. x = <<x[1], x[2], x[3]>>
  BY <1>3 DEF x
<1>5. x \in Sites(w)
  BY <1>2, <1>3, <1>4, SiteShape
<1> QED
  BY <1>5 DEF x

LEMMA DefinitionKnown ==
    ASSUME NEW w, NEW o \in DOMAIN w.objects, NEW s \in w.objects[o].symbols, s.def, Nonlocal(s)
    PROVE  Known(w, s.name)
<1>1. <<o, s>> \in Defining(w.objects)
  BY DEF Defining
<1> QED
  BY <1>1 DEF Known, DefinitionsOf

LEMMA KnownDefinition ==
    ASSUME NEW w, NEW n, Known(w, n)
    PROVE  /\ DefinitionsOf(w.objects)[n] \in Defining(w.objects)
           /\ DefOf(w, n).def /\ Nonlocal(DefOf(w, n)) /\ DefOf(w, n).name = n
<1> DEFINE D == Defining(w.objects)
<1>1. DefinitionsOf(w.objects) = [m \in {d[2].name : d \in D} |-> CHOOSE d \in D : d[2].name = m]
  BY DEF DefinitionsOf
<1>2. \A d \in D : d[2].def /\ Nonlocal(d[2])
  BY DEF Defining
<1> HIDE DEF D
<1>3. n \in {d[2].name : d \in D}
  BY <1>1 DEF Known
<1>4. DefinitionsOf(w.objects)[n] = CHOOSE d \in D : d[2].name = n
  BY <1>1, <1>3
<1>5. (CHOOSE d \in D : d[2].name = n) \in D /\ (CHOOSE d \in D : d[2].name = n)[2].name = n
  BY <1>3
<1> QED
  BY <1>2, <1>4, <1>5 DEF DefOf, D

(* For a symbol with a name, to be resolved is to have a definition.       *)
LEMMA ResolvedIffKnown ==
    ASSUME GoodWorld(world), NEW x \in Sites(world), Nonlocal(Ref(world, x).sym)
    PROVE  /\ Unresolved(Ref(world, x).sym) <=> ~Known(world, NameAt(world, x))
           /\ Definition(Ref(world, x).sym) = DefOf(world, NameAt(world, x))
<1>1. Ref(world, x).sym \in world.objects[x[1]].symbols /\ x[1] \in DOMAIN world.objects
  BY SiteTyped
<1>2. Ref(world, x).sym.def => Known(world, Ref(world, x).sym.name)
  BY <1>1, DefinitionKnown
<1> QED
  BY <1>2 DEF Unresolved, Defined, Definitions, Definition, Known, NameAt, DefOf, objects

-----------------------------------------------------------------------------
(* One relocation after the other: what lies behind the next place.        *)
LEMMA NextInTable ==
    ASSUME NEW w, GoodWorld(w), NEW a \in Sites(w), a[3] < Len(w.objects[a[1]].tables[a[2]].refs),
           NEW b, b = <<a[1], a[2], a[3] + 1>>
    PROVE  /\ b \in Sites(w) /\ b[1] = a[1] /\ b[2] = a[2] /\ b[3] = a[3] + 1
           /\ \A x \in Sites(w) : Earlier(x, b) => Earlier(x, a) \/ x = a
<1>1. /\ a = <<a[1], a[2], a[3]>>
      /\ a[1] \in 1 .. Len(w.objects) /\ a[2] \in 1 .. Len(w.objects[a[1]].tables)
      /\ a[3] \in 1 .. Len(w.objects[a[1]].tables[a[2]].refs)
      /\ a[3] \in Nat
  BY SiteShape, SiteTyped
<1>2. w.objects[a[1]].tables[a[2]] \in InputTable
  BY <1>1, TablesTyped
<1>3. Len(w.objects[a[1]].tables[a[2]].refs) \in Nat
  BY <1>2, RefsTyped
<1>5. b[1] = a[1] /\ b[2] = a[2] /\ b[3] = a[3] + 1 /\ b = <<b[1], b[2], b[3]>>
  OBVIOUS
<1>6. b[3] \in 1 .. Len(w.objects[a[1]].tables[a[2]].refs)
  BY <1>1, <1>3, <1>5, SMTT(30)
<1>7. b \in Sites(w)
  BY <1>1, <1>5, <1>6, SiteShape
<1>8. ASSUME NEW x \in Sites(w), Earlier(x, b), ~Earlier(x, a)
      PROVE  x = a
  <2>1. x[3] \in Nat /\ x = <<x[1], x[2], x[3]>>
    BY SiteTyped, SiteShape
  <2>2. x[1] = a[1] /\ x[2] = a[2] /\ x[3] < a[3] + 1 /\ ~(x[3] < a[3])
    BY <1>5, <1>8 DEF Earlier, EarlierTable, SameTable
  <2>3. x[3] = a[3]
    BY <1>1, <2>1, <2>2
  <2> QED
    BY <1>1, <2>1, <2>2, <2>3
<1> QED
  BY <1>5, <1>7, <1>8

LEMMA LastInTable ==
    ASSUME NEW w, GoodWorld(w), NEW a \in Sites(w), ~(a[3] < Len(w.objects[a[1]].tables[a[2]].refs)),
           NEW b, b = <<a[1], a[2], 1>>
    PROVE  /\ b \in Sites(w) /\ b[1] = a[1] /\ b[2] = a[2] /\ b[3] = 1
           /\ \A x \in Sites(w) : EarlierTable(x, b) \/ SameTable(x, b) => Earlier(x, a) \/ x = a
           /\ ~(a[2] < Len(w.objects[a[1]].tables)) =>
                \A x \in Sites(w) : x[1] <= b[1] => Earlier(x, a) \/ x = a
<1>1. /\ a = <<a[1], a[2], a[3]>>
      /\ a[1] \in 1 .. Len(w.objects) /\ a[2] \in 1 .. Len(w.objects[a[1]].tables)
      /\ a[3] \in 1 .. Len(w.objects[a[1]].tables[a[2]].refs)
      /\ a[1] \in Nat /\ a[2] \in Nat /\ a[3] \in Nat
  BY SiteShape, SiteTyped
<1>2. w.objects[a[1]].tables[a[2]] \in InputTable /\ Len(w.objects[a[1]].tables) \in Nat
  BY <1>1, TablesTyped
<1>3. Len(w.objects[a[1]].tables[a[2]].refs) \in Nat
  BY <1>2, RefsTyped
<1>5. b[1] = a[1] /\ b[2] = a[2] /\ b[3] = 1
  OBVIOUS
<1>6. b \in Sites(w)
  <2>1. <<a[1], a[2], 1>> \in Sites(w)
    BY <1>1, FirstSite
  <2> QED
    BY <2>1
<1>7. ASSUME NEW x \in Sites(w), x[1] = a[1], x[2] = a[2]
      PROVE  Earlier(x, a) \/ x = a
  <2>1. x = <<x[1], x[2], x[3]>> /\ x[3] \in 1 .. Len(w.objects[a[1]].tables[a[2]].refs) /\ x[3] \in Nat
    BY <1>7, SiteShape, SiteTyped
  <2>2. x[3] < a[3] \/ x[3] = a[3]
    BY <1>1, <1>3, <2>1, SMTT(30)
  <2> QED
    BY <1>1, <1>7, <2>1, <2>2 DEF Earlier, SameTable
<1>8. \A x \in Sites(w) : EarlierTable(x, b) \/ SameTable(x, b) => Earlier(x, a) \/ x = a
  BY <1>5, <1>7 DEF Earlier, EarlierTable, SameTable
<1>9. ASSUME ~(a[2] < Len(w.objects[a[1]].tables)), NEW x \in Sites(w), x[1] <= b[1]
      PROVE  Earlier(x, a) \/ x = a
  <2>1. x[1] \in Nat /\ x[2] \in Nat /\ (x[1] = a[1] => x[2] \in 1 .. Len(w.objects[a[1]].tables))
    BY SiteShape, SiteTyped
  <2>2. x[1] < a[1] \/ (x[1] = a[1] /\ x[2] < a[2]) \/ (x[1] = a[1] /\ x[2] = a[2])
    BY <1>1, <1>2, <1>5, <1>9, <2>1
  <2> QED
    BY <1>7, <2>2 DEF Earlier, EarlierTable
<1> QED
  BY <1>5, <1>6, <1>8, <1>9

-----------------------------------------------------------------------------
(* The sets of a plan only grow, and what is settled stays settled.        *)
Grows(p, q) ==
    /\ p.sites \subseteq q.sites /\ p.got \subseteq q.got /\ p.relativeGot \subseteq q.relativeGot
    /\ p.copySites \subseteq q.copySites /\ p.plt \subseteq q.plt /\ p.gd \subseteq q.gd
    /\ p.ie \subseteq q.ie /\ p.desc \subseteq q.desc /\ p.descSites \subseteq q.descSites
    /\ p.dtpoffSites \subseteq q.dtpoffSites /\ (p.ld => q.ld)
    /\ DOMAIN p.imports \subseteq DOMAIN q.imports

LEMMA SettledStays ==
    ASSUME NEW w, NEW p, NEW q, NEW x, Grows(p, q)
    PROVE  /\ SettledTls(w, p, x) => SettledTls(w, q, x)
           /\ SettledRest(w, p, x) => SettledRest(w, q, x)
<1>1. SettledTls(w, p, x) => SettledTls(w, q, x)
  BY DEF Grows, SettledTls
<1>2. SettledRest(w, p, x) => SettledRest(w, q, x)
  BY DEF Grows, SettledRest
<1> QED
  BY <1>1, <1>2

LEMMA NamedStays ==
    ASSUME NEW w, NEW p, NEW q, Grows(p, q), NEW n, Named(w, p, n)
    PROVE  Named(w, q, n)
    BY DEF Grows, Named

(* The first pass: what a thread-local reference adds.                     *)
TlsAdds(p, q, r, a, imported) ==
    LET n == r.sym.name IN
    /\ IsPlan(q)
    /\ q.sites = p.sites /\ q.got = p.got /\ q.relativeGot = p.relativeGot
    /\ q.copy = p.copy /\ q.copySites = p.copySites /\ q.plt = p.plt
    /\ q.gd = p.gd \cup IF r.type = "TLSGD" THEN {n} ELSE {}
    /\ q.ie = p.ie \cup IF r.type = "GOTTPOFF" THEN {n} ELSE {}
    /\ q.desc = p.desc \cup IF r.type = "GOTPC32_TLSDESC" THEN {n} ELSE {}
    /\ q.descSites = p.descSites \cup IF r.type = "TLSDESC_CALL" THEN {a} ELSE {}
    /\ q.dtpoffSites = p.dtpoffSites \cup IF r.type = "DTPOFF32" THEN {a} ELSE {}
    /\ q.ld = (p.ld \/ r.type = "TLSLD")
    /\ DOMAIN q.imports = DOMAIN p.imports \cup IF imported THEN {n} ELSE {}

LEMMA TlsPlannedAdds ==
    ASSUME IsPlan(plan), plan.ld \in BOOLEAN, NEW r
    PROVE  TlsAdds(plan, TlsPlanned(r), r, at, r.type \in TlsTypes \ LdTypes /\ Unresolved(r.sym))
<1> DEFINE imported == r.type \in TlsTypes \ LdTypes /\ Unresolved(r.sym)
           n == r.sym.name
           base == IF imported THEN [plan EXCEPT !.noncopy = @ \cup {n}, !.imports = Recorded(r.sym, "tls")]
                               ELSE plan
<1>1. DOMAIN Recorded(r.sym, "tls") = DOMAIN plan.imports \cup {n}
  BY DEF Recorded
<1>2. /\ IsPlan(base) /\ DOMAIN base = PlanFields
      /\ DOMAIN base.imports = DOMAIN plan.imports \cup IF imported THEN {n} ELSE {}
      /\ base.sites = plan.sites /\ base.got = plan.got /\ base.relativeGot = plan.relativeGot
      /\ base.copy = plan.copy /\ base.copySites = plan.copySites /\ base.plt = plan.plt
      /\ base.gd = plan.gd /\ base.ie = plan.ie /\ base.desc = plan.desc /\ base.ld = plan.ld
      /\ base.descSites = plan.descSites /\ base.dtpoffSites = plan.dtpoffSites
  BY <1>1 DEF PlanFields, IsPlan
<1>3. TlsPlanned(r) =
        CASE r.type = "GOTPC32_TLSDESC" -> [base EXCEPT !.desc = @ \cup {n}]
          [] r.type = "TLSDESC_CALL"    -> [base EXCEPT !.descCalls = @ \cup {n}, !.descSites = @ \cup {at}]
          [] r.type = "TLSGD"    -> [base EXCEPT !.gd = @ \cup {n}]
          [] r.type = "GOTTPOFF" -> [base EXCEPT !.ie = @ \cup {n}]
          [] r.type = "TLSLD"    -> [base EXCEPT !.ld = TRUE]
          [] r.type = "DTPOFF32" -> [base EXCEPT !.dtpoffSites = @ \cup {at}]
          [] OTHER -> base
  BY DEF TlsPlanned
<1>4. n = r.sym.name
  OBVIOUS
<1> HIDE DEF base, imported, n
<1>5. TlsAdds(plan, TlsPlanned(r), r, at, imported)
  <2>1. CASE r.type = "GOTPC32_TLSDESC"
    <3>1. TlsPlanned(r) = [base EXCEPT !.desc = @ \cup {n}]
      BY <1>3, <2>1
    <3> QED
      BY <1>2, <1>4, <2>1, <3>1 DEF TlsAdds, PlanFields, IsPlan
  <2>2. CASE r.type = "TLSDESC_CALL"
    <3>1. TlsPlanned(r) = [base EXCEPT !.descCalls = @ \cup {n}, !.descSites = @ \cup {at}]
      BY <1>3, <2>2
    <3> QED
      BY <1>2, <1>4, <2>2, <3>1, ZenonT(40) DEF TlsAdds, PlanFields, IsPlan
  <2>3. CASE r.type = "TLSGD"
    <3>1. TlsPlanned(r) = [base EXCEPT !.gd = @ \cup {n}]
      BY <1>3, <2>3
    <3> QED
      BY <1>2, <1>4, <2>3, <3>1 DEF TlsAdds, PlanFields, IsPlan
  <2>4. CASE r.type = "GOTTPOFF"
    <3>1. TlsPlanned(r) = [base EXCEPT !.ie = @ \cup {n}]
      BY <1>3, <2>4
    <3> QED
      BY <1>2, <1>4, <2>4, <3>1 DEF TlsAdds, PlanFields, IsPlan
  <2>5. CASE r.type = "TLSLD"
    <3>1. TlsPlanned(r) = [base EXCEPT !.ld = TRUE]
      BY <1>3, <2>5
    <3> QED
      BY <1>2, <1>4, <2>5, <3>1 DEF TlsAdds, PlanFields, IsPlan
  <2>6. CASE r.type = "DTPOFF32"
    <3>1. TlsPlanned(r) = [base EXCEPT !.dtpoffSites = @ \cup {at}]
      BY <1>3, <2>6
    <3> QED
      BY <1>2, <1>4, <2>6, <3>1 DEF TlsAdds, PlanFields, IsPlan
  <2>7. CASE r.type \notin {"GOTPC32_TLSDESC", "TLSDESC_CALL", "TLSGD", "GOTTPOFF", "TLSLD", "DTPOFF32"}
    <3>1. TlsPlanned(r) = base
      BY <1>3, <2>7
    <3> QED
      BY <1>2, <1>4, <2>7, <3>1 DEF TlsAdds, PlanFields, IsPlan
  <2> QED
    BY <2>1, <2>2, <2>3, <2>4, <2>5, <2>6, <2>7
<1> QED
  BY <1>5 DEF imported

(* What the first pass accepts.                                            *)
TlsAccepted(w, r) ==
    /\ r.type \in LdTypes => LocalTls(r.sym)
    /\ r.type \in TlsTypes \ LdTypes => Nonlocal(r.sym) /\ r.sym.kind = "tls"
    /\ r.type \notin TlsTypes => r.sym.kind # "tls"

LEMMA TlsAcceptance ==
    ASSUME NEW r, NEW flags, LoadedIn(world), TlsRefusal(r, flags) = "none"
    PROVE  TlsAccepted(world, r)
<1>1. CASE r.type \in LdTypes
  BY <1>1 DEF TlsRefusal, TlsAccepted, TlsTypes
<1>2. CASE r.type \in TlsTypes \ LdTypes
  <2>1. mode = "pie" => PieTlsReference(r.sym)
    BY <1>2 DEF TlsRefusal
  <2>2. DynamicTlsReference(r.sym)
    BY <1>2 DEF TlsRefusal
  <2> QED
    BY <1>2, <2>2 DEF TlsAccepted, DynamicTlsReference
<1>3. CASE r.type \notin TlsTypes
  BY <1>3 DEF TlsRefusal, TlsAccepted, TlsTypes
<1> QED
  BY <1>1, <1>2, <1>3

LEMMA TlsStepKeeps ==
    ASSUME NEW w, GoodWorld(w), NEW p, GoodPlan(w, p), NEW a \in Sites(w), TlsAccepted(w, Ref(w, a)),
           NEW q, NEW imported,
           imported <=> (Ref(w, a).type \in TlsTypes \ LdTypes /\ ~Known(w, NameAt(w, a))),
           TlsAdds(p, q, Ref(w, a), a, imported)
    PROVE  GoodPlan(w, q) /\ Grows(p, q) /\ SettledTls(w, q, a)
<1>1. Grows(p, q)
  BY DEF TlsAdds, Grows
<1>2. SettledTls(w, q, a)
  BY DEF SettledTls, TlsAdds, TlsAccepted, NameAt, TlsTypes, LdTypes, DescTypes
<1>3. Ref(w, a).type \in TlsTypes \ LdTypes => Named(w, q, NameAt(w, a))
  BY <1>2 DEF SettledTls, Named, NameAt
<1>4. \A n : Named(w, p, n) => Named(w, q, n)
  BY <1>1, NamedStays
<1>5. \A type : Ref(w, a).type = type => Asked(w, type, NameAt(w, a))
  BY DEF Asked
<1>6. GoodNames(w, q)
  <2>1. /\ \A n \in q.gd : Asked(w, "TLSGD", n) /\ Named(w, q, n)
        /\ \A n \in q.ie : Asked(w, "GOTTPOFF", n) /\ Named(w, q, n)
        /\ \A n \in q.desc : Asked(w, "GOTPC32_TLSDESC", n) /\ Named(w, q, n)
    BY <1>3, <1>4, <1>5 DEF GoodPlan, GoodNames, TlsAdds, NameAt, TlsTypes, LdTypes, DescTypes
  <2>2. q.ld \in BOOLEAN /\ (q.ld => \E x \in Sites(w) : Ref(w, x).type = "TLSLD")
    BY DEF GoodPlan, GoodNames, TlsAdds
  <2> QED
    BY <1>4, <2>1, <2>2 DEF GoodPlan, GoodNames, TlsAdds
<1>7. GoodSites(w, q)
  BY <1>4 DEF GoodPlan, GoodSites, TlsAdds
<1> QED
  BY <1>1, <1>2, <1>6, <1>7 DEF GoodPlan, TlsAdds

-----------------------------------------------------------------------------
(* From place to place, with a plan that has grown.                        *)
EntriesOf(w, a) == Len(w.objects[a[1]].tables[a[2]].refs)

LEMMA TlsAdvance ==
    ASSUME NEW w, GoodWorld(w), NEW p, NEW a, Settled(w, p, a, "tls"),
           NEW q, GoodPlan(w, q), Grows(p, q), SettledTls(w, q, a), NEW b, NEW ph,
           \/ a[3] < EntriesOf(w, a) /\ b = <<a[1], a[2], a[3] + 1>> /\ ph = "tls"
           \/ ~(a[3] < EntriesOf(w, a)) /\ b = <<a[1], a[2], 1>> /\ ph = "types"
    PROVE  Settled(w, q, b, ph)
<1>1. a \in Sites(w)
  BY DEF Settled, PlaceOK, InTables
<1>2. /\ b \in Sites(w) /\ b[1] = a[1] /\ b[2] = a[2] /\ (ph = "types" => b[3] = 1)
      /\ \A x \in Sites(w) : TlsPast(x, b, ph) => Earlier(x, a) \/ x = a
  <2>1. CASE a[3] < EntriesOf(w, a) /\ b = <<a[1], a[2], a[3] + 1>> /\ ph = "tls"
    <3>1. /\ b \in Sites(w) /\ b[1] = a[1] /\ b[2] = a[2]
          /\ \A x \in Sites(w) : Earlier(x, b) => Earlier(x, a) \/ x = a
      BY <1>1, <2>1, NextInTable DEF EntriesOf
    <3> QED
      BY <2>1, <3>1, SMTT(30) DEF TlsPast
  <2>2. CASE ~(a[3] < EntriesOf(w, a)) /\ b = <<a[1], a[2], 1>> /\ ph = "types"
    <3>1. /\ b \in Sites(w) /\ b[1] = a[1] /\ b[2] = a[2] /\ b[3] = 1
          /\ \A x \in Sites(w) : EarlierTable(x, b) \/ SameTable(x, b) => Earlier(x, a) \/ x = a
      BY <1>1, <2>2, LastInTable DEF EntriesOf
    <3> QED
      BY <2>2, <3>1, SMTT(30) DEF TlsPast
  <2> QED
    BY <2>1, <2>2
<1>3. \A x \in Sites(w) : TlsPast(x, b, ph) => SettledTls(w, q, x)
  BY <1>2, SettledStays DEF Settled, TlsPast
<1>4. \A x \in Sites(w) : RestPast(x, b, ph) => RestPast(x, a, "tls")
  BY <1>2 DEF RestPast, EarlierTable
<1>5. \A x \in Sites(w) : RestPast(x, b, ph) => SettledRest(w, q, x)
  BY <1>4, SettledStays DEF Settled
<1>6. PlaceOK(w, b, ph)
  BY <1>2 DEF PlaceOK, InTables
<1> QED
  BY <1>3, <1>5, <1>6 DEF Settled

LEMMA RestAdvance ==
    ASSUME NEW w, GoodWorld(w), NEW p, NEW a, Settled(w, p, a, "rest"),
           NEW q, GoodPlan(w, q), Grows(p, q), SettledRest(w, q, a), NEW b, NEW ph,
           \/ a[3] < EntriesOf(w, a) /\ b = <<a[1], a[2], a[3] + 1>> /\ ph = "rest"
           \/ /\ ~(a[3] < EntriesOf(w, a)) /\ b = <<a[1], a[2], 1>>
              /\ ph = IF a[2] < Len(w.objects[a[1]].tables) THEN "next" ELSE "symbols"
    PROVE  Settled(w, q, b, ph)
<1>1. a \in Sites(w) /\ a[1] \in 1 .. Len(w.objects)
  BY SiteShape DEF Settled, PlaceOK, InTables
<1>2. /\ b \in Sites(w) /\ b[1] = a[1] /\ b[2] = a[2] /\ (ph = "next" => b[3] = 1)
      /\ \A x \in Sites(w) : RestPast(x, b, ph) => Earlier(x, a) \/ x = a
  <2>1. CASE a[3] < EntriesOf(w, a) /\ b = <<a[1], a[2], a[3] + 1>> /\ ph = "rest"
    <3>1. /\ b \in Sites(w) /\ b[1] = a[1] /\ b[2] = a[2]
          /\ \A x \in Sites(w) : Earlier(x, b) => Earlier(x, a) \/ x = a
      BY <1>1, <2>1, NextInTable DEF EntriesOf
    <3> QED
      BY <2>1, <3>1, SMTT(30) DEF RestPast
  <2>2. CASE /\ ~(a[3] < EntriesOf(w, a)) /\ b = <<a[1], a[2], 1>>
             /\ ph = IF a[2] < Len(w.objects[a[1]].tables) THEN "next" ELSE "symbols"
    <3>1. /\ b \in Sites(w) /\ b[1] = a[1] /\ b[2] = a[2] /\ b[3] = 1
          /\ \A x \in Sites(w) : EarlierTable(x, b) \/ SameTable(x, b) => Earlier(x, a) \/ x = a
          /\ ~(a[2] < Len(w.objects[a[1]].tables)) =>
               \A x \in Sites(w) : x[1] <= b[1] => Earlier(x, a) \/ x = a
      BY <1>1, <2>2, LastInTable DEF EntriesOf
    <3>2. CASE ph = "next"
      BY <2>2, <3>1, <3>2 DEF RestPast
    <3>3. CASE ph = "symbols"
      BY <2>2, <3>1, <3>3 DEF RestPast
    <3> QED
      BY <2>2, <3>2, <3>3, SMTT(30)
  <2> QED
    BY <2>1, <2>2
<1>3. \A x \in Sites(w) : RestPast(x, b, ph) => SettledRest(w, q, x)
  BY <1>2, SettledStays DEF Settled, RestPast
<1>4. \A x \in Sites(w) : Earlier(x, a) \/ x = a => TlsPast(x, a, "rest")
  BY DEF TlsPast, Earlier, SameTable
<1>5. ph \in {"rest", "next", "symbols"}
  OBVIOUS
<1>6. \A x \in Sites(w) : TlsPast(x, b, ph) => TlsPast(x, a, "rest")
  <2>1. CASE ph \in {"rest", "next"}
    BY <1>2, <2>1 DEF TlsPast, EarlierTable, SameTable
  <2>2. CASE ph = "symbols"
    BY <1>2, <1>4, <2>2 DEF TlsPast, RestPast
  <2> QED
    BY <1>5, <2>1, <2>2
<1>7. \A x \in Sites(w) : TlsPast(x, b, ph) => SettledTls(w, q, x)
  BY <1>6, SettledStays DEF Settled
<1>8. PlaceOK(w, b, ph)
  BY <1>1, <1>2, <1>5 DEF PlaceOK, InTables, Settled, SameTable
<1> QED
  BY <1>3, <1>7, <1>8 DEF Settled

LEMMA TypesAdvance ==
    ASSUME NEW w, GoodWorld(w), NEW p, NEW a, Settled(w, p, a, "types"),
           \A x \in Sites(w) : SameTable(x, a) => SupportedIn(w, x)
    PROVE  Settled(w, p, a, "rest")
<1>1. \A x \in Sites(w) : TlsPast(x, a, "rest") => TlsPast(x, a, "types")
  BY DEF TlsPast
<1>2. \A x \in Sites(w) : RestPast(x, a, "rest") => RestPast(x, a, "types")
  BY SiteTyped DEF RestPast, Earlier, Settled, PlaceOK
<1> QED
  BY <1>1, <1>2 DEF Settled, PlaceOK, InTables

LEMMA TableAdvance ==
    ASSUME NEW w, GoodWorld(w), NEW p, NEW a, Settled(w, p, a, "next")
    PROVE  Settled(w, p, <<a[1], a[2] + 1, 1>>, "tls")
<1> DEFINE b == <<a[1], a[2] + 1, 1>>
<1>1. /\ a \in Sites(w) /\ a[1] \in 1 .. Len(w.objects) /\ a[2] \in 1 .. Len(w.objects[a[1]].tables)
      /\ a[2] < Len(w.objects[a[1]].tables) /\ a[1] \in Nat /\ a[2] \in Nat
  BY SiteShape, SiteTyped DEF Settled, PlaceOK, InTables
<1>2. Len(w.objects[a[1]].tables) \in Nat
  BY <1>1, TablesTyped
<1>3. b[1] = a[1] /\ b[2] = a[2] + 1 /\ b[3] = 1 /\ b[2] \in 1 .. Len(w.objects[a[1]].tables)
  BY <1>1, <1>2, SMTT(30)
<1>4. b \in Sites(w)
  BY <1>1, <1>3, FirstSite
<1> HIDE DEF b
<1>5. \A x \in Sites(w) : /\ TlsPast(x, b, "tls") => TlsPast(x, a, "next")
                          /\ RestPast(x, b, "tls") => RestPast(x, a, "next")
  BY <1>1, <1>3, SiteTyped DEF TlsPast, RestPast, Earlier, EarlierTable, SameTable
<1>6. Settled(w, p, b, "tls")
  BY <1>4, <1>5 DEF Settled, PlaceOK, InTables
<1> QED
  BY <1>6 DEF b

LEMMA ObjectAdvance ==
    ASSUME NEW w, GoodWorld(w), NEW p, NEW a, Settled(w, p, a, "symbols"), a[1] < Len(w.objects),
           NEW ph, ph = IF w.objects[a[1] + 1].tables = <<>> THEN "symbols" ELSE "tls"
    PROVE  Settled(w, p, <<a[1] + 1, 1, 1>>, ph)
<1> DEFINE b == <<a[1] + 1, 1, 1>>
<1>1. a[1] \in 1 .. Len(w.objects)
  BY DEF Settled, PlaceOK
<1>2. Len(w.objects) \in Nat
  BY <1>1, TablesTyped
<1>3. b[1] = a[1] + 1 /\ b[2] = 1 /\ b[3] = 1 /\ b[1] \in 1 .. Len(w.objects) /\ a[1] \in Nat
  BY <1>1, <1>2
<1> HIDE DEF b
<1>4. w.objects[b[1]].tables \in Seq(InputTable) /\ Len(w.objects[b[1]].tables) \in Nat
  <2>1. w.objects \in Seq(InputObject)
    BY DEF GoodWorld, WellFormed
  <2>2. w.objects[b[1]] \in InputObject
    BY <1>3, <2>1, ElementOf
  <2> QED
    BY <2>2, ElementOf DEF InputObject
<1>5. CASE ph = "symbols"
  <2>1. Len(w.objects[b[1]].tables) = 0
    BY <1>3, <1>5
  <2>2. \A x \in Sites(w) : x[1] # b[1]
    BY <2>1, SiteShape
  <2>3. \A x \in Sites(w) : x[1] <= b[1] => x[1] <= a[1]
    BY <1>3, <2>2, SiteTyped
  <2>4. \A x \in Sites(w) : /\ TlsPast(x, b, ph) => TlsPast(x, a, "symbols")
                            /\ RestPast(x, b, ph) => RestPast(x, a, "symbols")
    BY <1>5, <2>3 DEF TlsPast, RestPast
  <2>5. Settled(w, p, b, ph)
    BY <1>3, <1>5, <2>4 DEF Settled, PlaceOK, InTables
  <2> QED
    BY <2>5 DEF b
<1>6. CASE ph = "tls"
  <2>1. w.objects[b[1]].tables # <<>>
    BY <1>3, <1>6
  <2>2. 1 \in 1 .. Len(w.objects[b[1]].tables)
    BY <1>4, <2>1, EmptySeq
  <2>3. <<b[1], 1, 1>> \in Sites(w)
    BY <1>3, <2>2, FirstSite
  <2>4. b \in Sites(w)
    BY <1>3, <2>3 DEF b
  <2>5. \A x \in Sites(w) : x[1] <= a[1] \/ ~(EarlierTable(x, b) \/ Earlier(x, b))
    BY <1>3, SiteTyped, SiteShape DEF Earlier, EarlierTable, SameTable
  <2>6. \A x \in Sites(w) : /\ TlsPast(x, b, ph) => TlsPast(x, a, "symbols")
                            /\ RestPast(x, b, ph) => RestPast(x, a, "symbols")
    BY <1>6, <2>5 DEF TlsPast, RestPast
  <2>7. Settled(w, p, b, ph)
    BY <1>6, <2>4, <2>6 DEF Settled, PlaceOK, InTables
  <2> QED
    BY <2>7 DEF b
<1> QED
  BY <1>5, <1>6

LEMMA PlanAdvance ==
    ASSUME NEW w, GoodWorld(w), NEW p, NEW a, Settled(w, p, a, "symbols"), ~(a[1] < Len(w.objects))
    PROVE  Settled(w, p, a, "plan")
<1>1. a[1] \in 1 .. Len(w.objects)
  BY DEF Settled, PlaceOK
<1>2. Len(w.objects) \in Nat
  BY <1>1, TablesTyped
<1>3. \A x \in Sites(w) : x[1] <= a[1]
  BY <1>1, <1>2, SiteShape
<1>4. \A x \in Sites(w) : TlsPast(x, a, "symbols") /\ RestPast(x, a, "symbols")
  BY <1>3 DEF TlsPast, RestPast
<1> QED
  BY <1>4 DEF Settled, PlaceOK, InTables

LEMMA LateAdvance ==
    ASSUME NEW w, NEW p, NEW a, NEW ph, NEW b, NEW to,
           ph \in {"plan"} \cup LatePhases(w), to \in LatePhases(w), Settled(w, p, a, ph)
    PROVE  Settled(w, p, b, to)
<1>1. \A x : TlsPast(x, a, ph) /\ RestPast(x, a, ph)
  BY DEF TlsPast, RestPast, LatePhases
<1>2. PlaceOK(w, b, to)
  BY DEF PlaceOK, InTables, LatePhases
<1> QED
  BY <1>1, <1>2 DEF Settled

-----------------------------------------------------------------------------
(* The second pass: where it puts a reference.                             *)
RestAdds(p, q, n, a, to, imported) ==
    /\ IsPlan(q)
    /\ q.gd = p.gd /\ q.ie = p.ie /\ q.desc = p.desc /\ q.descSites = p.descSites
    /\ q.dtpoffSites = p.dtpoffSites /\ q.ld = p.ld
    /\ q.got = p.got \cup IF to = "got" THEN {n} ELSE {}
    /\ q.relativeGot = p.relativeGot \cup IF to = "relativeGot" THEN {n} ELSE {}
    /\ q.plt = p.plt \cup IF to = "plt" THEN {n} ELSE {}
    /\ q.copy = p.copy \cup IF to = "copy" THEN {n} ELSE {}
    /\ q.copySites = p.copySites \cup IF to = "copy" THEN {a} ELSE {}
    /\ q.sites = p.sites \cup IF to = "sites" THEN {a} ELSE {}
    /\ DOMAIN q.imports = DOMAIN p.imports \cup IF imported THEN {n} ELSE {}

ImportTo(w, r) ==
    CASE w.mode = "pie" /\ r.type = "PC32" -> "copy"
      [] r.type = "GOTPCREL" -> "got"
      [] r.type = "PLT32" -> "plt"
      [] OTHER -> "sites"
DefinedTo(r, d) ==
    CASE r.type = "GOTPCREL" -> IF Protected(d) THEN "relativeGot" ELSE "got"
      [] r.type = "PLT32" /\ Preemptible(d) -> "plt"
      [] r.type = "64" /\ Preemptible(d) -> "sites"
      [] OTHER -> "nowhere"

LEMMA NothingAdded ==
    ASSUME NEW p, IsPlan(p), NEW n, NEW a
    PROVE  RestAdds(p, p, n, a, "nowhere", FALSE)
    BY DEF RestAdds

LEMMA ImportPlannedAdds ==
    ASSUME IsPlan(plan), NEW r
    PROVE  RestAdds(plan, ImportPlanned(r), r.sym.name, at, ImportTo(world, r), TRUE)
<1> DEFINE n == r.sym.name
           recorded == [plan EXCEPT !.imports = Recorded(r.sym, ImportKind(r))]
           loose == [recorded EXCEPT !.noncopy = @ \cup {n}]
<1>1. DOMAIN Recorded(r.sym, ImportKind(r)) = DOMAIN plan.imports \cup {n}
  BY DEF Recorded
<1>2. /\ IsPlan(recorded) /\ DOMAIN recorded = PlanFields /\ DOMAIN recorded.imports = DOMAIN plan.imports \cup {n}
      /\ recorded.sites = plan.sites /\ recorded.got = plan.got /\ recorded.relativeGot = plan.relativeGot
      /\ recorded.copy = plan.copy /\ recorded.copySites = plan.copySites /\ recorded.plt = plan.plt
      /\ recorded.gd = plan.gd /\ recorded.ie = plan.ie /\ recorded.desc = plan.desc /\ recorded.ld = plan.ld
      /\ recorded.descSites = plan.descSites /\ recorded.dtpoffSites = plan.dtpoffSites
  BY <1>1 DEF PlanFields, IsPlan
<1>3. /\ IsPlan(loose) /\ DOMAIN loose = PlanFields /\ loose.imports = recorded.imports
      /\ loose.sites = recorded.sites /\ loose.got = recorded.got /\ loose.relativeGot = recorded.relativeGot
      /\ loose.copy = recorded.copy /\ loose.copySites = recorded.copySites /\ loose.plt = recorded.plt
      /\ loose.gd = recorded.gd /\ loose.ie = recorded.ie /\ loose.desc = recorded.desc /\ loose.ld = recorded.ld
      /\ loose.descSites = recorded.descSites /\ loose.dtpoffSites = recorded.dtpoffSites
  <2>1. DOMAIN recorded = PlanFields /\ IsPlan(recorded)
    BY <1>2
  <2> HIDE DEF recorded
  <2> QED
    BY <2>1 DEF PlanFields, IsPlan
<1>4. ImportPlanned(r) =
        CASE Copies(r) -> [recorded EXCEPT !.copy = @ \cup {n}, !.copySites = @ \cup {at}]
          [] r.type = "GOTPCREL" -> [loose EXCEPT !.got = @ \cup {n}]
          [] r.type = "PLT32" -> [loose EXCEPT !.plt = @ \cup {n}]
          [] OTHER -> [loose EXCEPT !.sites = @ \cup {at}]
  BY DEF ImportPlanned
<1>5. n = r.sym.name /\ (Copies(r) <=> world.mode = "pie" /\ r.type = "PC32")
  BY DEF Copies, mode
<1> HIDE DEF n, recorded, loose
<1>6. CASE Copies(r)
  <2>1. ImportPlanned(r) = [recorded EXCEPT !.copy = @ \cup {n}, !.copySites = @ \cup {at}]
    BY <1>4, <1>5, <1>6
  <2>2. ImportTo(world, r) = "copy"
    BY <1>5, <1>6 DEF ImportTo
  <2> QED
    BY <1>2, <1>5, <2>1, <2>2, ZenonT(40) DEF RestAdds, PlanFields, IsPlan
<1>7. CASE r.type = "GOTPCREL"
  <2>1. ImportPlanned(r) = [loose EXCEPT !.got = @ \cup {n}]
    BY <1>4, <1>5, <1>7
  <2>2. ImportTo(world, r) = "got"
    BY <1>7 DEF ImportTo
  <2> QED
    BY <1>2, <1>3, <1>5, <2>1, <2>2 DEF RestAdds, PlanFields, IsPlan
<1>8. CASE r.type = "PLT32"
  <2>1. ImportPlanned(r) = [loose EXCEPT !.plt = @ \cup {n}]
    BY <1>4, <1>5, <1>8
  <2>2. ImportTo(world, r) = "plt"
    BY <1>8 DEF ImportTo
  <2> QED
    BY <1>2, <1>3, <1>5, <2>1, <2>2 DEF RestAdds, PlanFields, IsPlan
<1>9. CASE ~Copies(r) /\ r.type \notin {"GOTPCREL", "PLT32"}
  <2>1. ImportPlanned(r) = [loose EXCEPT !.sites = @ \cup {at}]
    BY <1>4, <1>9
  <2>2. ImportTo(world, r) = "sites"
    BY <1>5, <1>9 DEF ImportTo
  <2> QED
    BY <1>2, <1>3, <1>5, <2>1, <2>2 DEF RestAdds, PlanFields, IsPlan
<1> QED
  BY <1>6, <1>7, <1>8, <1>9

LEMMA DefinedPlannedAdds ==
    ASSUME IsPlan(plan), NEW r
    PROVE  RestAdds(plan, DefinedPlanned(r), r.sym.name, at, DefinedTo(r, Definition(r.sym)), FALSE)
<1> DEFINE n == r.sym.name
           d == Definition(r.sym)
<1>1. DefinedPlanned(r) =
        CASE r.type = "GOTPCREL" -> IF Protected(d) THEN [plan EXCEPT !.relativeGot = @ \cup {n}]
                                    ELSE [plan EXCEPT !.got = @ \cup {n}]
          [] r.type = "PLT32" /\ Preemptible(d) -> [plan EXCEPT !.plt = @ \cup {n}]
          [] r.type = "64" /\ Preemptible(d) -> [plan EXCEPT !.sites = @ \cup {at}]
          [] OTHER -> plan
  BY DEF DefinedPlanned
<1> HIDE DEF n, d
<1>2. RestAdds(plan, DefinedPlanned(r), n, at, DefinedTo(r, d), FALSE)
  <2>1. CASE r.type = "GOTPCREL" /\ Protected(d)
    <3>1. DefinedPlanned(r) = [plan EXCEPT !.relativeGot = @ \cup {n}]
      BY <1>1, <2>1
    <3>2. DefinedTo(r, d) = "relativeGot"
      BY <2>1 DEF DefinedTo
    <3> QED
      BY <3>1, <3>2 DEF RestAdds, PlanFields, IsPlan
  <2>2. CASE r.type = "GOTPCREL" /\ ~Protected(d)
    <3>1. DefinedPlanned(r) = [plan EXCEPT !.got = @ \cup {n}] /\ DefinedTo(r, d) = "got"
      BY <1>1, <2>2 DEF DefinedTo
    <3> QED
      BY <3>1 DEF RestAdds, PlanFields, IsPlan
  <2>3. CASE r.type = "PLT32" /\ Preemptible(d)
    <3>1. DefinedPlanned(r) = [plan EXCEPT !.plt = @ \cup {n}] /\ DefinedTo(r, d) = "plt"
      BY <1>1, <2>3 DEF DefinedTo
    <3> QED
      BY <3>1 DEF RestAdds, PlanFields, IsPlan
  <2>4. CASE r.type = "64" /\ Preemptible(d)
    <3>1. DefinedPlanned(r) = [plan EXCEPT !.sites = @ \cup {at}] /\ DefinedTo(r, d) = "sites"
      BY <1>1, <2>4 DEF DefinedTo
    <3> QED
      BY <3>1 DEF RestAdds, PlanFields, IsPlan
  <2>5. CASE r.type # "GOTPCREL" /\ ~(r.type \in {"PLT32", "64"} /\ Preemptible(d))
    <3>1. DefinedPlanned(r) = plan /\ DefinedTo(r, d) = "nowhere"
      BY <1>1, <2>5 DEF DefinedTo
    <3> QED
      BY <3>1, NothingAdded
  <2> QED
    BY <2>1, <2>2, <2>3, <2>4, <2>5
<1> QED
  BY <1>2 DEF n, d

(* What the second pass accepts, and where it goes.                        *)
RestAccepted(w, x) ==
    LET r == Ref(w, x)
        n == r.sym.name
        d == DefOf(w, n)
    IN /\ SupportedIn(w, x)
       /\ r.type \notin TlsTypes =>
            /\ r.type = "GOTPCREL" => Nonlocal(r.sym)
            /\ Nonlocal(r.sym) /\ r.type = "64" => Writable(FlagsAt(w, x))
            /\ Nonlocal(r.sym) /\ Known(w, n) => Bindable(d) /\ (r.type = "PC32" => ~d.abs)
RestTo(w, x) ==
    LET r == Ref(w, x)
        n == r.sym.name
    IN IF r.type \in TlsTypes \/ ~Nonlocal(r.sym) THEN "nowhere"
       ELSE IF Known(w, n) THEN DefinedTo(r, DefOf(w, n)) ELSE ImportTo(w, r)

LEMMA RestStepKeeps ==
    ASSUME NEW w, GoodWorld(w), NEW p, GoodPlan(w, p), NEW a \in Sites(w), RestAccepted(w, a),
           NEW q, NEW imported,
           imported <=> (Ref(w, a).type \notin TlsTypes /\ Nonlocal(Ref(w, a).sym) /\ ~Known(w, NameAt(w, a))),
           RestAdds(p, q, NameAt(w, a), a, RestTo(w, a), imported)
    PROVE  GoodPlan(w, q) /\ Grows(p, q) /\ SettledRest(w, q, a)
<1> DEFINE r == Ref(w, a)
           n == NameAt(w, a)
           d == DefOf(w, n)
           to == RestTo(w, a)
<1>1. Grows(p, q)
  BY DEF RestAdds, Grows
<1>2. \A m : Named(w, p, m) => Named(w, q, m)
  BY <1>1, NamedStays
<1>3. to # "nowhere" => r.type \notin TlsTypes /\ Nonlocal(r.sym) /\ Named(w, q, n)
  BY DEF RestTo, RestAdds, Named, NameAt
<1>4. /\ to = "got" => r.type = "GOTPCREL" /\ (Known(w, n) => ~Protected(d))
      /\ to = "relativeGot" => r.type = "GOTPCREL" /\ Known(w, n) /\ Protected(d)
      /\ to = "plt" => r.type = "PLT32" /\ (Known(w, n) => Preemptible(d))
      /\ to = "copy" => r.type = "PC32" /\ ~Known(w, n)
      /\ to = "sites" => r.type = "64" /\ Writable(FlagsAt(w, a))
  <2>1. CASE r.type \in TlsTypes \/ ~Nonlocal(r.sym)
    BY <2>1 DEF RestTo
  <2>2. CASE r.type \notin TlsTypes /\ Nonlocal(r.sym) /\ Known(w, n)
    <3>1. to = DefinedTo(r, d)
      BY <2>2 DEF RestTo, NameAt
    <3>2. r.type = "64" => Writable(FlagsAt(w, a))
      BY <2>2 DEF RestAccepted
    <3> HIDE DEF r, n, d, to
    <3> QED
      BY <2>2, <3>1, <3>2 DEF DefinedTo
  <2>3. CASE r.type \notin TlsTypes /\ Nonlocal(r.sym) /\ ~Known(w, n)
    <3>1. to = ImportTo(w, r)
      BY <2>3 DEF RestTo, NameAt
    <3>2. r.type \in {"64", "PLT32", "GOTPCREL"} \/ (w.mode = "pie" /\ r.type = "PC32")
      BY <2>3 DEF RestAccepted, SupportedIn
    <3> QED
      BY <2>3, <3>1, <3>2 DEF ImportTo, RestAccepted
  <2> QED
    BY <2>1, <2>2, <2>3
<1>5. \A type : r.type = type => Asked(w, type, n)
  BY DEF Asked
<1> HIDE DEF r, n, d, to
<1>6. GoodNames(w, q)
  <2>1. /\ \A m \in q.got : Asked(w, "GOTPCREL", m) /\ Named(w, q, m) /\ (Known(w, m) => ~Protected(DefOf(w, m)))
        /\ \A m \in q.relativeGot : Asked(w, "GOTPCREL", m) /\ Known(w, m) /\ Protected(DefOf(w, m))
        /\ \A m \in q.plt : Asked(w, "PLT32", m) /\ Named(w, q, m) /\ (Known(w, m) => Preemptible(DefOf(w, m)))
        /\ \A m \in q.copy : ~Known(w, m) /\ Named(w, q, m)
    BY <1>2, <1>3, <1>4, <1>5 DEF GoodPlan, GoodNames, RestAdds, n, d, to
  <2> QED
    BY <1>2, <2>1 DEF GoodPlan, GoodNames, RestAdds
<1>7. GoodSites(w, q)
  BY <1>2, <1>3, <1>4 DEF GoodPlan, GoodSites, RestAdds, NameAt, r, n, to
<1>8. SettledRest(w, q, a)
  <2>1. CASE r.type \in TlsTypes
    BY <2>1 DEF SettledRest, RestAccepted, TlsTypes, LdTypes, DescTypes, r
  <2>2. CASE r.type \notin TlsTypes /\ ~Nonlocal(r.sym)
    BY <2>2 DEF SettledRest, RestAccepted, r
  <2>3. CASE r.type \notin TlsTypes /\ Nonlocal(r.sym) /\ Known(w, n)
    <3>1. to = DefinedTo(r, d) /\ Bindable(d) /\ (r.type = "PC32" => ~d.abs) /\ SupportedIn(w, a)
      BY <2>3 DEF RestTo, NameAt, RestAccepted, r, n, d, to
    <3>2. /\ r.type = "GOTPCREL" => n \in q.got \cup q.relativeGot
          /\ r.type = "PLT32" => n \in q.plt \/ Protected(d)
          /\ r.type = "64" => a \in q.sites \/ Protected(d)
      BY <3>1 DEF DefinedTo, Bindable, RestAdds, n, to
    <3> QED
      BY <2>3, <3>1, <3>2 DEF SettledRest, NameAt, r, n, d
  <2>4. CASE r.type \notin TlsTypes /\ Nonlocal(r.sym) /\ ~Known(w, n)
    <3>1. to = ImportTo(w, r) /\ SupportedIn(w, a)
      BY <2>4 DEF RestTo, NameAt, RestAccepted, r, n, to
    <3>2. /\ r.type = "GOTPCREL" => n \in q.got
          /\ r.type = "PLT32" => n \in q.plt
          /\ r.type = "PC32" => a \in q.copySites
          /\ r.type = "64" => a \in q.sites
      BY <2>4, <3>1 DEF ImportTo, RestAdds, SupportedIn, r, n, to
    <3> QED
      BY <2>4, <3>1, <3>2 DEF SettledRest, NameAt, r, n
  <2> QED
    BY <2>1, <2>2, <2>3, <2>4
<1> QED
  BY <1>1, <1>6, <1>7, <1>8 DEF GoodPlan, RestAdds

-----------------------------------------------------------------------------
(* The steps of planning.                                                  *)
LEMMA RefusedPlan ==
    ASSUME NEW w, NEW p, NEW a, NEW ph, PlanAt(w, p, a, ph), NEW b
    PROVE  PlanAt(w, p, b, "refused")
    BY DEF PlanAt, LatePhases

LEMMA PlanOfState == PlanInv => PlanAt(world, plan, at, phase)
    BY DEF PlanInv

LEMMA PlanNextState ==
    ASSUME world' = world, PlanAt(world, plan', at', phase')
    PROVE  PlanInv'
    BY DEF PlanInv

LEMMA RefusalKeepsPlan ==
    ASSUME PlanInv, NEW e, Refuse(e)
    PROVE  PlanInv'
<1>1. PlanAt(world, plan, at, "refused")
  BY PlanOfState, RefusedPlan
<1> QED
  BY <1>1, PlanNextState DEF Refuse

LEMMA SettledKeepsPlan ==
    ASSUME PlanInv, LoadedIn(world), world' = world,
           phase' \in EarlyPhases(world) \cup LatePhases(world), Settled(world, plan', at', phase')
    PROVE  PlanInv'
<1>1. GoodWorld(world) /\ world.mode # "static_pie"
  BY PlanOfState DEF PlanAt, LoadedIn
<1>2. PlanAt(world, plan', at', phase')
  BY <1>1 DEF PlanAt
<1> QED
  BY <1>2, PlanNextState

LEMMA PlanningState ==
    ASSUME PlanInv, phase \in Planning
    PROVE  LoadedIn(world) /\ GoodWorld(world) /\ Settled(world, plan, at, phase)
    BY PlanOfState DEF PlanAt, EarlyPhases, LatePhases, Planning, InTables

LEMMA PlanRecord ==
    ASSUME NEW w, NEW p, GoodPlan(w, p)
    PROVE  IsPlan(p) /\ p.ld \in BOOLEAN
    BY DEF GoodPlan, GoodNames

LEMMA PlaceAfter ==
    ASSUME NEW w, GoodWorld(w), NEW a \in Sites(w)
    PROVE  /\ [a EXCEPT ![3] = @ + 1] = <<a[1], a[2], a[3] + 1>>
           /\ [a EXCEPT ![3] = 1] = <<a[1], a[2], 1>>
<1>1. a = <<a[1], a[2], a[3]>>
  BY SiteShape
<1> QED
  BY <1>1

LEMMA TlsStep ==
    ASSUME PlanInv, PlanTls
    PROVE  PlanInv'
<1>1. /\ LoadedIn(world) /\ GoodWorld(world) /\ Settled(world, plan, at, "tls") /\ phase = "tls"
  BY PlanningState DEF PlanTls, Planning, InTables
<1>2. at \in Sites(world) /\ GoodPlan(world, plan)
  BY <1>1 DEF Settled, PlaceOK, InTables
<1>3. Current = Ref(world, at) /\ Table.flags = FlagsAt(world, at) /\ Len(Table.refs) = EntriesOf(world, at)
  BY DEF Current, Table, Ref, FlagsAt, EntriesOf, TableAt, objects
<1>4. CASE TlsRefusal(Current, Table.flags) # "none"
  BY <1>4, RefusalKeepsPlan DEF PlanTls
<1>5. CASE TlsRefusal(Current, Table.flags) = "none"
  <2>1. Proceed(TlsPlanned(Current), "types")
    BY <1>5 DEF PlanTls
  <2>2. TlsAccepted(world, Ref(world, at))
    BY <1>1, <1>3, <1>5, TlsAcceptance
  <2> DEFINE imported == Ref(world, at).type \in TlsTypes \ LdTypes /\ Unresolved(Ref(world, at).sym)
  <2>3. TlsAdds(plan, plan', Ref(world, at), at, imported)
    <3>1. IsPlan(plan) /\ plan.ld \in BOOLEAN
      BY <1>2, PlanRecord
    <3>2. plan' = TlsPlanned(Ref(world, at))
      BY <1>3, <2>1 DEF Proceed
    <3> QED
      BY <3>1, <3>2, TlsPlannedAdds
  <2>4. imported <=> (Ref(world, at).type \in TlsTypes \ LdTypes /\ ~Known(world, NameAt(world, at)))
    BY <1>1, <1>2, <2>2, ResolvedIffKnown DEF TlsAccepted
  <2> HIDE DEF imported
  <2>5. GoodPlan(world, plan') /\ Grows(plan, plan') /\ SettledTls(world, plan', at)
    BY <1>1, <1>2, <2>2, <2>3, <2>4, TlsStepKeeps
  <2>6. \/ at[3] < EntriesOf(world, at) /\ at' = <<at[1], at[2], at[3] + 1>> /\ phase' = "tls"
        \/ ~(at[3] < EntriesOf(world, at)) /\ at' = <<at[1], at[2], 1>> /\ phase' = "types"
    BY <1>1, <1>2, <1>3, <2>1, PlaceAfter DEF Proceed
  <2>7. Settled(world, plan', at', phase')
    BY <1>1, <2>5, <2>6, TlsAdvance
  <2>8. phase' \in EarlyPhases(world)
    BY <1>1, <2>6 DEF EarlyPhases, Planning, InTables
  <2> QED
    BY <1>1, <2>1, <2>7, <2>8, SettledKeepsPlan DEF Proceed
<1> QED
  BY <1>4, <1>5

(* What a second pass that does not refuse has accepted, and where it goes.*)
RestRefusal(r) ==
    IF ~Nonlocal(r.sym) THEN IF r.type = "GOTPCREL" THEN "RelocationUnsupported" ELSE "none"
    ELSE IF Unresolved(r.sym) THEN ImportRefusal(r) ELSE DefinedRefusal(r)

LEMMA RestAcceptance ==
    ASSUME GoodWorld(world), at \in Sites(world), SupportedIn(world, at),
           Current.type \notin TlsTypes => RestRefusal(Current) = "none"
    PROVE  RestAccepted(world, at)
<1>1. Current = Ref(world, at) /\ Table.flags = FlagsAt(world, at)
  BY DEF Current, Table, Ref, FlagsAt, TableAt, objects
<1>2. CASE Current.type \in TlsTypes
  BY <1>1, <1>2 DEF RestAccepted
<1>3. CASE Current.type \notin TlsTypes /\ ~Nonlocal(Current.sym)
  <2>1. Current.type # "GOTPCREL"
    BY <1>3 DEF RestRefusal
  <2> QED
    BY <1>1, <1>3, <2>1 DEF RestAccepted
<1>4. CASE Current.type \notin TlsTypes /\ Nonlocal(Current.sym) /\ Unresolved(Current.sym)
  <2>1. ImportRefusal(Current) = "none"
    BY <1>4 DEF RestRefusal
  <2>2. Current.type = "64" => Writable(Table.flags)
    BY <2>1 DEF ImportRefusal
  <2>3. ~Known(world, Current.sym.name)
    BY <1>1, <1>4, ResolvedIffKnown DEF NameAt
  <2> QED
    BY <1>1, <1>4, <2>2, <2>3 DEF RestAccepted
<1>5. CASE Current.type \notin TlsTypes /\ Nonlocal(Current.sym) /\ ~Unresolved(Current.sym)
  <2> DEFINE d == Definition(Current.sym)
  <2>1. DefinedRefusal(Current) = "none"
    BY <1>5 DEF RestRefusal
  <2>2. Bindable(d)
    BY <2>1 DEF DefinedRefusal
  <2>3. /\ Current.type = "64" => Writable(Table.flags)
        /\ Current.type = "PC32" => Direct(Current, d)
    BY <2>1, <2>2 DEF DefinedRefusal, Direct
  <2>4. d = DefOf(world, Current.sym.name)
    BY <1>1, <1>5, ResolvedIffKnown DEF NameAt
  <2> HIDE DEF d
  <2> QED
    BY <1>1, <1>5, <2>2, <2>3, <2>4 DEF RestAccepted, Direct
<1> QED
  BY <1>2, <1>3, <1>4, <1>5

LEMMA RestStep ==
    ASSUME PlanInv, PlanImport
    PROVE  PlanInv'
<1> DEFINE r == Current
           then == IF at[2] < Len(objects[at[1]].tables) THEN "next" ELSE "symbols"
           new == IF ~Nonlocal(r.sym) THEN plan
                  ELSE IF Unresolved(r.sym) THEN ImportPlanned(r) ELSE DefinedPlanned(r)
<1>1. /\ LoadedIn(world) /\ GoodWorld(world) /\ Settled(world, plan, at, "rest") /\ phase = "rest"
  BY PlanningState DEF PlanImport, Planning, InTables
<1>2. at \in Sites(world) /\ GoodPlan(world, plan) /\ IsPlan(plan)
  BY <1>1, PlanRecord DEF Settled, PlaceOK, InTables
<1>3. r = Ref(world, at) /\ Len(Table.refs) = EntriesOf(world, at) /\ objects = world.objects
  BY DEF Current, Table, Ref, EntriesOf, TableAt, objects
<1>4. PlanImport <=> /\ phase = "rest"
                     /\ IF r.type \in TlsTypes THEN Proceed(plan, then)
                        ELSE IF RestRefusal(r) = "none" THEN Proceed(new, then)
                        ELSE Refuse(RestRefusal(r))
  BY DEF PlanImport, RestRefusal
<1> HIDE DEF r, then, new
<1>5. CASE r.type \notin TlsTypes /\ RestRefusal(r) # "none"
  BY <1>4, <1>5, RefusalKeepsPlan
<1>6. CASE r.type \in TlsTypes \/ RestRefusal(r) = "none"
  <2>1. Proceed(IF r.type \in TlsTypes THEN plan ELSE new, then)
    BY <1>4, <1>6
  <2>2. SupportedIn(world, at)
    BY <1>1, <1>2 DEF Settled, PlaceOK, SameTable
  <2>3. RestAccepted(world, at)
    BY <1>1, <1>2, <1>6, <2>2, RestAcceptance DEF r
  <2> DEFINE imported == r.type \notin TlsTypes /\ Nonlocal(r.sym) /\ ~Known(world, NameAt(world, at))
  <2>4. RestAdds(plan, plan', NameAt(world, at), at, RestTo(world, at), imported)
    <3>1. plan' = IF r.type \in TlsTypes THEN plan ELSE new
      BY <2>1 DEF Proceed
    <3>2. NameAt(world, at) = r.sym.name
      BY <1>3 DEF NameAt
    <3>3. CASE r.type \in TlsTypes \/ ~Nonlocal(r.sym)
      <4>1. plan' = plan /\ RestTo(world, at) = "nowhere" /\ imported = FALSE
        BY <1>3, <3>1, <3>3 DEF RestTo, new
      <4>2. RestAdds(plan, plan, NameAt(world, at), at, "nowhere", FALSE)
        BY <1>2, NothingAdded
      <4> QED
        BY <4>1, <4>2
    <3>4. CASE r.type \notin TlsTypes /\ Nonlocal(r.sym) /\ ~Known(world, NameAt(world, at))
      <4>1. Unresolved(r.sym)
        BY <1>1, <1>2, <1>3, <3>4, ResolvedIffKnown
      <4>2. plan' = ImportPlanned(r) /\ RestTo(world, at) = ImportTo(world, r) /\ imported = TRUE
        BY <1>3, <3>1, <3>2, <3>4, <4>1 DEF RestTo, new
      <4>3. RestAdds(plan, ImportPlanned(r), r.sym.name, at, ImportTo(world, r), TRUE)
        BY <1>2, ImportPlannedAdds
      <4> QED
        BY <3>2, <4>2, <4>3
    <3>5. CASE r.type \notin TlsTypes /\ Nonlocal(r.sym) /\ Known(world, NameAt(world, at))
      <4>1. ~Unresolved(r.sym) /\ Definition(r.sym) = DefOf(world, NameAt(world, at))
        BY <1>1, <1>2, <1>3, <3>5, ResolvedIffKnown
      <4>2. /\ plan' = DefinedPlanned(r) /\ imported = FALSE
            /\ RestTo(world, at) = DefinedTo(r, Definition(r.sym))
        BY <1>3, <3>1, <3>2, <3>5, <4>1 DEF RestTo, new
      <4>3. RestAdds(plan, DefinedPlanned(r), r.sym.name, at, DefinedTo(r, Definition(r.sym)), FALSE)
        BY <1>2, DefinedPlannedAdds
      <4> QED
        BY <3>2, <4>2, <4>3
    <3> QED
      BY <3>3, <3>4, <3>5
  <2>5. imported <=> (Ref(world, at).type \notin TlsTypes /\ Nonlocal(Ref(world, at).sym) /\ ~Known(world, NameAt(world, at)))
    BY <1>3
  <2> HIDE DEF imported
  <2>6. GoodPlan(world, plan') /\ Grows(plan, plan') /\ SettledRest(world, plan', at)
    BY <1>1, <1>2, <2>3, <2>4, <2>5, RestStepKeeps
  <2>7. \/ at[3] < EntriesOf(world, at) /\ at' = <<at[1], at[2], at[3] + 1>> /\ phase' = "rest"
        \/ ~(at[3] < EntriesOf(world, at)) /\ at' = <<at[1], at[2], 1>> /\ phase' = then
    BY <1>1, <1>2, <1>3, <2>1, PlaceAfter DEF Proceed
  <2>8. then = IF at[2] < Len(world.objects[at[1]].tables) THEN "next" ELSE "symbols"
    BY <1>3 DEF then
  <2>9. Settled(world, plan', at', phase')
    BY <1>1, <2>6, <2>7, <2>8, RestAdvance
  <2>10. phase' \in EarlyPhases(world)
    BY <1>1, <2>7, <2>8 DEF EarlyPhases, Planning, InTables
  <2> QED
    BY <1>1, <2>1, <2>9, <2>10, SettledKeepsPlan DEF Proceed
<1> QED
  BY <1>5, <1>6

LEMMA TypesStep ==
    ASSUME PlanInv, CheckTypes
    PROVE  PlanInv'
<1>1. /\ LoadedIn(world) /\ GoodWorld(world) /\ Settled(world, plan, at, "types") /\ phase = "types"
  BY PlanningState DEF CheckTypes, Planning, InTables
<1>2. at \in Sites(world)
  BY <1>1 DEF Settled, PlaceOK, InTables
<1>3. CASE \A i \in DOMAIN Table.refs : Supported(Table.refs[i])
  <2>1. ASSUME NEW x \in Sites(world), SameTable(x, at)
        PROVE  SupportedIn(world, x)
    <3>1. x[3] \in DOMAIN Table.refs /\ Ref(world, x) = Table.refs[x[3]]
      <4>1. /\ x[1] \in 1 .. Len(world.objects) /\ x[2] \in 1 .. Len(world.objects[x[1]].tables)
            /\ x[3] \in 1 .. Len(world.objects[x[1]].tables[x[2]].refs)
        BY <1>1, SiteShape
      <4>2. world.objects[x[1]].tables[x[2]] \in InputTable
        BY <1>1, <4>1, TablesTyped
      <4>3. x[3] \in DOMAIN world.objects[x[1]].tables[x[2]].refs
        BY <4>1, <4>2, RefsTyped
      <4>4. Table = world.objects[x[1]].tables[x[2]]
        BY <2>1 DEF Table, TableAt, objects, SameTable
      <4> QED
        BY <4>3, <4>4 DEF Ref, RefAt, TableAt
    <3>2. Supported(Ref(world, x))
      BY <1>3, <3>1
    <3> QED
      BY <3>2 DEF Supported, SupportedIn, mode
  <2>2. Settled(world, plan, at, "rest")
    BY <1>1, <2>1, TypesAdvance
  <2>3. plan' = plan /\ at' = at /\ phase' = "rest" /\ world' = world
    BY <1>3 DEF CheckTypes
  <2>4. phase' \in EarlyPhases(world)
    BY <1>1, <2>3 DEF EarlyPhases, Planning, InTables
  <2> QED
    BY <1>1, <2>2, <2>3, <2>4, SettledKeepsPlan
<1>4. CASE ~\A i \in DOMAIN Table.refs : Supported(Table.refs[i])
  BY <1>4, RefusalKeepsPlan DEF CheckTypes
<1> QED
  BY <1>3, <1>4

LEMMA TableStep ==
    ASSUME PlanInv, NextTable
    PROVE  PlanInv'
<1>1. /\ LoadedIn(world) /\ GoodWorld(world) /\ Settled(world, plan, at, "next")
  BY PlanningState DEF NextTable, Planning, InTables
<1>2. plan' = plan /\ at' = <<at[1], at[2] + 1, 1>> /\ phase' = "tls" /\ world' = world
  BY DEF NextTable
<1>3. Settled(world, plan', at', phase')
  BY <1>1, <1>2, TableAdvance
<1>4. phase' \in EarlyPhases(world)
  BY <1>1, <1>2 DEF EarlyPhases, Planning, InTables
<1> QED
  BY <1>1, <1>2, <1>3, <1>4, SettledKeepsPlan

LEMMA SymbolsStep ==
    ASSUME PlanInv, AdmitSymbols
    PROVE  PlanInv'
<1>1. /\ LoadedIn(world) /\ GoodWorld(world) /\ Settled(world, plan, at, "symbols") /\ objects = world.objects
  BY PlanningState DEF AdmitSymbols, Planning, InTables, objects
<1>2. CASE \E s \in objects[at[1]].symbols :
              Nonlocal(s) /\ SymbolRefusal(s) # "none" /\ Refuse(SymbolRefusal(s))
  BY <1>2, RefusalKeepsPlan
<1>3. CASE at[1] < Len(objects) /\ at' = <<at[1] + 1, 1, 1>> /\ phase' = Enter(at[1] + 1) /\ UNCHANGED <<world, plan>>
  <2>1. phase' = IF world.objects[at[1] + 1].tables = <<>> THEN "symbols" ELSE "tls"
    BY <1>1, <1>3 DEF Enter
  <2>2. Settled(world, plan', at', phase')
    BY <1>1, <1>3, <2>1, ObjectAdvance
  <2>3. phase' \in EarlyPhases(world)
    BY <1>1, <2>1 DEF EarlyPhases, Planning, InTables
  <2> QED
    BY <1>1, <1>3, <2>2, <2>3, SettledKeepsPlan
<1>4. CASE ~(at[1] < Len(objects)) /\ at' = at /\ phase' = "plan" /\ UNCHANGED <<world, plan>>
  <2>1. Settled(world, plan', at', phase')
    BY <1>1, <1>4, PlanAdvance
  <2>2. phase' \in EarlyPhases(world)
    BY <1>1, <1>4 DEF EarlyPhases, Planning
  <2> QED
    BY <1>1, <1>4, <2>1, <2>2, SettledKeepsPlan
<1> QED
  BY <1>2, <1>3, <1>4 DEF AdmitSymbols

LEMMA FinishStep ==
    ASSUME PlanInv, FinishPlan
    PROVE  PlanInv'
<1>1. /\ LoadedIn(world) /\ Settled(world, plan, at, "plan")
  BY PlanningState DEF FinishPlan, Planning
<1>2. CASE \E e : Refuse(e)
  BY <1>2, RefusalKeepsPlan
<1>3. CASE phase' = "collect" /\ UNCHANGED <<world, plan>>
  <2>1. phase' \in LatePhases(world)
    BY <1>3 DEF LatePhases
  <2>2. Settled(world, plan', at', phase')
    BY <1>1, <1>3, <2>1, LateAdvance
  <2> QED
    BY <1>1, <1>3, <2>1, <2>2, SettledKeepsPlan
<1> QED
  BY <1>2, <1>3 DEF FinishPlan

LEMMA PieStep ==
    ASSUME PlanInv, CheckPie
    PROVE  PlanInv'
<1>1. PlanAt(world, plan, at, "pie") /\ world.mode = "static_pie" /\ ~LoadedIn(world) /\ GoodWorld(world)
  BY PlanOfState DEF CheckPie, PlanAt, EarlyPhases, LatePhases, LoadedIn, Planning, InTables
<1>2. CASE \E e : Refuse(e)
  BY <1>2, RefusalKeepsPlan
<1>3. CASE /\ {PieRefusal(RefAt(objects, x)) : x \in SitesOf(objects)} \ {"none"} = {}
           /\ phase' = "collect" /\ UNCHANGED <<world, at, plan, words, slots, loader, error>>
  <2>1. ASSUME NEW x \in Sites(world)
        PROVE  PieFine(world, x)
    <3>1. PieRefusal(Ref(world, x)) = "none"
      BY <1>3 DEF Sites, Ref, objects
    <3> DEFINE r == Ref(world, x)
               s == r.sym
    <3>2. r.type \in PieTypes
      BY <3>1 DEF PieRefusal
    <3>3. CASE ~Nonlocal(s)
      <4>1. r.type \in PcTypes => ~(s.def /\ s.abs)
        BY <3>1, <3>3 DEF PieRefusal
      <4> QED
        BY <3>2, <3>3, <4>1 DEF PieFine
    <3>4. CASE Nonlocal(s) /\ Known(world, s.name)
      <4>1. ~Unresolved(s) /\ Definition(s) = DefOf(world, s.name)
        BY <1>1, <3>4, ResolvedIffKnown DEF NameAt
      <4>2. r.type \in PcTypes => ~(DefOf(world, s.name).def /\ DefOf(world, s.name).abs)
        BY <3>1, <3>4, <4>1 DEF PieRefusal
      <4>3. DefOf(world, s.name).def
        BY <3>4, KnownDefinition
      <4> QED
        BY <3>2, <3>4, <4>2, <4>3 DEF PieFine
    <3>5. CASE Nonlocal(s) /\ ~Known(world, s.name)
      <4>1. Unresolved(s)
        BY <1>1, <3>5, ResolvedIffKnown DEF NameAt
      <4>2. r.type \in PcTypes => s.bind # "weak"
        BY <3>1, <3>5, <4>1 DEF PieRefusal, Unresolved
      <4> QED
        BY <3>2, <3>5, <4>2 DEF PieFine
    <3> QED
      BY <3>3, <3>4, <3>5
  <2>2. PlanAt(world, plan', at', phase')
    BY <1>1, <1>3, <2>1 DEF PlanAt, LatePhases
  <2> QED
    BY <1>3, <2>2, PlanNextState
<1> QED
  BY <1>2, <1>3 DEF CheckPie

LEMMA LateKeepsPlan ==
    ASSUME PlanInv, phase \in LatePhases(world), world' = world, plan' = plan, phase' \in LatePhases(world)
    PROVE  PlanInv'
<1>1. PlanAt(world, plan, at, phase) /\ phase # "refused"
  BY PlanOfState DEF LatePhases
<1>2. CASE LoadedIn(world)
  <2>1. Settled(world, plan, at, phase)
    BY <1>1, <1>2 DEF PlanAt
  <2>2. Settled(world, plan', at', phase')
    BY <2>1, LateAdvance
  <2> QED
    BY <1>2, <2>2, SettledKeepsPlan
<1>3. CASE ~LoadedIn(world)
  <2>1. PlanAt(world, plan', at', phase')
    BY <1>1, <1>3 DEF PlanAt
  <2> QED
    BY <2>1, PlanNextState
<1> QED
  BY <1>2, <1>3

(* Every later pass refuses, or goes on to a later phase.                  *)
LateActions == \/ Collect \/ ApplyTable \/ FillSlots \/ StaticTls \/ Patch \/ WriteLoaderRelocations

LEMMA LatePass ==
    ASSUME PlanInv, LateActions
    PROVE  /\ phase \in LatePhases(world)
           /\ \/ \E e : Refuse(e)
              \/ phase' \in LatePhases(world) /\ UNCHANGED <<world, plan, error>>
<1>1. PlanAt(world, plan, at, phase) /\ (Loaded <=> LoadedIn(world)) /\ mode = world.mode /\ world.mode \in Modes
  BY PlanOfState DEF Loaded, LoadedIn, mode, PlanAt, GoodWorld
<1>2. CASE Collect
  <2>1. phase \in LatePhases(world)
    BY <1>2 DEF Collect, LatePhases
  <2>2. CASE ~\E e : Refuse(e)
    <3>1. GoTo(Allocated, "slots") /\ UNCHANGED <<world, plan, error>>
      BY <1>2, <2>2 DEF Collect
    <3> QED
      BY <2>1, <3>1 DEF GoTo, LatePhases
  <2> QED
    BY <2>1, <2>2
<1>3. CASE ApplyTable
  <2>1. phase \in LatePhases(world)
    BY <1>3 DEF ApplyTable, LatePhases
  <2>2. CASE ~\E e : Refuse(e)
    <3>1. GoTo(After(at), "slots") /\ UNCHANGED <<world, plan, error>>
      BY <1>3, <2>2 DEF ApplyTable
    <3> QED
      BY <2>1, <3>1 DEF GoTo, LatePhases
  <2> QED
    BY <2>1, <2>2
<1>4. CASE FillSlots
  <2>1. phase \in LatePhases(world)
    BY <1>4 DEF FillSlots, LatePhases
  <2>2. CASE ~\E e : Refuse(e)
    <3>1. phase' = (IF Loaded THEN "patch" ELSE "static_tls") /\ UNCHANGED <<world, plan, error>>
      BY <1>4, <2>2 DEF FillSlots
    <3> QED
      BY <1>1, <2>1, <3>1 DEF LatePhases
  <2> QED
    BY <2>1, <2>2
<1>5. CASE StaticTls
  <2>1. phase \in LatePhases(world) /\ ~LoadedIn(world)
    BY <1>1, <1>5 DEF StaticTls, LatePhases, PlanAt, EarlyPhases, Planning, InTables
  <2>2. CASE ~\E e : Refuse(e)
    <3>1. phase' = (IF mode = "static_pie" THEN "loader" ELSE "loaded") /\ UNCHANGED <<world, plan, error>>
      BY <1>5, <2>2 DEF StaticTls
    <3> QED
      BY <1>1, <2>1, <3>1 DEF LatePhases
  <2> QED
    BY <2>1, <2>2
<1>6. CASE Patch
  <2>1. phase \in LatePhases(world) /\ LoadedIn(world)
    BY <1>1, <1>6 DEF Patch, LatePhases, PlanAt, EarlyPhases, Planning, InTables
  <2>2. CASE ~\E e : Refuse(e)
    <3>1. phase' = "loader" /\ UNCHANGED <<world, plan, error>>
      BY <1>6, <2>2 DEF Patch
    <3> QED
      BY <2>1, <3>1 DEF LatePhases
  <2> QED
    BY <2>1, <2>2
<1>7. CASE WriteLoaderRelocations
  <2>1. phase \in LatePhases(world)
    BY <1>1, <1>7 DEF WriteLoaderRelocations, LatePhases, PlanAt, EarlyPhases, Planning, InTables
  <2>2. CASE ~\E e : Refuse(e)
    <3>1. phase' = "loaded" /\ UNCHANGED <<world, plan, error>>
      BY <1>7, <2>2 DEF WriteLoaderRelocations
    <3> QED
      BY <2>1, <3>1 DEF LatePhases
  <2> QED
    BY <2>1, <2>2
<1> QED
  BY <1>2, <1>3, <1>4, <1>5, <1>6, <1>7 DEF LateActions

LEMMA PlanInitially == PlanInit => PlanInv
<1> SUFFICES ASSUME PlanInit PROVE PlanInv
  OBVIOUS
<1>1. GoodWorld(world)
  BY WorldsAssumption DEF PlanInit, GoodWorld
<1>2. plan = EmptyPlan /\ at = <<1, 1, 1>>
  BY DEF PlanInit
<1>3. CASE ~LoadedIn(world)
  <2>1. phase = IF world.mode = "static_pie" THEN "pie" ELSE "collect"
    BY <1>3 DEF PlanInit, Loaded, LoadedIn, mode
  <2>2. PlanAt(world, plan, at, phase)
    BY <1>1, <1>2, <1>3, <2>1 DEF PlanAt, EarlyPhases, LatePhases
  <2> QED
    BY <2>2 DEF PlanInv
<1>4. CASE LoadedIn(world)
  <2>1. phase = IF world.objects[1].tables = <<>> THEN "symbols" ELSE "tls"
    BY <1>4 DEF PlanInit, Loaded, LoadedIn, mode, Enter, objects
  <2>2. GoodPlan(world, plan)
    <3>1. IsPlan(plan)
      BY <1>2 DEF IsPlan, PlanFields, EmptyPlan
    <3>2. /\ plan.got = {} /\ plan.relativeGot = {} /\ plan.plt = {} /\ plan.gd = {} /\ plan.ie = {}
          /\ plan.desc = {} /\ plan.copy = {} /\ plan.ld = FALSE /\ plan.sites = {} /\ plan.copySites = {}
          /\ plan.dtpoffSites = {} /\ plan.descSites = {}
      BY <1>2 DEF EmptyPlan
    <3> QED
      BY <3>1, <3>2 DEF GoodPlan, GoodNames, GoodSites
  <2>3. 1 \in 1 .. Len(world.objects) /\ world.objects[1].tables \in Seq(InputTable)
    <3>1. world.objects \in Seq(InputObject) /\ world.objects # <<>>
      BY <1>1 DEF GoodWorld, WellFormed
    <3>2. 1 \in 1 .. Len(world.objects)
      BY <3>1, EmptySeq
    <3>3. world.objects[1] \in InputObject
      BY <3>1, <3>2, ElementOf
    <3> QED
      BY <3>2, <3>3 DEF InputObject
  <2>4. \A x \in Sites(world) : x[1] \in Nat /\ x[2] \in Nat /\ x[3] \in Nat /\ x[1] >= 1 /\ x[2] >= 1 /\ x[3] >= 1
    BY <1>1, SiteShape, SiteTyped
  <2>5. at[1] = 1 /\ at[2] = 1 /\ at[3] = 1
    BY <1>2
  <2>6. CASE phase = "symbols"
    <3>1. Len(world.objects[1].tables) = 0
      BY <2>1, <2>3, <2>6
    <3>2. \A x \in Sites(world) : x[1] # 1
      BY <1>1, <3>1, SiteShape
    <3>3. \A x \in Sites(world) : ~TlsPast(x, at, phase) /\ ~RestPast(x, at, phase)
      BY <2>4, <2>5, <2>6, <3>2 DEF TlsPast, RestPast
    <3>4. Settled(world, plan, at, phase)
      BY <2>2, <2>3, <2>5, <2>6, <3>3 DEF Settled, PlaceOK, InTables
    <3>5. PlanAt(world, plan, at, phase)
      BY <1>1, <1>4, <2>6, <3>4 DEF PlanAt, EarlyPhases, Planning, LoadedIn
    <3> QED
      BY <3>5 DEF PlanInv
  <2>7. CASE phase = "tls"
    <3>1. \A x \in Sites(world) : ~TlsPast(x, at, phase) /\ ~RestPast(x, at, phase)
      BY <2>4, <2>5, <2>7 DEF TlsPast, RestPast, Earlier, EarlierTable, SameTable
    <3>2. 1 \in 1 .. Len(world.objects[1].tables)
      <4>1. world.objects[1].tables # <<>>
        BY <2>1, <2>7
      <4> QED
        BY <2>3, <4>1, EmptySeq
    <3>3. at \in Sites(world)
      BY <1>1, <1>2, <2>3, <3>2, FirstSite
    <3>4. Settled(world, plan, at, phase)
      BY <2>2, <2>7, <3>1, <3>3 DEF Settled, PlaceOK, InTables
    <3>5. PlanAt(world, plan, at, phase)
      BY <1>1, <1>4, <2>7, <3>4 DEF PlanAt, EarlyPhases, Planning, InTables, LoadedIn
    <3> QED
      BY <3>5 DEF PlanInv
  <2> QED
    BY <2>1, <2>6, <2>7
<1> QED
  BY <1>3, <1>4

LEMMA PlanStays ==
    ASSUME PlanInv, UNCHANGED <<world, plan, at, phase>>
    PROVE  PlanInv'
    BY DEF PlanInv

LEMMA PlanStep == PlanInv /\ [ReferencesNext \/ ReferencesStopped]_refVars => PlanInv'
<1> SUFFICES ASSUME PlanInv, [ReferencesNext \/ ReferencesStopped]_refVars
             PROVE  PlanInv'
  OBVIOUS
<1>1. CASE PlanNext
  BY <1>1, TlsStep, TypesStep, RestStep, TableStep, SymbolsStep, FinishStep, PieStep DEF PlanNext
<1>2. CASE LateActions
  BY <1>2, LatePass, RefusalKeepsPlan, LateKeepsPlan
<1>3. CASE ReferencesStopped \/ UNCHANGED refVars
  BY <1>3, PlanStays DEF ReferencesStopped, refVars
<1> QED
  BY <1>1, <1>2, <1>3 DEF ReferencesNext, LateActions

(* After every step of planning, each relocation behind it is accounted for*)
(* in the plan, and each planned name and site has a reference behind it   *)
(* and a definition or an import in front.                                 *)
THEOREM PlansAccountForReferences == ReferencesSpec => []PlanInv
<1> QED
  BY PlanInitially, PlanStep, PTL DEF ReferencesSpec

-----------------------------------------------------------------------------
(* What the later passes read of the plan of a loaded image.               *)
MaskedIn(p) == p.sites \cup p.copySites \cup p.dtpoffSites \cup p.descSites
LiveIn(w, p, x) == x \notin MaskedIn(p) /\ (LoadedIn(w) \/ Ref(w, x).type # "TPOFF32")

LEMMA StateOfWorld ==
    /\ objects = world.objects /\ mode = world.mode /\ (Loaded <=> LoadedIn(world))
    /\ \A n : (n \in Defined <=> Known(world, n)) /\ Definitions[n][2] = DefOf(world, n)
    BY DEF objects, mode, Loaded, LoadedIn, Defined, Definitions, Known, DefOf

LEMMA LiveSitesOfState ==
    ASSUME NEW types
    PROVE  \A x : x \in LiveSites(types) <=>
                    x \in Sites(world) /\ LiveIn(world, plan, x) /\ Ref(world, x).type \in types
<1>1. Masked = MaskedIn(plan)
  BY DEF Masked, MaskedIn
<1>2. ASSUME NEW x
      PROVE  Live(x) <=> LiveIn(world, plan, x)
  BY <1>1 DEF Live, LiveIn, Loaded, LoadedIn, mode, Ref, objects
<1> QED
  BY <1>2 DEF LiveSites, Sites, Ref, objects

LEMMA LateSettled ==
    ASSUME PlanInv, phase \in LatePhases(world), LoadedIn(world)
    PROVE  /\ GoodWorld(world) /\ GoodPlan(world, plan)
           /\ \A x \in Sites(world) : SettledTls(world, plan, x) /\ SettledRest(world, plan, x)
<1>1. GoodWorld(world) /\ Settled(world, plan, at, phase)
  BY PlanOfState DEF PlanAt, LatePhases
<1>2. \A x : TlsPast(x, at, phase) /\ RestPast(x, at, phase)
  BY DEF LatePhases, TlsPast, RestPast
<1> QED
  BY <1>1, <1>2 DEF Settled

LEMMA UnmaskedTypes ==
    ASSUME NEW w, NEW p, LoadedIn(w), GoodPlan(w, p), NEW x,
           Ref(w, x).type \notin {"64", "PC32", "DTPOFF32", "TLSDESC_CALL"}
    PROVE  LiveIn(w, p, x)
    BY DEF LiveIn, MaskedIn, GoodPlan, GoodSites

LEMMA AskedIsLive ==
    ASSUME LoadedIn(world), GoodPlan(world, plan), NEW type, NEW n, Asked(world, type, n),
           type \notin {"64", "PC32", "DTPOFF32", "TLSDESC_CALL"}, NEW types, type \in types
    PROVE  n \in NamesAt(LiveSites(types))
<1>1. PICK x \in Sites(world) : Ref(world, x).type = type /\ NameAt(world, x) = n
  BY DEF Asked
<1>2. x \in LiveSites(types)
  BY <1>1, UnmaskedTypes, LiveSitesOfState
<1>3. RefAt(objects, x).sym.name = n
  BY <1>1 DEF NameAt, Ref, objects
<1> QED
  BY <1>2, <1>3 DEF NamesAt

LEMMA CollectAccepts ==
    ASSUME PlanInv, LoadedIn(world), phase \in LatePhases(world)
    PROVE  CollectRefusal = "none"
<1>1. /\ GoodPlan(world, plan)
      /\ \A x \in Sites(world) : SettledTls(world, plan, x) /\ SettledRest(world, plan, x)
  BY LateSettled
<1>2. ASSUME NEW x \in LiveSites(GotTypes \cup {"GOTTPOFF"})
      PROVE  Nonlocal(RefAt(objects, x).sym)
  <2>1. x \in Sites(world) /\ Ref(world, x).type \in GotTypes \cup {"GOTTPOFF"} /\ Ref(world, x) = RefAt(objects, x)
    BY LiveSitesOfState DEF Ref, objects
  <2>2. Ref(world, x).type \in {"GOTPCREL", "GOTTPOFF"}
    BY <1>1, <2>1 DEF SettledRest, SupportedIn, GotTypes, TlsTypes, LdTypes, DescTypes
  <2> QED
    BY <1>1, <2>1, <2>2 DEF SettledTls, SettledRest, TlsTypes, LdTypes, DescTypes
<1>3. ASSUME NEW x \in LiveSites({"GOTTPOFF"})
      PROVE  RefAt(objects, x).sym.kind = "tls"
  <2>1. x \in Sites(world) /\ Ref(world, x).type = "GOTTPOFF" /\ Ref(world, x) = RefAt(objects, x)
    BY LiveSitesOfState DEF Ref, objects
  <2> QED
    BY <1>1, <2>1 DEF SettledTls, TlsTypes, LdTypes, DescTypes
<1>4. plan.got \subseteq GotNames
  BY <1>1, AskedIsLive DEF GoodPlan, GoodNames, GotNames, GotTypes
<1>5. ExternalTlsGot \subseteq TlsGotNames
  BY <1>1, AskedIsLive DEF GoodPlan, GoodNames, TlsGotNames, ExternalTlsGot
<1>6. plan.gd \subseteq NamesAt(LiveSites({"TLSGD"}))
  BY <1>1, AskedIsLive DEF GoodPlan, GoodNames
<1>7. plan.desc \subseteq NamesAt(LiveSites({"GOTPC32_TLSDESC"}))
  BY <1>1, AskedIsLive DEF GoodPlan, GoodNames
<1>8. plan.plt \subseteq NamesAt(LiveSites({"PLT32"}))
  BY <1>1, AskedIsLive DEF GoodPlan, GoodNames
<1>9. plan.ld => LiveSites({"TLSLD"}) # {}
  <2>1. ASSUME plan.ld PROVE LiveSites({"TLSLD"}) # {}
    <3>1. PICK x \in Sites(world) : Ref(world, x).type = "TLSLD"
      BY <1>1, <2>1 DEF GoodPlan, GoodNames
    <3>2. x \in LiveSites({"TLSLD"})
      BY <1>1, <3>1, UnmaskedTypes, LiveSitesOfState
    <3> QED
      BY <3>2
  <2> QED
    BY <2>1
<1>10. ~\E s \in SymbolsAt(LiveSites(GotTypes \cup {"GOTTPOFF"})) : ~Nonlocal(s)
  BY <1>2 DEF SymbolsAt
<1>11. ~\E s \in SymbolsAt(LiveSites({"GOTTPOFF"})) : s.kind # "tls"
  BY <1>3 DEF SymbolsAt
<1> QED
  BY <1>4, <1>5, <1>6, <1>7, <1>8, <1>9, <1>10, <1>11 DEF CollectRefusal

(* No symbol of a table is without a value, and no entry is missing.       *)
LEMMA TablesAccept ==
    ASSUME PlanInv, LoadedIn(world), phase \in LatePhases(world),
           NEW x \in LiveSites(Types), x[1] = at[1], x[2] = at[2]
    PROVE  ~HasNoValue(RefAt(objects, x).sym) /\ ~HasNoEntry(RefAt(objects, x))
<1> DEFINE s == RefAt(objects, x).sym
<1>1. /\ GoodPlan(world, plan)
      /\ \A y \in Sites(world) : SettledTls(world, plan, y) /\ SettledRest(world, plan, y)
  BY LateSettled
<1>2. ASSUME NEW y \in LiveSites(Types)
      PROVE  /\ y \in Sites(world) /\ Ref(world, y) = RefAt(objects, y) /\ LiveIn(world, plan, y)
             /\ SettledTls(world, plan, y) /\ SettledRest(world, plan, y)
  BY <1>1, LiveSitesOfState DEF Ref, objects
<1>3. ASSUME NEW y \in LiveSites(Types), RefAt(objects, y).sym = s, Nonlocal(s), s.name \notin Defined
      PROVE  LET type == RefAt(objects, y).type IN
             /\ \/ type = "PLT32" /\ s.name \in plan.plt
                \/ type = "GOTPCREL" /\ s.name \in plan.got
                \/ type = "TLSGD" /\ s.name \in plan.gd
                \/ type = "GOTPC32_TLSDESC" /\ s.name \in plan.desc
                \/ type = "GOTTPOFF" /\ s.name \in ExternalTlsGot
             /\ type \in TlsTypes <=> s.kind = "tls"
  <2> DEFINE r == Ref(world, y)
  <2>1. r = RefAt(objects, y) /\ r.sym = s /\ ~Known(world, s.name)
    BY <1>2, <1>3, StateOfWorld
  <2>2. SettledTls(world, plan, y) /\ SettledRest(world, plan, y) /\ y \notin MaskedIn(plan)
    BY <1>2, <1>3 DEF LiveIn
  <2>3. r.type \notin LdTypes
    BY <1>3, <2>1, <2>2 DEF SettledTls, LocalTls
  <2>4. r.type \in TlsTypes <=> s.kind = "tls"
    BY <2>1, <2>2, <2>3 DEF SettledTls
  <2>5. r.type # "TLSDESC_CALL"
    BY <2>2 DEF SettledTls, MaskedIn
  <2>6. r.type \notin {"64", "PC32"}
    BY <1>3, <2>1, <2>2 DEF SettledRest, MaskedIn
  <2>7. r.type \in {"PLT32", "GOTPCREL", "TLSGD", "GOTPC32_TLSDESC", "GOTTPOFF"}
    BY <2>2, <2>3, <2>5, <2>6 DEF SettledRest, SupportedIn, TlsTypes, DescTypes
  <2>8. /\ r.type = "PLT32" => s.name \in plan.plt
        /\ r.type = "GOTPCREL" => s.name \in plan.got
        /\ r.type = "TLSGD" => s.name \in plan.gd
        /\ r.type = "GOTPC32_TLSDESC" => s.name \in plan.desc
    BY <1>3, <2>1, <2>2 DEF SettledTls, SettledRest
  <2>9. r.type = "GOTTPOFF" => s.name \in ExternalTlsGot
    BY <2>1, <2>2 DEF SettledTls, ExternalTlsGot, TlsTypes, LdTypes, DescTypes
  <2> HIDE DEF r
  <2> QED
    BY <2>1, <2>4, <2>7, <2>8, <2>9
<1>4. ASSUME Nonlocal(s), s.name \notin Defined
      PROVE  ~HasNoValue(s)
  <2>1. ASSUME NEW t \in TypesOf(s)
        PROVE  /\ \/ t = "PLT32" /\ s.name \in plan.plt
                  \/ t = "GOTPCREL" /\ s.name \in plan.got
                  \/ t = "TLSGD" /\ s.name \in plan.gd
                  \/ t = "GOTPC32_TLSDESC" /\ s.name \in plan.desc
                  \/ t = "GOTTPOFF" /\ s.name \in ExternalTlsGot
               /\ t \in TlsTypes <=> s.kind = "tls"
    <3>1. PICK y \in InTable(s) : RefAt(objects, y).type = t
      BY DEF TypesOf
    <3>2. y \in LiveSites(Types) /\ RefAt(objects, y).sym = s
      BY <3>1 DEF InTable
    <3> QED
      BY <1>3, <1>4, <3>1, <3>2
  <2>2. RefAt(objects, x).type \in TypesOf(s)
    BY DEF InTable, TypesOf
  <2> HIDE DEF s
  <2>3. CASE "PLT32" \in TypesOf(s)
    BY <2>1, <2>3 DEF HasNoValue
  <2>4. CASE "PLT32" \notin TypesOf(s) /\ s.kind = "tls"
    <3>1. SyntheticTls(s)
      BY <2>1, <2>4 DEF SyntheticTls, TlsTypes, LdTypes, DescTypes
    <3> QED
      BY <3>1 DEF HasNoValue
  <2>5. CASE "PLT32" \notin TypesOf(s) /\ s.kind # "tls"
    <3>1. \A t \in TypesOf(s) : t = "GOTPCREL" /\ s.name \in plan.got
      BY <2>1, <2>5 DEF TlsTypes, LdTypes, DescTypes
    <3>2. s.name \in plan.got /\ TypesOf(s) \subseteq {"GOTPCREL"}
      BY <2>2, <3>1
    <3> QED
      BY <3>2 DEF HasNoValue
  <2> QED
    BY <2>3, <2>4, <2>5
<1>5. ~HasNoEntry(RefAt(objects, x))
  <2>1. SettledTls(world, plan, x) /\ x \notin MaskedIn(plan) /\ Ref(world, x) = RefAt(objects, x)
    BY <1>2 DEF LiveIn
  <2> QED
    BY <2>1 DEF HasNoEntry, SettledTls, MaskedIn
<1> QED
  BY <1>4, <1>5 DEF HasNoValue

(* Every entry of the GOT is one the plan asks for or a definition.        *)
LEMMA SlotsAccept ==
    ASSUME PlanInv, LoadedIn(world), phase \in LatePhases(world)
    PROVE  GotNames \subseteq plan.got \cup Defined
<1> SUFFICES ASSUME NEW n \in GotNames, n \notin Defined PROVE n \in plan.got
  OBVIOUS
<1>1. PICK x \in LiveSites(GotTypes) : RefAt(objects, x).sym.name = n
  BY DEF GotNames, NamesAt
<1>2. /\ x \in Sites(world) /\ Ref(world, x) = RefAt(objects, x) /\ Ref(world, x).type \in GotTypes
      /\ SettledRest(world, plan, x) /\ ~Known(world, n)
  BY LateSettled, LiveSitesOfState, StateOfWorld DEF Ref
<1>3. Ref(world, x).type = "GOTPCREL"
  BY <1>2 DEF SettledRest, SupportedIn, GotTypes, TlsTypes, LdTypes, DescTypes
<1> QED
  BY <1>1, <1>2, <1>3 DEF SettledRest

(* Whatever a loader relocation names is a definition or an import.        *)
LEMMA RelocationsAreNamed ==
    ASSUME PlanInv, LoadedIn(world), phase \in LatePhases(world), NEW r \in SymbolRelocations
    PROVE  r.value[2] \in Defined \cup DOMAIN plan.imports
<1>1. GoodPlan(world, plan)
  BY LateSettled
<1>2. \A n : Named(world, plan, n) => n \in Defined \cup DOMAIN plan.imports
  BY StateOfWorld DEF Named
<1>3. ASSUME NEW type, NEW e, NEW names, \A n \in names : Named(world, plan, n), r \in BySlot(type, e, names)
      PROVE  r.value[2] \in Defined \cup DOMAIN plan.imports
  <2>1. PICK n \in names : r = Runtime(type, Slot(e, n), Dyn(n))
    BY <1>3 DEF BySlot
  <2>2. r.value[2] = n
    BY <2>1 DEF Runtime, Dyn
  <2> QED
    BY <1>2, <1>3, <2>2
<1>4. CASE r \in {Runtime("COPY", <<"copy", n>>, Dyn(n)) : n \in plan.copy}
  <2>1. PICK n \in plan.copy : r = Runtime("COPY", <<"copy", n>>, Dyn(n))
    BY <1>4
  <2>2. r.value[2] = n
    BY <2>1 DEF Runtime, Dyn
  <2> QED
    BY <1>1, <1>2, <2>2 DEF GoodPlan, GoodNames
<1>5. CASE r \in {Runtime("64", Word(x), Dyn(RefAt(objects, x).sym.name)) : x \in plan.sites}
  <2>1. PICK x \in plan.sites : r = Runtime("64", Word(x), Dyn(RefAt(objects, x).sym.name))
    BY <1>5
  <2>2. r.value[2] = NameAt(world, x)
    BY <2>1 DEF Runtime, Dyn, NameAt, Ref, objects
  <2> QED
    BY <1>1, <1>2, <2>2 DEF GoodPlan, GoodSites
<1>6. /\ \A n \in plan.got : Named(world, plan, n)
      /\ \A n \in plan.gd : Named(world, plan, n)
      /\ \A n \in plan.ie : Named(world, plan, n)
      /\ \A n \in plan.desc : Named(world, plan, n)
      /\ \A n \in plan.plt : Named(world, plan, n)
  BY <1>1 DEF GoodPlan, GoodNames
<1> QED
  BY <1>3, <1>4, <1>5, <1>6 DEF SymbolRelocations

-----------------------------------------------------------------------------
(* Accepted plans are carried out.                                         *)
CarriedOut(w, e) ==
    LoadedIn(w) => /\ e \notin Disagreements
                   /\ e = "MissingDynamicSymbol" => w.localized # {}
                   /\ e = "NoExports" => w.localized # {} \/ \A n : ~Known(w, n)
CarriedInv == \A w, e : w = world /\ e = error => CarriedOut(w, e)
LaterAnswers == Disagreements \cup {"MissingDynamicSymbol", "NoExports"}

LEMMA CarriedIsAccepted == CarriedInv => AcceptedPlansAreCarriedOut
<1>1. CarriedInv => CarriedOut(world, error)
  BY DEF CarriedInv
<1> QED
  BY <1>1, StateOfWorld DEF CarriedOut, AcceptedPlansAreCarriedOut

LEMMA CarriedStays ==
    ASSUME CarriedInv, world' = world, error' = error
    PROVE  CarriedInv'
    BY DEF CarriedInv

LEMMA CarriedRefusal ==
    ASSUME NEW e, Refuse(e), CarriedOut(world, e)
    PROVE  CarriedInv'
    BY DEF CarriedInv, Refuse

LEMMA OtherAnswers ==
    ASSUME NEW e, Refuse(e), e \notin LaterAnswers
    PROVE  CarriedInv'
    BY CarriedRefusal DEF CarriedOut, LaterAnswers

(* None of the answers of planning is one of the later passes'.            *)
LEMMA PlanningAnswers ==
    /\ \A r, f : TlsRefusal(r, f) \notin LaterAnswers
    /\ \A r : ImportRefusal(r) \notin LaterAnswers
    /\ \A r : DefinedRefusal(r) \notin LaterAnswers
    /\ \A s : SymbolRefusal(s) \notin LaterAnswers
    /\ \A r : PieRefusal(r) \notin LaterAnswers
<1>1. \A r, f : TlsRefusal(r, f) \notin LaterAnswers
  BY DEF TlsRefusal, LaterAnswers, Disagreements
<1>2. \A r : ImportRefusal(r) \notin LaterAnswers
  BY DEF ImportRefusal, LaterAnswers, Disagreements
<1>3. \A r : DefinedRefusal(r) \notin LaterAnswers
  BY DEF DefinedRefusal, LaterAnswers, Disagreements
<1>4. \A s : SymbolRefusal(s) \notin LaterAnswers
  BY DEF SymbolRefusal, LaterAnswers, Disagreements
<1>5. \A r : PieRefusal(r) \notin LaterAnswers
  BY DEF PieRefusal, LaterAnswers, Disagreements
<1> QED
  BY <1>1, <1>2, <1>3, <1>4, <1>5

LEMMA PlanningCarries ==
    ASSUME CarriedInv, PlanNext
    PROVE  CarriedInv'
<1>1. /\ "RelocationUnsupported" \notin LaterAnswers
      /\ "IncompleteTlsLdSequence" \notin LaterAnswers
      /\ "IncompleteTlsDescSequence" \notin LaterAnswers
  BY DEF LaterAnswers, Disagreements
<1>2. CASE PlanTls
  <2>1. Refuse(TlsRefusal(Current, Table.flags)) \/ Proceed(TlsPlanned(Current), "types")
    BY <1>2 DEF PlanTls
  <2>2. Refuse(TlsRefusal(Current, Table.flags)) => CarriedInv'
    BY PlanningAnswers, OtherAnswers
  <2> QED
    BY <2>1, <2>2, CarriedStays DEF Proceed
<1>3. CASE CheckTypes
  BY <1>1, <1>3, OtherAnswers, CarriedStays DEF CheckTypes
<1>4. CASE PlanImport
  <2>1. PICK e, new, then : /\ Refuse(e) \/ Proceed(new, then)
                            /\ e \in {"RelocationUnsupported", "none", ImportRefusal(Current), DefinedRefusal(Current)}
                            /\ e # "none" \/ Proceed(new, then)
    <3> DEFINE r == Current
               then == IF at[2] < Len(objects[at[1]].tables) THEN "next" ELSE "symbols"
               refusal == IF ~Nonlocal(r.sym)
                          THEN IF r.type = "GOTPCREL" THEN "RelocationUnsupported" ELSE "none"
                          ELSE IF Unresolved(r.sym) THEN ImportRefusal(r) ELSE DefinedRefusal(r)
               new == IF ~Nonlocal(r.sym) THEN plan
                      ELSE IF Unresolved(r.sym) THEN ImportPlanned(r) ELSE DefinedPlanned(r)
    <3>1. IF r.type \in TlsTypes THEN Proceed(plan, then)
          ELSE IF refusal = "none" THEN Proceed(new, then) ELSE Refuse(refusal)
      BY <1>4 DEF PlanImport
    <3>2. refusal \in {"RelocationUnsupported", "none", ImportRefusal(r), DefinedRefusal(r)}
      OBVIOUS
    <3> HIDE DEF then, refusal, new
    <3> QED
      BY <3>1, <3>2
  <2>2. e \notin LaterAnswers \/ Proceed(new, then)
    BY <1>1, <2>1, PlanningAnswers
  <2> QED
    BY <2>1, <2>2, OtherAnswers, CarriedStays DEF Proceed
<1>5. CASE NextTable
  BY <1>5, CarriedStays DEF NextTable
<1>6. CASE AdmitSymbols
  <2>1. (\E s : Refuse(SymbolRefusal(s))) \/ UNCHANGED <<world, error>>
    BY <1>6 DEF AdmitSymbols
  <2>2. ASSUME NEW s, Refuse(SymbolRefusal(s)) PROVE CarriedInv'
    BY <2>2, PlanningAnswers, OtherAnswers
  <2> QED
    BY <2>1, <2>2, CarriedStays
<1>7. CASE FinishPlan
  BY <1>1, <1>7, OtherAnswers, CarriedStays DEF FinishPlan
<1>8. CASE CheckPie
  <2>1. (\E x : Refuse(PieRefusal(x))) \/ UNCHANGED <<world, error>>
    BY <1>8 DEF CheckPie
  <2>2. ASSUME NEW x, Refuse(PieRefusal(x)) PROVE CarriedInv'
    BY <2>2, PlanningAnswers, OtherAnswers
  <2> QED
    BY <2>1, <2>2, CarriedStays
<1> QED
  BY <1>2, <1>3, <1>4, <1>5, <1>6, <1>7, <1>8 DEF PlanNext

(* Of a loaded image no later pass finds what planning should have seen.   *)
LEMMA LaterCarries ==
    ASSUME PlanInv, CarriedInv, LateActions
    PROVE  CarriedInv'
<1>1. phase \in LatePhases(world) /\ (Loaded <=> LoadedIn(world))
  BY LatePass, StateOfWorld
<1>2. CASE UNCHANGED <<world, error>>
  BY <1>2, CarriedStays
<1>3. CASE ~LoadedIn(world) /\ \E e : Refuse(e)
  BY <1>3, CarriedRefusal DEF CarriedOut
<1>4. CASE LoadedIn(world) /\ Collect
  BY <1>1, <1>4, CollectAccepts, CarriedStays DEF Collect
<1>5. CASE LoadedIn(world) /\ ApplyTable
  <2> DEFINE here == {x \in LiveSites(Types) : x[1] = at[1] /\ x[2] = at[2]}
  <2>1. \A x \in here : ~HasNoValue(RefAt(objects, x).sym) /\ ~HasNoEntry(RefAt(objects, x))
    BY <1>1, <1>5, TablesAccept
  <2>2. ~\E s \in SymbolsAt(here) : HasNoValue(s)
    BY <2>1 DEF SymbolsAt
  <2>3. UNCHANGED <<world, error>>
    BY <1>5, <2>1, <2>2 DEF ApplyTable
  <2> QED
    BY <2>3, CarriedStays
<1>6. CASE LoadedIn(world) /\ FillSlots
  <2>1. GotNames \ (plan.got \cup Defined) = {}
    BY <1>1, <1>6, SlotsAccept
  <2>2. UNCHANGED <<world, error>>
    BY <1>6, <2>1 DEF FillSlots
  <2> QED
    BY <2>2, CarriedStays
<1>7. CASE LoadedIn(world) /\ StaticTls
  <2>1. phase = "static_tls"
    BY <1>7 DEF StaticTls
  <2> QED
    BY <1>1, <1>7, <2>1 DEF LatePhases, LoadedIn
<1>8. CASE LoadedIn(world) /\ Patch
  <2>1. "MissingCopyRelocationTarget" \notin LaterAnswers
    BY DEF LaterAnswers, Disagreements
  <2> QED
    BY <1>8, <2>1, OtherAnswers, CarriedStays DEF Patch
<1>9. CASE LoadedIn(world) /\ WriteLoaderRelocations
  <2>1. LoaderRefusal = "none" \/ Refuse(LoaderRefusal)
    BY <1>9 DEF WriteLoaderRelocations
  <2>2. CASE LoaderRefusal = "none"
    BY <1>9, <2>2, CarriedStays DEF WriteLoaderRelocations
  <2>3. CASE LoaderRefusal = "NoExports" /\ Refuse(LoaderRefusal)
    <3>1. CASE Exports = {}
      <4>1. world.localized # {} \/ \A n : ~Known(world, n)
        BY <3>1, StateOfWorld DEF Exports
      <4>2. "NoExports" \notin Disagreements
        BY DEF Disagreements
      <4>3. CarriedOut(world, "NoExports")
        BY <4>1, <4>2 DEF CarriedOut
      <4> QED
        BY <2>3, <4>3, CarriedRefusal
    <3>2. CASE Exports # {}
      BY <2>3, <3>2 DEF LoaderRefusal
    <3> QED
      BY <3>1, <3>2
  <2>4. CASE LoaderRefusal = "MissingDynamicSymbol" /\ Refuse(LoaderRefusal)
    <3>1. \E r \in SymbolRelocations : r.value[2] \notin DynamicSymbols
      BY <2>4 DEF LoaderRefusal
    <3>2. \A r \in SymbolRelocations : r.value[2] \in Defined \cup DOMAIN plan.imports
      BY <1>1, <1>9, RelocationsAreNamed
    <3>3. world.localized # {}
      BY <3>1, <3>2 DEF DynamicSymbols, Exports
    <3>4. "MissingDynamicSymbol" \notin Disagreements
      BY DEF Disagreements
    <3>5. CarriedOut(world, "MissingDynamicSymbol")
      BY <3>3, <3>4 DEF CarriedOut
    <3> QED
      BY <2>4, <3>5, CarriedRefusal
  <2>5. CASE LoaderRefusal \notin {"none", "NoExports", "MissingDynamicSymbol"} /\ Refuse(LoaderRefusal)
    <3>1. LoaderRefusal \notin LaterAnswers
      BY <2>5 DEF LoaderRefusal, LaterAnswers, Disagreements
    <3> QED
      BY <2>5, <3>1, OtherAnswers
  <2> QED
    BY <2>1, <2>2, <2>3, <2>4, <2>5
<1>10. (\E e : Refuse(e)) \/ UNCHANGED <<world, error>>
  BY LatePass
<1> QED
  BY <1>2, <1>3, <1>4, <1>5, <1>6, <1>7, <1>8, <1>9, <1>10 DEF LateActions

LEMMA CarriedInitially == PlanInit => CarriedInv
<1>1. "none" \notin LaterAnswers
  BY DEF LaterAnswers, Disagreements
<1>2. PlanInit => error = "none"
  BY DEF PlanInit
<1> QED
  BY <1>1, <1>2 DEF CarriedInv, CarriedOut, LaterAnswers

LEMMA CarriedStep == PlanInv /\ CarriedInv /\ [ReferencesNext \/ ReferencesStopped]_refVars => CarriedInv'
<1> SUFFICES ASSUME PlanInv, CarriedInv, [ReferencesNext \/ ReferencesStopped]_refVars
             PROVE  CarriedInv'
  OBVIOUS
<1>1. CASE PlanNext
  BY <1>1, PlanningCarries
<1>2. CASE LateActions
  BY <1>2, LaterCarries
<1>3. CASE ReferencesStopped \/ UNCHANGED refVars
  BY <1>3, CarriedStays DEF ReferencesStopped, refVars
<1> QED
  BY <1>1, <1>2, <1>3 DEF ReferencesNext, LateActions

(* What the plan of a loaded image has accepted, in whatever order its     *)
(* relocations come, the passes after it never have to refuse: no entry is *)
(* missing, no planned name is without a reference and no symbol without a *)
(* value, and a dynamic symbol only where a version script hid it.         *)
THEOREM AcceptedPlans == ReferencesSpec => []AcceptedPlansAreCarriedOut
<1>1. ReferencesSpec => []CarriedInv
  BY PlansAccountForReferences, CarriedInitially, CarriedStep, PTL DEF ReferencesSpec
<1> QED
  BY <1>1, CarriedIsAccepted, PTL

-----------------------------------------------------------------------------
(* The words, entries and loader relocations of a given w and p, for the   *)
(* invariants; the state's are those of the world and the plan.            *)
LiveWith(w, p, types) == {x \in Sites(w) : LiveIn(w, p, x) /\ Ref(w, x).type \in types}
NamesIn(w, p, types)  == {NameAt(w, x) : x \in LiveWith(w, p, types)}
SyntheticIn(w, p) ==
    ({"got"} \X NamesIn(w, p, GotTypes)) \cup ({"tlsgot"} \X NamesIn(w, p, {"GOTTPOFF"}))
      \cup ({"gd", "gdoff"} \X p.gd) \cup ({"desc"} \X p.desc) \cup ({"pltgot"} \X p.plt)
      \cup IF p.ld THEN {<<"ld", "">>} ELSE {}

GlobalIn(w, n) == IF Known(w, n) THEN Def(DefinitionsOf(w.objects)[n]) ELSE Zero
OwnIn(w, x)    == IF Nonlocal(Ref(w, x).sym) THEN GlobalIn(w, NameAt(w, x)) ELSE Local(x[1], Ref(w, x).sym)
NamedWithPlt(w, p, x) ==
    \E y \in LiveWith(w, p, Types) : SameTable(y, x) /\ Ref(w, y).sym = Ref(w, x).sym /\ Ref(w, y).type = "PLT32"
ValueIn(w, p, x) ==
    LET s == Ref(w, x).sym IN
    IF Nonlocal(s) /\ ~Known(w, s.name) /\ s.name \in p.plt /\ NamedWithPlt(w, p, x)
    THEN <<"plt", s.name>> ELSE OwnIn(w, x)
WordIn(w, p, x) ==
    LET n == NameAt(w, x)
        type == Ref(w, x).type
    IN CASE type = "SIZE32"   -> In("size", ValueIn(w, p, x))
         [] type = "GOTPC32"  -> Rel(<<"got", "">>)
         [] type = "GOT64"    -> FromGot(<<"got", n>>)
         [] type = "GOTPCREL" -> Rel(<<"got", n>>)
         [] type = "GOTTPOFF" -> Rel(<<"tlsgot", n>>)
         [] type = "TLSGD"    -> Rel(<<"gd", n>>)
         [] type = "GOTPC32_TLSDESC" -> Rel(<<"desc", n>>)
         [] type = "TLSLD"    -> Rel(<<"ld", "">>)
         [] type = "PLT32"    -> Rel(IF n \in p.plt THEN <<"plt", n>> ELSE ValueIn(w, p, x))
         [] type = "GOTOFF64" -> FromGot(ValueIn(w, p, x))
         [] type = "PC32"     -> Rel(ValueIn(w, p, x))
         [] OTHER             -> Abs(ValueIn(w, p, x))
PatchedIn(w, p, x) == IF LoadedIn(w) THEN x \in p.copySites \cup p.dtpoffSites
                      ELSE x \in Sites(w) /\ Ref(w, x).type = "TPOFF32"
WrittenIn(w, p, x) ==
    IF ~PatchedIn(w, p, x) THEN WordIn(w, p, x)
    ELSE IF ~LoadedIn(w) THEN In("tpoff", OwnIn(w, x))
    ELSE IF x \in p.copySites THEN Rel(<<"copy", NameAt(w, x)>>)
    ELSE In("dtpoff", Local(x[1], Ref(w, x).sym))

TlsPatched(w, ph) == ~LoadedIn(w) /\ ph \in {"loader", "loaded"}
SlotIn(w, p, ph, e) ==
    IF e[1] = "tlsgot" /\ TlsPatched(w, ph) THEN In("tpoff", GlobalIn(w, e[2]))
    ELSE IF e[1] = "pltgot" THEN Abs(<<"lazy", e[2]>>)
    ELSE IF e[1] = "got" /\ e[2] \notin p.got THEN Abs(GlobalIn(w, e[2]))
    ELSE Abs(Zero)

RelativeIn(w, place, v) ==
    Runtime(IF ~LoadedIn(w) /\ v[2][2].kind = "ifunc" THEN "IRELATIVE" ELSE "RELATIVE", place, v)
ImageGotIn(w, p) == {n \in IF LoadedIn(w) THEN p.relativeGot ELSE NamesIn(w, p, GotTypes) :
                        Known(w, n) /\ ~DefOf(w, n).abs}
WordRelatives(w, p) == {RelativeIn(w, Word(x), OwnIn(w, x)) :
                           x \in {y \in LiveWith(w, p, {"64"}) : OwnIn(w, y) # Zero}}
SlotRelatives(w, p) == {RelativeIn(w, Slot("got", n), GlobalIn(w, n)) : n \in ImageGotIn(w, p)}
CopyRelocations(p)   == {Runtime("COPY", <<"copy", n>>, Dyn(n)) : n \in p.copy}
NamedWords(w, p) == {Runtime("64", Word(x), Dyn(NameAt(w, x))) : x \in p.sites}
NamedSlots(p) ==
    BySlot("GLOB_DAT", "got", p.got) \cup BySlot("DTPMOD64", "gd", p.gd)
      \cup BySlot("DTPOFF64", "gdoff", p.gd) \cup BySlot("TPOFF64", "tlsgot", p.ie)
      \cup BySlot("TLSDESC", "desc", p.desc) \cup BySlot("JUMP_SLOT", "pltgot", p.plt)
ModulesIn(p) == IF p.ld THEN {Runtime("DTPMOD64", Slot("ld", ""), <<"module", "">>)} ELSE {}
LoaderIn(w, p) == WordRelatives(w, p) \cup SlotRelatives(w, p) \cup CopyRelocations(p)
                    \cup NamedWords(w, p) \cup NamedSlots(p) \cup ModulesIn(p)

(* How far the words are written, and what the passes have looked at.      *)
Passed(x, a, ph) == IF ph = "tables" THEN EarlierTable(x, a)
                    ELSE ph \in {"slots", "patch", "static_tls", "loader", "loaded"}
AppliedAt(w, p, a, ph, x) == x \in LiveWith(w, p, Types) /\ "alloc" \in FlagsAt(w, x) /\ Passed(x, a, ph)
PatchedAt(w, p, ph, x)    == ph \in {"loader", "loaded"} /\ PatchedIn(w, p, x)
ValuedIn(w, x) == Nonlocal(Ref(w, x).sym) /\ ~Known(w, NameAt(w, x)) => Ref(w, x).sym.bind = "weak"
EntryTypes == {"TLSGD", "GOTPC32_TLSDESC", "TLSLD", "TLSDESC_CALL"}
WordsAt(w, p, a, ph, wd) ==
    /\ ph = "tables" => <<a[1], a[2]>> \in TablesOf(w.objects) /\ "alloc" \in TableAt(w.objects, a).flags
    /\ \A x : x \in DOMAIN wd <=> AppliedAt(w, p, a, ph, x) \/ PatchedAt(w, p, ph, x)
    /\ \A x \in DOMAIN wd : wd[x] = WrittenIn(w, p, x)
    /\ ~LoadedIn(w) => \A x : AppliedAt(w, p, a, ph, x) => ValuedIn(w, x) /\ Ref(w, x).type \notin EntryTypes
CollectedIn(w, p) ==
    /\ \A x \in LiveWith(w, p, GotTypes \cup {"GOTTPOFF"}) : Nonlocal(Ref(w, x).sym)
    /\ p.got \subseteq NamesIn(w, p, GotTypes)
    /\ p.ie \cap DOMAIN p.imports \subseteq NamesIn(w, p, {"GOTTPOFF"})
EntriesAt(w, p, ph, sl) ==
    ph \in {"patch", "static_tls", "loader", "loaded"} =>
        DOMAIN sl = SyntheticIn(w, p) /\ \A e \in DOMAIN sl : sl[e] = SlotIn(w, p, ph, e)
PointersIn(w, p) == \A x \in LiveWith(w, p, {"64"}) : Writable(FlagsAt(w, x)) /\ (OwnIn(w, x) # Zero => ~OwnIn(w, x)[2][2].abs)
LoaderAt(w, p, ph, ld) ==
    /\ ph # "loaded" \/ w.mode = "static" => ld = {}
    /\ ph = "loaded" /\ w.mode # "static" => ld = LoaderIn(w, p) /\ PointersIn(w, p)
WrittenAt(w, p, a, ph, wd, sl, ld) ==
    ph # "refused" => /\ WordsAt(w, p, a, ph, wd)
                      /\ ph \in LatePhases(w) \ {"collect"} => CollectedIn(w, p)
                      /\ EntriesAt(w, p, ph, sl)
                      /\ LoaderAt(w, p, ph, ld)
WrittenInv ==
    \A w, p, a, ph, wd, sl, ld :
        w = world /\ p = plan /\ a = at /\ ph = phase /\ wd = words /\ sl = slots /\ ld = loader
          => WrittenAt(w, p, a, ph, wd, sl, ld)

LEMMA WrittenOfState == WrittenInv => WrittenAt(world, plan, at, phase, words, slots, loader)
  BY DEF WrittenInv

LEMMA WrittenNextState ==
    ASSUME world' = world, WrittenAt(world, plan', at', phase', words', slots', loader')
    PROVE  WrittenInv'
    BY DEF WrittenInv

(* The operators of the state are those of the world and the plan.         *)
LEMMA LiveOfState ==
    /\ \A types : LiveSites(types) = LiveWith(world, plan, types)
    /\ \A types : NamesAt(LiveSites(types)) = NamesIn(world, plan, types)
    /\ \A n : GlobalValue(n) = GlobalIn(world, n)
    /\ \A x : PointerValue(x) = OwnIn(world, x) /\ TpoffValue(x) = OwnIn(world, x)
    /\ Synthetic = SyntheticIn(world, plan)
<1>1. \A types : LiveSites(types) = LiveWith(world, plan, types)
  BY LiveSitesOfState DEF LiveWith, LiveSites, Sites, objects
<1>2. \A types : NamesAt(LiveSites(types)) = NamesIn(world, plan, types)
  BY <1>1 DEF NamesAt, NamesIn, NameAt, Ref, objects
<1>3. \A n : GlobalValue(n) = GlobalIn(world, n)
  BY DEF GlobalValue, GlobalIn, Defined, Definitions, Known, objects
<1>4. \A x : PointerValue(x) = OwnIn(world, x) /\ TpoffValue(x) = OwnIn(world, x)
  BY <1>3 DEF PointerValue, TpoffValue, OwnIn, NameAt, Ref, objects
<1>5. Synthetic = SyntheticIn(world, plan)
  <2>1. GotNames = NamesIn(world, plan, GotTypes)
    BY <1>2 DEF GotNames
  <2>2. TlsGotNames = NamesIn(world, plan, {"GOTTPOFF"})
    BY <1>2 DEF TlsGotNames
  <2> QED
    BY <2>1, <2>2, Zenon DEF Synthetic, SyntheticIn
<1> QED
  BY <1>1, <1>2, <1>3, <1>4, <1>5

LEMMA ValueOfState ==
    ASSUME NEW x \in LiveSites(Types), x[1] = at[1], x[2] = at[2]
    PROVE  Value(RefAt(objects, x).sym) = ValueIn(world, plan, x)
<1> DEFINE s == RefAt(objects, x).sym
<1>1. "PLT32" \in TypesOf(s) <=> NamedWithPlt(world, plan, x)
  <2>1. InTable(s) = {y \in LiveWith(world, plan, Types) : SameTable(y, x) /\ Ref(world, y).sym = s}
    BY LiveOfState DEF InTable, SameTable, Ref, objects
  <2>2. s = Ref(world, x).sym /\ \A y : RefAt(objects, y).type = Ref(world, y).type
    BY DEF Ref, objects
  <2> HIDE DEF s
  <2> QED
    BY <2>1, <2>2 DEF TypesOf, NamedWithPlt
<1>2. s = Ref(world, x).sym /\ s.name = NameAt(world, x)
  BY DEF Ref, NameAt, objects
<1> HIDE DEF s
<1>3. Value(s) = ValueIn(world, plan, x)
  BY <1>1, <1>2 DEF Value, ValueIn, OwnIn, GlobalIn, Known, Defined, Definitions, objects
<1> QED
  BY <1>3 DEF s

LEMMA WordOfState ==
    ASSUME NEW x \in LiveSites(Types), x[1] = at[1], x[2] = at[2]
    PROVE  WordOf(RefAt(objects, x)) = WordIn(world, plan, x)
<1>1. Value(RefAt(objects, x).sym) = ValueIn(world, plan, x)
  BY ValueOfState
<1>2. RefAt(objects, x) = Ref(world, x) /\ Ref(world, x).sym.name = NameAt(world, x)
  BY DEF Ref, NameAt, objects
<1> QED
  BY <1>1, <1>2 DEF WordOf, WordIn

LEMMA SlotOfState ==
    ASSUME NEW e
    PROVE  SlotOf(e) = IF e[1] = "pltgot" THEN Abs(<<"lazy", e[2]>>)
                       ELSE IF e[1] = "got" /\ e[2] \notin plan.got THEN Abs(GlobalIn(world, e[2]))
                       ELSE Abs(Zero)
    BY DEF SlotOf, GlobalIn, Known, Defined, Definitions, objects

LEMMA LoaderOfState ==
    RelativeRelocations \cup SymbolRelocations \cup ModuleRelocations = LoaderIn(world, plan)
<1>1. \A place, v : RelativeTo(place, v) = RelativeIn(world, place, v)
  BY StateOfWorld DEF RelativeTo, RelativeIn
<1>2. Pointers = LiveWith(world, plan, {"64"})
  BY LiveOfState DEF Pointers
<1>3. {n \in ImageGot : DefinedByImage(n)} = ImageGotIn(world, plan)
  BY StateOfWorld, LiveOfState DEF ImageGot, DefinedByImage, ImageGotIn, GotNames
<1>4. \A n \in ImageGotIn(world, plan) : Def(Definitions[n]) = GlobalIn(world, n)
  BY DEF ImageGotIn, GlobalIn, Definitions, objects
<1>5. RelativeRelocations = WordRelatives(world, plan) \cup SlotRelatives(world, plan)
  <2>1. {RelativeTo(Word(x), PointerValue(x)) : x \in {y \in Pointers : PointerValue(y) # Zero}} = WordRelatives(world, plan)
    BY <1>1, <1>2, LiveOfState DEF WordRelatives
  <2>2. {RelativeTo(Slot("got", n), Def(Definitions[n])) : n \in {m \in ImageGot : DefinedByImage(m)}} = SlotRelatives(world, plan)
    BY <1>1, <1>3, <1>4 DEF SlotRelatives
  <2> QED
    BY <2>1, <2>2 DEF RelativeRelocations
<1>6. SymbolRelocations = CopyRelocations(plan) \cup NamedWords(world, plan) \cup NamedSlots(plan)
  BY DEF SymbolRelocations, CopyRelocations, NamedWords, NamedSlots, NameAt, Ref, objects
<1> QED
  BY <1>5, <1>6 DEF LoaderIn, ModuleRelocations, ModulesIn

-----------------------------------------------------------------------------
(* The tables in their order.                                              *)
LEMMA TablesShape ==
    ASSUME NEW w, GoodWorld(w)
    PROVE  /\ \A q \in TablesOf(w.objects) : q = <<q[1], q[2]>> /\ q[1] \in Nat /\ q[2] \in Nat
           /\ \A x \in Sites(w) : <<x[1], x[2]>> \in TablesOf(w.objects)
<1>0. DOMAIN w.objects = 1 .. Len(w.objects) /\ Len(w.objects) \in Nat
  BY ElementOf DEF GoodWorld, WellFormed
<1>1. \A o \in 1 .. Len(w.objects) : DOMAIN w.objects[o].tables = 1 .. Len(w.objects[o].tables) /\ Len(w.objects[o].tables) \in Nat
  BY TablesTyped
<1>2. \A z : z \in TablesOf(w.objects) <=> \E o \in 1 .. Len(w.objects) : \E t \in 1 .. Len(w.objects[o].tables) : z = <<o, t>>
  BY <1>0, <1>1 DEF TablesOf
<1>3. ASSUME NEW q \in TablesOf(w.objects) PROVE q = <<q[1], q[2]>> /\ q[1] \in Nat /\ q[2] \in Nat
  <2>1. PICK o \in 1 .. Len(w.objects) : \E t \in 1 .. Len(w.objects[o].tables) : q = <<o, t>>
    BY <1>2
  <2>2. PICK t \in 1 .. Len(w.objects[o].tables) : q = <<o, t>>
    BY <2>1
  <2>3. o \in Nat /\ t \in Nat
    BY <1>0, <1>1
  <2> QED
    BY <2>2, <2>3
<1>4. ASSUME NEW x \in Sites(w) PROVE <<x[1], x[2]>> \in TablesOf(w.objects)
  BY <1>2, SiteShape
<1> QED
  BY <1>3, <1>4

LEMMA FirstOfTables ==
    ASSUME GoodWorld(world), NEW S, S \subseteq TablesOf(objects), S # {}
    PROVE  /\ FirstTable(S) \in S
           /\ \A q \in S : FirstTable(S)[1] < q[1] \/ (FirstTable(S)[1] = q[1] /\ FirstTable(S)[2] <= q[2])
<1>1. \A q \in S : q = <<q[1], q[2]>> /\ q[1] \in Nat /\ q[2] \in Nat
  BY TablesShape DEF objects
<1> DEFINE A == {q[1] : q \in S}
<1>2. A \subseteq Nat /\ A # {}
  BY <1>1
<1>3. PICK o \in A : \A z \in A : o <= z
  BY <1>2, LeastOfSet
<1> DEFINE B == {q[2] : q \in {z \in S : z[1] = o}}
<1>4. B \subseteq Nat /\ B # {}
  BY <1>1, <1>3
<1>5. PICK t \in B : \A z \in B : t <= z
  BY <1>4, LeastOfSet
<1>6. PICK p \in S : p[1] = o /\ p[2] = t
  BY <1>5
<1>7. ASSUME NEW q \in S PROVE p[1] < q[1] \/ (p[1] = q[1] /\ p[2] <= q[2])
  <2>1. q[1] \in A /\ q[1] \in Nat /\ q[2] \in Nat /\ o \in Nat
    BY <1>1, <1>2, <1>3
  <2>2. o <= q[1]
    BY <1>3, <2>1
  <2>3. q[1] = o => t <= q[2]
    BY <1>5
  <2> HIDE DEF A, B
  <2> QED
    BY <1>6, <2>1, <2>2, <2>3
<1>8. \E z \in S : \A q \in S : z[1] < q[1] \/ (z[1] = q[1] /\ z[2] <= q[2])
  BY <1>7
<1> HIDE DEF A, B
<1> QED
  BY <1>8 DEF FirstTable

LEMMA PairOfNat ==
    ASSUME NEW a \in Nat, NEW b \in Nat, NEW p, p = <<a, b>>
    PROVE  p \in Seq(Nat) /\ Len(p) = 2 /\ <<1>> \in Seq(Nat)
<1>1. <<a, b>> \in Seq(Nat) /\ Len(<<a, b>>) = 2 /\ <<1>> \in Seq(Nat)
  OBVIOUS
<1> QED
  BY <1>1

LEMMA GoToPlace ==
    ASSUME GoodWorld(world), NEW S, S \subseteq Allocated, GoTo(S, "slots")
    PROVE  /\ S = {} => phase' = "slots"
           /\ S # {} => phase' = "tables" /\ at'[1] = FirstTable(S)[1] /\ at'[2] = FirstTable(S)[2]
           /\ phase' = "tables" => /\ <<at'[1], at'[2]>> \in TablesOf(world.objects)
                                   /\ "alloc" \in TableAt(world.objects, at').flags
                                   /\ at'[1] \in Nat /\ at'[2] \in Nat
<1>1. S = {} => phase' = "slots"
  BY DEF GoTo
<1>2. ASSUME S # {}
      PROVE  /\ phase' = "tables" /\ at'[1] = FirstTable(S)[1] /\ at'[2] = FirstTable(S)[2]
             /\ <<at'[1], at'[2]>> \in TablesOf(world.objects)
             /\ "alloc" \in TableAt(world.objects, at').flags
             /\ at'[1] \in Nat /\ at'[2] \in Nat
  <2> DEFINE p == FirstTable(S)
  <2>1. S \subseteq TablesOf(objects)
    BY DEF Allocated
  <2>2. p \in S
    BY <1>2, <2>1, FirstOfTables
  <2>3. p = <<p[1], p[2]>> /\ p[1] \in Nat /\ p[2] \in Nat /\ p \in TablesOf(world.objects)
    BY <2>1, <2>2, TablesShape DEF objects
  <2>4. phase' = "tables" /\ at' = p \o <<1>>
    BY <1>2 DEF GoTo
  <2>5. "alloc" \in TableAt(world.objects, p).flags
    BY <2>2 DEF Allocated, objects
  <2> HIDE DEF p
  <2>6. p \in Seq(Nat) /\ Len(p) = 2 /\ <<1>> \in Seq(Nat)
    BY <2>3, PairOfNat
  <2>7. at'[1] = p[1] /\ at'[2] = p[2]
    BY <2>4, <2>6, ConcatProperties
  <2>8. TableAt(world.objects, at') = TableAt(world.objects, p)
    BY <2>7 DEF TableAt
  <2> QED
    BY <2>3, <2>4, <2>5, <2>7, <2>8 DEF p
<1> QED
  BY <1>1, <1>2

(* From the collected entries to the first table, and from a table to the  *)
(* next: of the allocated ones none is passed over.                        *)
LEMMA StartOfTables ==
    ASSUME GoodWorld(world), GoTo(Allocated, "slots"), NEW x \in Sites(world), "alloc" \in FlagsAt(world, x)
    PROVE  ~Passed(x, at', phase')
<1> DEFINE q == <<x[1], x[2]>>
<1>1. q \in TablesOf(world.objects) /\ TableAt(world.objects, q) = TableAt(world.objects, x)
  BY TablesShape DEF TableAt
<1>2. q \in Allocated
  BY <1>1 DEF Allocated, FlagsAt, objects
<1>3. /\ phase' = "tables" /\ at'[1] = FirstTable(Allocated)[1] /\ at'[2] = FirstTable(Allocated)[2]
      /\ at'[1] \in Nat /\ at'[2] \in Nat
  BY <1>2, GoToPlace
<1>4. FirstTable(Allocated)[1] < q[1] \/ (FirstTable(Allocated)[1] = q[1] /\ FirstTable(Allocated)[2] <= q[2])
  <2>1. Allocated \subseteq TablesOf(objects)
    BY DEF Allocated
  <2> QED
    BY <1>2, <2>1, FirstOfTables
<1>5. q[1] = x[1] /\ q[2] = x[2] /\ x[1] \in Nat /\ x[2] \in Nat
  BY SiteTyped
<1> HIDE DEF q
<1>6. ~EarlierTable(x, at')
  BY <1>3, <1>4, <1>5 DEF EarlierTable
<1> QED
  BY <1>2, <1>3, <1>6 DEF Passed

LEMMA NextOfTables ==
    ASSUME GoodWorld(world), <<at[1], at[2]>> \in TablesOf(world.objects), GoTo(After(at), "slots"),
           NEW x \in Sites(world), "alloc" \in FlagsAt(world, x)
    PROVE  Passed(x, at', phase') <=> EarlierTable(x, at) \/ SameTable(x, at)
<1> DEFINE q == <<x[1], x[2]>>
           S == After(at)
<1>1. q \in TablesOf(world.objects) /\ TableAt(world.objects, q) = TableAt(world.objects, x)
  BY TablesShape DEF TableAt
<1>2. q \in Allocated
  BY <1>1 DEF Allocated, FlagsAt, objects
<1>3. q[1] = x[1] /\ q[2] = x[2] /\ x[1] \in Nat /\ x[2] \in Nat
  BY SiteTyped
<1>4. at[1] \in Nat /\ at[2] \in Nat
  <2> DEFINE z == <<at[1], at[2]>>
  <2>1. z \in TablesOf(world.objects) /\ z[1] = at[1] /\ z[2] = at[2]
    OBVIOUS
  <2> HIDE DEF z
  <2> QED
    BY <2>1, TablesShape
<1>5. q \in S <=> ~(EarlierTable(x, at) \/ SameTable(x, at))
  BY <1>2, <1>3, <1>4 DEF After, EarlierTable, SameTable
<1>6. S \subseteq Allocated /\ S \subseteq TablesOf(objects)
  BY DEF After, Allocated
<1>7. GoTo(S, "slots")
  OBVIOUS
<1>8. \A z \in S : z[1] > at[1] \/ (z[1] = at[1] /\ z[2] > at[2])
  BY DEF After
<1> HIDE DEF q, S
<1>9. CASE S = {}
  <2>1. phase' = "slots"
    BY <1>6, <1>7, <1>9, GoToPlace
  <2> QED
    BY <1>5, <1>9, <2>1 DEF Passed
<1>10. CASE S # {}
  <2>1. /\ phase' = "tables" /\ at'[1] = FirstTable(S)[1] /\ at'[2] = FirstTable(S)[2]
        /\ at'[1] \in Nat /\ at'[2] \in Nat
    BY <1>6, <1>7, <1>10, GoToPlace
  <2>2. FirstTable(S) \in S /\ \A z \in S : FirstTable(S)[1] < z[1] \/ (FirstTable(S)[1] = z[1] /\ FirstTable(S)[2] <= z[2])
    BY <1>6, <1>10, FirstOfTables
  <2>3. at'[1] > at[1] \/ (at'[1] = at[1] /\ at'[2] > at[2])
    BY <1>8, <2>1, <2>2
  <2>4. q \in S => at'[1] < q[1] \/ (at'[1] = q[1] /\ at'[2] <= q[2])
    BY <2>1, <2>2
  <2>5. EarlierTable(x, at') <=> ~(q \in S)
    BY <1>3, <1>4, <1>5, <2>1, <2>3, <2>4 DEF EarlierTable, SameTable
  <2> QED
    BY <1>5, <2>1, <2>5 DEF Passed
<1> QED
  BY <1>9, <1>10

-----------------------------------------------------------------------------
(* What each pass writes.                                                  *)
Writing == {"tables", "slots", "patch", "static_tls", "loader", "loaded"}

LEMMA WrittenStays ==
    ASSUME WrittenInv, UNCHANGED <<world, plan, at, phase, words, slots, loader>>
    PROVE  WrittenInv'
    BY DEF WrittenInv

LEMMA WrittenRefusal ==
    ASSUME NEW e, Refuse(e)
    PROVE  WrittenInv'
    BY DEF WrittenInv, WrittenAt, Refuse

LEMMA BeforeWriting ==
    ASSUME WrittenInv, phase \notin Writing \cup {"refused"}, phase' \notin Writing,
           UNCHANGED <<world, words, slots, loader>>
    PROVE  WrittenInv'
<1>1. WrittenAt(world, plan, at, phase, words, slots, loader)
  BY WrittenOfState
<1>2. \A p, a, x : /\ ~AppliedAt(world, p, a, phase, x) /\ ~PatchedAt(world, p, phase, x)
                   /\ ~AppliedAt(world, p, a, phase', x) /\ ~PatchedAt(world, p, phase', x)
  BY DEF AppliedAt, PatchedAt, Passed, Writing
<1>3. DOMAIN words = {} /\ loader = {}
  BY <1>1, <1>2 DEF WrittenAt, WordsAt, LoaderAt, Writing
<1>4. WordsAt(world, plan', at', phase', words')
  BY <1>2, <1>3 DEF WordsAt, Writing
<1>5. WrittenAt(world, plan', at', phase', words', slots', loader')
  BY <1>3, <1>4 DEF WrittenAt, EntriesAt, LoaderAt, Writing, LatePhases
<1> QED
  BY <1>5, WrittenNextState

LEMMA PlanningWrites ==
    ASSUME WrittenInv, PlanNext
    PROVE  WrittenInv'
<1>1. CASE \E e : Refuse(e)
  BY <1>1, WrittenRefusal
<1>2. CASE ~\E e : Refuse(e)
  <2>1. ASSUME NEW new, NEW then, Proceed(new, then), then \notin Writing, phase \notin Writing \cup {"refused"}
        PROVE  WrittenInv'
    BY <2>1, BeforeWriting DEF Proceed
  <2>2. CASE PlanTls
    BY <1>2, <2>1, <2>2 DEF PlanTls, Writing
  <2>3. CASE CheckTypes
    BY <1>2, <2>3, BeforeWriting DEF CheckTypes, Writing
  <2>4. CASE PlanImport
    <3>1. PICK new, then : Proceed(new, then) /\ then \in {"next", "symbols"}
      <4> DEFINE r == Current
                 then == IF at[2] < Len(objects[at[1]].tables) THEN "next" ELSE "symbols"
                 refusal == IF ~Nonlocal(r.sym)
                            THEN IF r.type = "GOTPCREL" THEN "RelocationUnsupported" ELSE "none"
                            ELSE IF Unresolved(r.sym) THEN ImportRefusal(r) ELSE DefinedRefusal(r)
                 new == IF ~Nonlocal(r.sym) THEN plan
                        ELSE IF Unresolved(r.sym) THEN ImportPlanned(r) ELSE DefinedPlanned(r)
      <4>1. IF r.type \in TlsTypes THEN Proceed(plan, then)
            ELSE IF refusal = "none" THEN Proceed(new, then) ELSE Refuse(refusal)
        BY <2>4 DEF PlanImport
      <4>2. then \in {"next", "symbols"}
        OBVIOUS
      <4> HIDE DEF then, refusal, new
      <4> QED
        BY <1>2, <4>1, <4>2
    <3> QED
      BY <2>1, <2>4, <3>1 DEF PlanImport, Writing
  <2>5. CASE NextTable
    BY <2>5, BeforeWriting DEF NextTable, Writing
  <2>6. CASE AdmitSymbols
    <3>1. phase = "symbols" /\ phase' \in {"symbols", "tls", "plan"} /\ UNCHANGED <<world, words, slots, loader>>
      BY <1>2, <2>6 DEF AdmitSymbols, Enter
    <3> QED
      BY <3>1, BeforeWriting DEF Writing
  <2>7. CASE FinishPlan
    BY <1>2, <2>7, BeforeWriting DEF FinishPlan, Writing
  <2>8. CASE CheckPie
    BY <1>2, <2>8, BeforeWriting DEF CheckPie, Writing
  <2> QED
    BY <2>2, <2>3, <2>4, <2>5, <2>6, <2>7, <2>8 DEF PlanNext
<1> QED
  BY <1>1, <1>2

LEMMA CollectWrites ==
    ASSUME PlanInv, WrittenInv, Collect
    PROVE  WrittenInv'
<1>1. WrittenAt(world, plan, at, phase, words, slots, loader) /\ GoodWorld(world) /\ phase = "collect"
  BY WrittenOfState, PlanOfState DEF Collect, PlanAt
<1>2. CASE CollectRefusal # "none"
  BY <1>2, WrittenRefusal DEF Collect
<1>3. CASE CollectRefusal = "none"
  <2>1. GoTo(Allocated, "slots") /\ UNCHANGED <<world, plan, words, slots, loader>>
    BY <1>3 DEF Collect
  <2>2. CollectedIn(world, plan)
    <3>1. ~\E s \in SymbolsAt(LiveSites(GotTypes \cup {"GOTTPOFF"})) : ~Nonlocal(s)
      BY <1>3 DEF CollectRefusal
    <3>2. plan.got \subseteq GotNames
      BY <1>3 DEF CollectRefusal
    <3>3. ExternalTlsGot \subseteq TlsGotNames
      BY <1>3 DEF CollectRefusal
    <3>4. \A x \in LiveWith(world, plan, GotTypes \cup {"GOTTPOFF"}) : Nonlocal(Ref(world, x).sym)
      BY <3>1, LiveOfState DEF SymbolsAt, Ref, objects
    <3>5. plan.got \subseteq NamesIn(world, plan, GotTypes)
      BY <3>2, LiveOfState DEF GotNames
    <3>6. plan.ie \cap DOMAIN plan.imports \subseteq NamesIn(world, plan, {"GOTTPOFF"})
      BY <3>3, LiveOfState DEF TlsGotNames, ExternalTlsGot
    <3> QED
      BY <3>4, <3>5, <3>6 DEF CollectedIn
  <2>3. phase' \in {"tables", "slots"} /\ DOMAIN words = {} /\ loader = {}
    <3>1. phase' \in {"tables", "slots"}
      BY <2>1 DEF GoTo
    <3>2. \A x : ~AppliedAt(world, plan, at, phase, x) /\ ~PatchedAt(world, plan, phase, x)
      BY <1>1 DEF AppliedAt, PatchedAt, Passed
    <3> QED
      BY <1>1, <3>1, <3>2 DEF WrittenAt, WordsAt, LoaderAt
  <2>4. \A x : ~AppliedAt(world, plan, at', phase', x) /\ ~PatchedAt(world, plan, phase', x)
    BY <1>1, <2>1, <2>3, StartOfTables DEF AppliedAt, PatchedAt, LiveWith
  <2>5. phase' = "tables" => <<at'[1], at'[2]>> \in TablesOf(world.objects) /\ "alloc" \in TableAt(world.objects, at').flags
    BY <1>1, <2>1, GoToPlace
  <2>6. WordsAt(world, plan, at', phase', words')
    BY <2>1, <2>3, <2>4, <2>5 DEF WordsAt
  <2>7. WrittenAt(world, plan', at', phase', words', slots', loader')
    BY <2>1, <2>2, <2>3, <2>6 DEF WrittenAt, EntriesAt, LoaderAt
  <2> QED
    BY <2>1, <2>7, WrittenNextState
<1> QED
  BY <1>2, <1>3

(* The relocations of a table that is applied, and none of them twice.     *)
LEMMA TableWrites ==
    ASSUME PlanInv, WrittenInv, ApplyTable
    PROVE  WrittenInv'
<1> DEFINE here == {x \in LiveSites(Types) : x[1] = at[1] /\ x[2] = at[2]}
<1>1. WrittenAt(world, plan, at, phase, words, slots, loader) /\ GoodWorld(world) /\ phase = "tables"
  BY WrittenOfState, PlanOfState DEF ApplyTable, PlanAt
<1>2. CASE \E e : Refuse(e)
  BY <1>2, WrittenRefusal
<1>3. CASE ~\E e : Refuse(e)
  <2>1. /\ ~\E s \in SymbolsAt(here) : HasNoValue(s)
        /\ ~\E x \in here : HasNoEntry(RefAt(objects, x))
        /\ words' = [x \in DOMAIN words \cup here |-> IF x \in here THEN WordOf(RefAt(objects, x)) ELSE words[x]]
        /\ GoTo(After(at), "slots") /\ UNCHANGED <<world, plan, slots, loader>>
    BY <1>3 DEF ApplyTable
  <2>2. \A x : x \in here <=> x \in LiveWith(world, plan, Types) /\ SameTable(x, at)
    BY LiveOfState DEF SameTable
  <2>3. \A x \in here : WordOf(RefAt(objects, x)) = WordIn(world, plan, x)
    BY WordOfState
  <2>4. \A x \in here : ~HasNoValue(Ref(world, x).sym) /\ ~HasNoEntry(Ref(world, x))
    BY <2>1 DEF SymbolsAt, Ref, objects
  <2>5. \A x \in here : TypesOf(Ref(world, x).sym) # {}
    BY DEF TypesOf, InTable, Ref, objects
  <2> HIDE DEF here
  <2>6. /\ <<at[1], at[2]>> \in TablesOf(world.objects) /\ "alloc" \in TableAt(world.objects, at).flags
        /\ WordsAt(world, plan, at, "tables", words) /\ CollectedIn(world, plan) /\ loader = {}
    BY <1>1 DEF WrittenAt, WordsAt, LoaderAt, LatePhases
  <2>7. \A x \in here : "alloc" \in FlagsAt(world, x)
    BY <2>2, <2>6 DEF SameTable, FlagsAt, TableAt
  <2>8. phase' \in {"tables", "slots"}
    BY <2>1 DEF GoTo
  <2>9. \A x : ~PatchedAt(world, plan, "tables", x) /\ ~PatchedAt(world, plan, phase', x)
    BY <2>8 DEF PatchedAt
  <2>10. \A x : AppliedAt(world, plan, at', phase', x) <=> AppliedAt(world, plan, at, "tables", x) \/ x \in here
    <3>1. \A x \in Sites(world) : "alloc" \in FlagsAt(world, x) =>
             (Passed(x, at', phase') <=> EarlierTable(x, at) \/ SameTable(x, at))
      BY <1>1, <2>1, <2>6, NextOfTables
    <3> QED
      BY <2>2, <2>7, <3>1 DEF AppliedAt, LiveWith, Passed
  <2>11. \A x \in here : ~PatchedIn(world, plan, x)
    BY <2>2 DEF LiveWith, LiveIn, MaskedIn, PatchedIn
  <2>12. \A x \in DOMAIN words' : words'[x] = WrittenIn(world, plan, x)
    BY <2>1, <2>3, <2>6, <2>11 DEF WordsAt, WrittenIn
  <2>13. \A x : x \in DOMAIN words' <=> AppliedAt(world, plan, at', phase', x) \/ PatchedAt(world, plan, phase', x)
    <3>1. DOMAIN words' = DOMAIN words \cup here
      BY <2>1
    <3>2. \A x : x \in DOMAIN words <=> AppliedAt(world, plan, at, "tables", x)
      BY <2>6, <2>9 DEF WordsAt
    <3> QED
      BY <2>9, <2>10, <3>1, <3>2
  <2>14. ASSUME ~LoadedIn(world), NEW x \in here
         PROVE  ValuedIn(world, x) /\ Ref(world, x).type \notin EntryTypes
    <3>1. plan = EmptyPlan
      BY <2>14, PlanOfState DEF PlanAt
    <3>2. /\ plan.gd = {} /\ plan.desc = {} /\ ~plan.ld /\ plan.got = {} /\ plan.plt = {} /\ ExternalTlsGot = {}
      BY <3>1 DEF EmptyPlan, ExternalTlsGot
    <3>3. ~SyntheticTls(Ref(world, x).sym)
      BY <2>5, <2>14, <3>2 DEF SyntheticTls
    <3>4. ValuedIn(world, x)
      BY <2>4, <2>14, <3>2, <3>3, StateOfWorld DEF ValuedIn, HasNoValue, NameAt
    <3>5. Ref(world, x).type \notin EntryTypes
      BY <2>4, <2>14, <3>2 DEF HasNoEntry, EntryTypes
    <3> QED
      BY <3>4, <3>5
  <2>15. ~LoadedIn(world) => \A x : AppliedAt(world, plan, at', phase', x) => ValuedIn(world, x) /\ Ref(world, x).type \notin EntryTypes
    BY <2>6, <2>10, <2>14 DEF WordsAt
  <2>16. phase' = "tables" => <<at'[1], at'[2]>> \in TablesOf(world.objects) /\ "alloc" \in TableAt(world.objects, at').flags
    <3>1. After(at) \subseteq Allocated
      BY DEF After
    <3> QED
      BY <1>1, <2>1, <3>1, GoToPlace
  <2>17. WordsAt(world, plan, at', phase', words')
    BY <2>12, <2>13, <2>15, <2>16 DEF WordsAt
  <2>18. WrittenAt(world, plan', at', phase', words', slots', loader')
    BY <2>1, <2>6, <2>8, <2>17 DEF WrittenAt, EntriesAt, LoaderAt
  <2> QED
    BY <2>1, <2>18, WrittenNextState
<1> QED
  BY <1>2, <1>3

(* Once the tables are applied a phase changes nothing of what they wrote. *)
LEMMA AppliedStays ==
    ASSUME NEW w, NEW p, NEW a, NEW ph \in Writing \ {"tables"}, NEW ph2 \in Writing \ {"tables"}, NEW x
    PROVE  AppliedAt(w, p, a, ph, x) <=> AppliedAt(w, p, a, ph2, x)
    BY DEF AppliedAt, Passed, Writing

LEMMA SlotsWrite ==
    ASSUME PlanInv, WrittenInv, FillSlots
    PROVE  WrittenInv'
<1>1. WrittenAt(world, plan, at, phase, words, slots, loader) /\ phase = "slots"
  BY WrittenOfState DEF FillSlots
<1>2. CASE \E e : Refuse(e)
  BY <1>2, WrittenRefusal
<1>3. CASE ~\E e : Refuse(e)
  <2>1. /\ slots' = [e \in Synthetic |-> SlotOf(e)]
        /\ phase' = (IF Loaded THEN "patch" ELSE "static_tls")
        /\ UNCHANGED <<world, at, plan, words, loader>>
    BY <1>3 DEF FillSlots
  <2>2. WordsAt(world, plan, at, "slots", words) /\ CollectedIn(world, plan) /\ loader = {}
    BY <1>1 DEF WrittenAt, LoaderAt, LatePhases
  <2>3. phase' \in {"patch", "static_tls"}
    BY <2>1
  <2>4. WordsAt(world, plan, at', phase', words')
    <3>1. \A x : ~PatchedAt(world, plan, "slots", x) /\ ~PatchedAt(world, plan, phase', x)
      BY <2>3 DEF PatchedAt
    <3>2. \A x : AppliedAt(world, plan, at, "slots", x) <=> AppliedAt(world, plan, at, phase', x)
      BY <2>3, AppliedStays DEF Writing
    <3> QED
      BY <2>1, <2>2, <2>3, <3>1, <3>2 DEF WordsAt
  <2>5. EntriesAt(world, plan, phase', slots')
    <3>1. ~TlsPatched(world, phase')
      BY <2>3 DEF TlsPatched
    <3>2. \A e : SlotOf(e) = SlotIn(world, plan, phase', e)
      BY <3>1, SlotOfState DEF SlotIn
    <3> QED
      BY <2>1, <3>2, LiveOfState DEF EntriesAt
  <2>6. WrittenAt(world, plan', at', phase', words', slots', loader')
    BY <2>1, <2>2, <2>3, <2>4, <2>5 DEF WrittenAt, LoaderAt
  <2> QED
    BY <2>1, <2>6, WrittenNextState
<1> QED
  BY <1>2, <1>3

LEMMA StaticTlsWrites ==
    ASSUME PlanInv, WrittenInv, StaticTls
    PROVE  WrittenInv'
<1>1. WrittenAt(world, plan, at, phase, words, slots, loader) /\ phase = "static_tls"
  BY WrittenOfState DEF StaticTls
<1>2. CASE \E e : Refuse(e)
  BY <1>2, WrittenRefusal
<1>3. CASE ~\E e : Refuse(e)
  <2>1. /\ slots' = [e \in DOMAIN slots |-> IF e[1] = "tlsgot" THEN In("tpoff", GlobalValue(e[2])) ELSE slots[e]]
        /\ words' = [x \in DOMAIN words \cup TpoffSites |-> IF x \in TpoffSites THEN In("tpoff", TpoffValue(x)) ELSE words[x]]
        /\ phase' = (IF mode = "static_pie" THEN "loader" ELSE "loaded")
        /\ UNCHANGED <<world, at, plan, loader>>
    BY <1>3 DEF StaticTls
  <2>2. ~LoadedIn(world)
    BY <1>1, PlanOfState DEF PlanAt, EarlyPhases, LatePhases, Planning, InTables
  <2>3. /\ WordsAt(world, plan, at, "static_tls", words) /\ CollectedIn(world, plan) /\ loader = {}
        /\ EntriesAt(world, plan, "static_tls", slots)
    BY <1>1, <2>2 DEF WrittenAt, LoaderAt, LatePhases
  <2>4. \A x : x \in TpoffSites <=> PatchedIn(world, plan, x)
    BY <2>2, StateOfWorld DEF TpoffSites, PatchedIn, Sites, Ref
  <2>5. phase' \in {"loader", "loaded"} /\ (phase' = "loaded" => world.mode # "static_pie")
    BY <2>1 DEF mode
  <2>6. \A x : ~PatchedAt(world, plan, "static_tls", x) /\ (PatchedAt(world, plan, phase', x) <=> x \in TpoffSites)
    BY <2>4, <2>5 DEF PatchedAt
  <2>7. \A x : AppliedAt(world, plan, at, "static_tls", x) <=> AppliedAt(world, plan, at, phase', x)
    BY <2>5, AppliedStays DEF Writing
  <2>8. \A x \in DOMAIN words' : words'[x] = WrittenIn(world, plan, x)
    BY <2>1, <2>2, <2>3, <2>4, LiveOfState DEF WordsAt, WrittenIn
  <2>9. \A x : x \in DOMAIN words' <=> AppliedAt(world, plan, at, phase', x) \/ PatchedAt(world, plan, phase', x)
    <3>1. DOMAIN words' = DOMAIN words \cup TpoffSites
      BY <2>1
    <3>2. \A x : x \in DOMAIN words <=> AppliedAt(world, plan, at, "static_tls", x)
      BY <2>3, <2>6 DEF WordsAt
    <3> QED
      BY <2>6, <2>7, <3>1, <3>2
  <2>10. WordsAt(world, plan, at', phase', words')
    <3>1. \A x : AppliedAt(world, plan, at, phase', x) => ValuedIn(world, x) /\ Ref(world, x).type \notin EntryTypes
      BY <2>2, <2>3, <2>7 DEF WordsAt
    <3> QED
      BY <2>1, <2>5, <2>8, <2>9, <3>1 DEF WordsAt
  <2>11. EntriesAt(world, plan, phase', slots')
    <3>1. TlsPatched(world, phase') /\ ~TlsPatched(world, "static_tls")
      BY <2>2, <2>5 DEF TlsPatched
    <3>2. DOMAIN slots = SyntheticIn(world, plan) /\ \A e \in DOMAIN slots : slots[e] = SlotIn(world, plan, "static_tls", e)
      BY <2>3 DEF EntriesAt
    <3>3. \A e \in DOMAIN slots : slots'[e] = SlotIn(world, plan, phase', e)
      BY <2>1, <3>1, <3>2, LiveOfState DEF SlotIn
    <3> QED
      BY <2>1, <3>2, <3>3 DEF EntriesAt
  <2>12. LoaderAt(world, plan, phase', loader')
    BY <2>1, <2>2, <2>3, <2>5, PlanOfState DEF LoaderAt, PlanAt, GoodWorld, Modes, LoadedIn
  <2>13. WrittenAt(world, plan', at', phase', words', slots', loader')
    BY <2>1, <2>3, <2>10, <2>11, <2>12 DEF WrittenAt
  <2> QED
    BY <2>1, <2>13, WrittenNextState
<1> QED
  BY <1>2, <1>3

LEMMA PatchWrites ==
    ASSUME PlanInv, WrittenInv, Patch
    PROVE  WrittenInv'
<1>1. WrittenAt(world, plan, at, phase, words, slots, loader) /\ phase = "patch"
  BY WrittenOfState DEF Patch
<1>2. CASE \E e : Refuse(e)
  BY <1>2, WrittenRefusal
<1>3. CASE ~\E e : Refuse(e)
  <2>1. /\ words' = [x \in DOMAIN words \cup plan.copySites \cup plan.dtpoffSites |->
                           CASE x \in plan.copySites   -> CopyWord(x)
                             [] x \in plan.dtpoffSites -> DtpoffWord(x)
                             [] OTHER -> words[x]]
        /\ phase' = "loader" /\ UNCHANGED <<world, at, plan, slots, loader>>
    BY <1>3 DEF Patch
  <2>2. LoadedIn(world) /\ GoodPlan(world, plan)
    <3>1. LoadedIn(world) /\ PlanAt(world, plan, at, phase)
      BY <1>1, PlanOfState DEF PlanAt, EarlyPhases, LatePhases, Planning, InTables
    <3> QED
      BY <1>1, <3>1 DEF PlanAt, Settled
  <2>3. /\ WordsAt(world, plan, at, "patch", words) /\ CollectedIn(world, plan) /\ loader = {}
        /\ EntriesAt(world, plan, "patch", slots)
    BY <1>1, <2>2 DEF WrittenAt, LoaderAt, LatePhases
  <2>4. \A x : PatchedIn(world, plan, x) <=> x \in plan.copySites \cup plan.dtpoffSites
    BY <2>2 DEF PatchedIn
  <2>5. \A x : /\ ~PatchedAt(world, plan, "patch", x)
               /\ PatchedAt(world, plan, "loader", x) <=> x \in plan.copySites \cup plan.dtpoffSites
    BY <2>4 DEF PatchedAt
  <2>6. \A x : AppliedAt(world, plan, at, "patch", x) <=> AppliedAt(world, plan, at, "loader", x)
    BY AppliedStays DEF Writing
  <2>7. \A x \in plan.copySites : x \notin plan.dtpoffSites
    BY <2>2 DEF GoodPlan, GoodSites
  <2>8. \A x : CopyWord(x) = Rel(<<"copy", NameAt(world, x)>>) /\ DtpoffWord(x) = In("dtpoff", Local(x[1], Ref(world, x).sym))
    BY DEF CopyWord, DtpoffWord, NameAt, Ref, objects
  <2>9. \A x \in DOMAIN words' : words'[x] = WrittenIn(world, plan, x)
    <3>1. ASSUME NEW x \in plan.copySites PROVE words'[x] = WrittenIn(world, plan, x)
      <4>1. words'[x] = CopyWord(x)
        BY <2>1, <2>7
      <4> QED
        BY <2>2, <2>4, <2>8, <4>1 DEF WrittenIn
    <3>2. ASSUME NEW x \in plan.dtpoffSites PROVE words'[x] = WrittenIn(world, plan, x)
      <4>1. words'[x] = DtpoffWord(x) /\ x \notin plan.copySites
        BY <2>1, <2>7
      <4> QED
        BY <2>2, <2>4, <2>8, <4>1 DEF WrittenIn
    <3>3. ASSUME NEW x \in DOMAIN words, x \notin plan.copySites \cup plan.dtpoffSites
          PROVE  words'[x] = WrittenIn(world, plan, x)
      <4>1. words'[x] = words[x]
        BY <2>1, <3>3
      <4> QED
        BY <2>3, <4>1 DEF WordsAt
    <3> QED
      BY <2>1, <3>1, <3>2, <3>3
  <2>10. \A x : x \in DOMAIN words' <=> AppliedAt(world, plan, at, "loader", x) \/ PatchedAt(world, plan, "loader", x)
    <3>1. DOMAIN words' = DOMAIN words \cup plan.copySites \cup plan.dtpoffSites
      BY <2>1
    <3>2. \A x : x \in DOMAIN words <=> AppliedAt(world, plan, at, "patch", x)
      BY <2>3, <2>5 DEF WordsAt
    <3> QED
      BY <2>5, <2>6, <3>1, <3>2
  <2>11. WordsAt(world, plan, at', phase', words')
    BY <2>1, <2>2, <2>9, <2>10 DEF WordsAt
  <2>12. EntriesAt(world, plan, phase', slots')
    <3>1. ~TlsPatched(world, "patch") /\ ~TlsPatched(world, "loader")
      BY <2>2 DEF TlsPatched
    <3> QED
      BY <2>1, <2>3, <3>1 DEF EntriesAt, SlotIn
  <2>13. WrittenAt(world, plan', at', phase', words', slots', loader')
    BY <2>1, <2>3, <2>11, <2>12 DEF WrittenAt, LoaderAt
  <2> QED
    BY <2>1, <2>13, WrittenNextState
<1> QED
  BY <1>2, <1>3

LEMMA LoaderWrites ==
    ASSUME PlanInv, WrittenInv, WriteLoaderRelocations
    PROVE  WrittenInv'
<1>1. WrittenAt(world, plan, at, phase, words, slots, loader) /\ phase = "loader"
  BY WrittenOfState DEF WriteLoaderRelocations
<1>2. CASE LoaderRefusal # "none"
  BY <1>2, WrittenRefusal DEF WriteLoaderRelocations
<1>3. CASE LoaderRefusal = "none"
  <2>1. /\ loader' = LoaderIn(world, plan) /\ phase' = "loaded"
        /\ UNCHANGED <<world, at, plan, words, slots>>
    BY <1>3, LoaderOfState DEF WriteLoaderRelocations
  <2>2. world.mode # "static" /\ phase \in LatePhases(world) \ {"collect"}
    BY <1>1, PlanOfState DEF PlanAt, EarlyPhases, LatePhases, Planning, InTables, LoadedIn
  <2>3. WordsAt(world, plan, at, "loader", words) /\ CollectedIn(world, plan) /\ EntriesAt(world, plan, "loader", slots)
    BY <1>1, <2>2 DEF WrittenAt
  <2>4. PointersIn(world, plan)
    <3>1. \A x \in Pointers : "alloc" \in TableAt(objects, x).flags
      BY <1>3 DEF LoaderRefusal
    <3>2. \A x \in Pointers : "write" \in TableAt(objects, x).flags
      BY <1>3 DEF LoaderRefusal
    <3>3. \A x \in Pointers : PointerValue(x) # Zero => ~PointerValue(x)[2][2].abs
      BY <1>3 DEF LoaderRefusal
    <3>4. Pointers = LiveWith(world, plan, {"64"})
      BY LiveOfState DEF Pointers
    <3>5. \A x \in Pointers : Writable(FlagsAt(world, x))
      BY <3>1, <3>2 DEF Writable, FlagsAt, objects
    <3> QED
      BY <3>3, <3>4, <3>5, LiveOfState DEF PointersIn
  <2>5. WordsAt(world, plan, at', phase', words')
    <3>1. \A x : PatchedAt(world, plan, "loader", x) <=> PatchedAt(world, plan, "loaded", x)
      BY DEF PatchedAt
    <3>2. \A x : AppliedAt(world, plan, at, "loader", x) <=> AppliedAt(world, plan, at, "loaded", x)
      BY AppliedStays DEF Writing
    <3> QED
      BY <2>1, <2>3, <3>1, <3>2 DEF WordsAt
  <2>6. EntriesAt(world, plan, phase', slots')
    <3>1. TlsPatched(world, "loader") <=> TlsPatched(world, "loaded")
      BY DEF TlsPatched
    <3> QED
      BY <2>1, <2>3, <3>1 DEF EntriesAt, SlotIn
  <2>7. WrittenAt(world, plan', at', phase', words', slots', loader')
    BY <2>1, <2>2, <2>3, <2>4, <2>5, <2>6 DEF WrittenAt, LoaderAt
  <2> QED
    BY <2>1, <2>7, WrittenNextState
<1> QED
  BY <1>2, <1>3

LEMMA WrittenInitially == PlanInit => WrittenInv
<1> SUFFICES ASSUME PlanInit PROVE WrittenInv
  OBVIOUS
<1>1. phase \notin Writing /\ DOMAIN words = {} /\ loader = {}
  BY DEF PlanInit, Writing, Enter
<1>2. \A x : ~AppliedAt(world, plan, at, phase, x) /\ ~PatchedAt(world, plan, phase, x)
  BY <1>1 DEF AppliedAt, PatchedAt, Passed, Writing
<1>3. WrittenAt(world, plan, at, phase, words, slots, loader)
  BY <1>1, <1>2 DEF WrittenAt, WordsAt, EntriesAt, LoaderAt, Writing, LatePhases
<1> QED
  BY <1>3 DEF WrittenInv

LEMMA WrittenStep == PlanInv /\ WrittenInv /\ [ReferencesNext \/ ReferencesStopped]_refVars => WrittenInv'
<1> SUFFICES ASSUME PlanInv, WrittenInv, [ReferencesNext \/ ReferencesStopped]_refVars
             PROVE  WrittenInv'
  OBVIOUS
<1>1. CASE ReferencesStopped \/ UNCHANGED refVars
  BY <1>1, WrittenStays DEF ReferencesStopped, refVars
<1> QED
  BY <1>1, PlanningWrites, CollectWrites, TableWrites, SlotsWrite, StaticTlsWrites, PatchWrites, LoaderWrites
     DEF ReferencesNext

(* Every word, entry and loader relocation, pass by pass, is the one that  *)
(* its relocation and the plan determine, in whatever table it stands.     *)
THEOREM WordsFollowThePlan == ReferencesSpec => []WrittenInv
<1> QED
  BY PlansAccountForReferences, WrittenInitially, WrittenStep, PTL DEF ReferencesSpec

-----------------------------------------------------------------------------
(* The relocation that the loader applies at a place.                      *)
WordPlaced(w, p, x) == x \in p.sites \/ (x \in LiveWith(w, p, {"64"}) /\ OwnIn(w, x) # Zero)
WordRelocation(w, p, x) ==
    IF x \in p.sites THEN Runtime("64", Word(x), Dyn(NameAt(w, x))) ELSE RelativeIn(w, Word(x), OwnIn(w, x))
SlotPlaced(w, p, e, n) ==
    \/ e = "got" /\ n \in p.got \cup ImageGotIn(w, p)
    \/ e \in {"gd", "gdoff"} /\ n \in p.gd
    \/ e = "tlsgot" /\ n \in p.ie
    \/ e = "desc" /\ n \in p.desc
    \/ e = "pltgot" /\ n \in p.plt
    \/ e = "ld" /\ n = "" /\ p.ld
SlotType == [got |-> "GLOB_DAT", gd |-> "DTPMOD64", gdoff |-> "DTPOFF64", tlsgot |-> "TPOFF64",
             desc |-> "TLSDESC", pltgot |-> "JUMP_SLOT"]
SlotRelocation(w, p, e, n) ==
    IF e = "ld" THEN Runtime("DTPMOD64", Slot("ld", ""), <<"module", "">>)
    ELSE IF e = "got" /\ n \notin p.got THEN RelativeIn(w, Slot("got", n), GlobalIn(w, n))
    ELSE Runtime(SlotType[e], Slot(e, n), Dyn(n))
OneGot(w, p) == p.got \cap ImageGotIn(w, p) = {}

LEMMA PlaceOfRuntime ==
    ASSUME NEW type, NEW place, NEW v
    PROVE  Runtime(type, place, v).place = place /\ Runtime(type, place, v).type = type /\ Runtime(type, place, v).value = v
    BY DEF Runtime

LEMMA PlaceOfRelative ==
    ASSUME NEW w, NEW place, NEW v
    PROVE  RelativeIn(w, place, v).place = place /\ RelativeIn(w, place, v).value = v
    BY PlaceOfRuntime DEF RelativeIn

ModuleRuntime == Runtime("DTPMOD64", Slot("ld", ""), <<"module", "">>)
LEMMA ModuleShape ==
    ASSUME NEW p, NEW r
    PROVE  r \in ModulesIn(p) <=> p.ld /\ r = ModuleRuntime
    BY DEF ModulesIn, ModuleRuntime

LEMMA ModulePlace ==
    /\ \A x : ModuleRuntime.place # Word(x)
    /\ \A e, n : ModuleRuntime.place = Slot(e, n) <=> e = "ld" /\ n = ""
    BY DEF ModuleRuntime, Runtime, Word, Slot

LEMMA PlacesDiffer ==
    /\ \A x, e, n : Word(x) # Slot(e, n)
    /\ \A x, n : Word(x) # <<"copy", n>>
    /\ \A e, n, m : Slot(e, n) # <<"copy", m>>
    /\ \A x, y : Word(x) = Word(y) => x = y
    /\ \A e, n, f, m : Slot(e, n) = Slot(f, m) => e = f /\ n = m
    /\ \A n, m : <<"copy", n>> = <<"copy", m>> => n = m
    BY DEF Word, Slot

LEMMA OneGotEntry ==
    ASSUME PlanInv, phase \in LatePhases(world)
    PROVE  OneGot(world, plan)
<1>1. CASE LoadedIn(world)
  <2>1. GoodPlan(world, plan)
    BY <1>1, LateSettled
  <2> QED
    BY <1>1, <2>1 DEF OneGot, ImageGotIn, GoodPlan, GoodNames
<1>2. CASE ~LoadedIn(world)
  <2>1. plan = EmptyPlan
    BY <1>2, PlanOfState DEF PlanAt
  <2> QED
    BY <2>1 DEF OneGot, EmptyPlan
<1> QED
  BY <1>1, <1>2

LEMMA NamedSlotShape ==
    ASSUME NEW p, NEW r
    PROVE  r \in NamedSlots(p) <=>
             \E e \in DOMAIN SlotType : \E n :
                /\ \/ e = "got" /\ n \in p.got
                   \/ e \in {"gd", "gdoff"} /\ n \in p.gd
                   \/ e = "tlsgot" /\ n \in p.ie
                   \/ e = "desc" /\ n \in p.desc
                   \/ e = "pltgot" /\ n \in p.plt
                /\ r = Runtime(SlotType[e], Slot(e, n), Dyn(n))
<1>1. /\ DOMAIN SlotType = {"got", "gd", "gdoff", "tlsgot", "desc", "pltgot"}
      /\ SlotType["got"] = "GLOB_DAT" /\ SlotType["gd"] = "DTPMOD64" /\ SlotType["gdoff"] = "DTPOFF64"
      /\ SlotType["tlsgot"] = "TPOFF64" /\ SlotType["desc"] = "TLSDESC" /\ SlotType["pltgot"] = "JUMP_SLOT"
  BY DEF SlotType
<1>2. ASSUME NEW type, NEW e, NEW names
      PROVE  r \in BySlot(type, e, names) <=> \E n : n \in names /\ r = Runtime(type, Slot(e, n), Dyn(n))
  BY DEF BySlot
<1>3. r \in NamedSlots(p) <=>
        \/ r \in BySlot("GLOB_DAT", "got", p.got) \/ r \in BySlot("DTPMOD64", "gd", p.gd)
        \/ r \in BySlot("DTPOFF64", "gdoff", p.gd) \/ r \in BySlot("TPOFF64", "tlsgot", p.ie)
        \/ r \in BySlot("TLSDESC", "desc", p.desc) \/ r \in BySlot("JUMP_SLOT", "pltgot", p.plt)
  BY DEF NamedSlots
<1> HIDE DEF SlotType
<1> QED
  BY <1>1, <1>2, <1>3

LEMMA WordLoader ==
    ASSUME NEW w, NEW p, NEW x, NEW r
    PROVE  r \in LoaderIn(w, p) /\ r.place = Word(x) <=> WordPlaced(w, p, x) /\ r = WordRelocation(w, p, x)
<1>0. \A y \in LiveWith(w, p, {"64"}) : y \notin p.sites
  BY DEF LiveWith, LiveIn, MaskedIn
<1>1. ASSUME r \in LoaderIn(w, p), r.place = Word(x)
      PROVE  WordPlaced(w, p, x) /\ r = WordRelocation(w, p, x)
  <2>1. CASE r \in WordRelatives(w, p)
    <3>1. PICK y \in LiveWith(w, p, {"64"}) : OwnIn(w, y) # Zero /\ r = RelativeIn(w, Word(y), OwnIn(w, y))
      BY <2>1 DEF WordRelatives
    <3>2. y = x
      BY <1>1, <3>1, PlaceOfRelative, PlacesDiffer
    <3> QED
      BY <1>0, <3>1, <3>2 DEF WordPlaced, WordRelocation
  <2>2. CASE r \in NamedWords(w, p)
    <3>1. PICK y \in p.sites : r = Runtime("64", Word(y), Dyn(NameAt(w, y)))
      BY <2>2 DEF NamedWords
    <3>2. y = x
      BY <1>1, <3>1, PlaceOfRuntime, PlacesDiffer
    <3> QED
      BY <3>1, <3>2 DEF WordPlaced, WordRelocation
  <2>3. CASE r \in SlotRelatives(w, p)
    <3>1. PICK n \in ImageGotIn(w, p) : r = RelativeIn(w, Slot("got", n), GlobalIn(w, n))
      BY <2>3 DEF SlotRelatives
    <3> QED
      BY <1>1, <3>1, PlaceOfRelative, PlacesDiffer
  <2>4. CASE r \in CopyRelocations(p)
    <3>1. PICK n \in p.copy : r = Runtime("COPY", <<"copy", n>>, Dyn(n))
      BY <2>4 DEF CopyRelocations
    <3> QED
      BY <1>1, <3>1, PlaceOfRuntime, PlacesDiffer
  <2>5. CASE r \in NamedSlots(p)
    <3>1. PICK e, n : r = Runtime(SlotType[e], Slot(e, n), Dyn(n))
      BY <2>5, NamedSlotShape
    <3> QED
      BY <1>1, <3>1, PlaceOfRuntime, PlacesDiffer
  <2>6. CASE r \in ModulesIn(p)
    <3>1. r = ModuleRuntime
      BY <2>6, ModuleShape
    <3> QED
      BY <1>1, <3>1, ModulePlace
  <2> QED
    BY <1>1, <2>1, <2>2, <2>3, <2>4, <2>5, <2>6 DEF LoaderIn
<1>2. ASSUME WordPlaced(w, p, x), r = WordRelocation(w, p, x)
      PROVE  r \in LoaderIn(w, p) /\ r.place = Word(x)
  <2>1. CASE x \in p.sites
    <3>1. r = Runtime("64", Word(x), Dyn(NameAt(w, x)))
      BY <1>2, <2>1 DEF WordRelocation
    <3> QED
      BY <2>1, <3>1, PlaceOfRuntime DEF NamedWords, LoaderIn
  <2>2. CASE x \notin p.sites
    <3>1. r = RelativeIn(w, Word(x), OwnIn(w, x)) /\ x \in LiveWith(w, p, {"64"}) /\ OwnIn(w, x) # Zero
      BY <1>2, <2>2 DEF WordRelocation, WordPlaced
    <3> QED
      BY <3>1, PlaceOfRelative DEF WordRelatives, LoaderIn
  <2> QED
    BY <2>1, <2>2
<1> QED
  BY <1>1, <1>2

LEMMA SlotLoader ==
    ASSUME NEW w, NEW p, OneGot(w, p), NEW e, NEW n, NEW r
    PROVE  r \in LoaderIn(w, p) /\ r.place = Slot(e, n) <=> SlotPlaced(w, p, e, n) /\ r = SlotRelocation(w, p, e, n)
<1>0. DOMAIN SlotType = {"got", "gd", "gdoff", "tlsgot", "desc", "pltgot"}
  BY DEF SlotType
<1>1. ASSUME r \in LoaderIn(w, p), r.place = Slot(e, n)
      PROVE  SlotPlaced(w, p, e, n) /\ r = SlotRelocation(w, p, e, n)
  <2>1. CASE r \in WordRelatives(w, p)
    <3>1. PICK y : r = RelativeIn(w, Word(y), OwnIn(w, y))
      BY <2>1 DEF WordRelatives
    <3> QED
      BY <1>1, <3>1, PlaceOfRelative, PlacesDiffer
  <2>2. CASE r \in NamedWords(w, p)
    <3>1. PICK y : r = Runtime("64", Word(y), Dyn(NameAt(w, y)))
      BY <2>2 DEF NamedWords
    <3> QED
      BY <1>1, <3>1, PlaceOfRuntime, PlacesDiffer
  <2>3. CASE r \in SlotRelatives(w, p)
    <3>1. PICK m \in ImageGotIn(w, p) : r = RelativeIn(w, Slot("got", m), GlobalIn(w, m))
      BY <2>3 DEF SlotRelatives
    <3>2. e = "got" /\ m = n
      BY <1>1, <3>1, PlaceOfRelative, PlacesDiffer
    <3> QED
      BY <3>1, <3>2 DEF SlotPlaced, SlotRelocation, OneGot
  <2>4. CASE r \in CopyRelocations(p)
    <3>1. PICK m \in p.copy : r = Runtime("COPY", <<"copy", m>>, Dyn(m))
      BY <2>4 DEF CopyRelocations
    <3> QED
      BY <1>1, <3>1, PlaceOfRuntime, PlacesDiffer
  <2>5. CASE r \in NamedSlots(p)
    <3>0. PICK f \in DOMAIN SlotType : \E m :
             /\ \/ f = "got" /\ m \in p.got
                \/ f \in {"gd", "gdoff"} /\ m \in p.gd
                \/ f = "tlsgot" /\ m \in p.ie
                \/ f = "desc" /\ m \in p.desc
                \/ f = "pltgot" /\ m \in p.plt
             /\ r = Runtime(SlotType[f], Slot(f, m), Dyn(m))
      BY <2>5, NamedSlotShape
    <3>1. PICK m :
             /\ \/ f = "got" /\ m \in p.got
                \/ f \in {"gd", "gdoff"} /\ m \in p.gd
                \/ f = "tlsgot" /\ m \in p.ie
                \/ f = "desc" /\ m \in p.desc
                \/ f = "pltgot" /\ m \in p.plt
             /\ r = Runtime(SlotType[f], Slot(f, m), Dyn(m))
      BY <3>0
    <3>2. f = e /\ m = n
      BY <1>1, <3>1, PlaceOfRuntime, PlacesDiffer
    <3> QED
      BY <3>1, <3>2 DEF SlotPlaced, SlotRelocation
  <2>6. CASE r \in ModulesIn(p)
    <3>1. p.ld /\ r = ModuleRuntime
      BY <2>6, ModuleShape
    <3>2. e = "ld" /\ n = ""
      BY <1>1, <3>1, ModulePlace
    <3> QED
      BY <3>1, <3>2 DEF SlotPlaced, SlotRelocation, ModuleRuntime
  <2> QED
    BY <1>1, <2>1, <2>2, <2>3, <2>4, <2>5, <2>6 DEF LoaderIn
<1>2. ASSUME SlotPlaced(w, p, e, n), r = SlotRelocation(w, p, e, n)
      PROVE  r \in LoaderIn(w, p) /\ r.place = Slot(e, n)
  <2>1. CASE e = "ld"
    <3>1. n = "" /\ p.ld /\ r = ModuleRuntime
      BY <1>2, <2>1 DEF SlotPlaced, SlotRelocation, ModuleRuntime
    <3>2. r \in ModulesIn(p) /\ r.place = Slot(e, n)
      BY <2>1, <3>1, ModuleShape, ModulePlace
    <3> QED
      BY <3>2 DEF LoaderIn
  <2>2. CASE e = "got" /\ n \notin p.got
    <3>1. n \in ImageGotIn(w, p) /\ r = RelativeIn(w, Slot("got", n), GlobalIn(w, n))
      BY <1>2, <2>2 DEF SlotPlaced, SlotRelocation
    <3> QED
      BY <2>2, <3>1, PlaceOfRelative DEF SlotRelatives, LoaderIn
  <2>3. CASE e # "ld" /\ ~(e = "got" /\ n \notin p.got)
    <3>1. r = Runtime(SlotType[e], Slot(e, n), Dyn(n))
      BY <1>2, <2>3 DEF SlotRelocation
    <3>2. e \in DOMAIN SlotType
      BY <1>0, <1>2, <2>3 DEF SlotPlaced
    <3>3. r \in NamedSlots(p)
      BY <1>2, <2>3, <3>1, <3>2, NamedSlotShape DEF SlotPlaced
    <3> QED
      BY <3>1, <3>3, PlaceOfRuntime DEF LoaderIn
  <2> QED
    BY <2>1, <2>2, <2>3
<1> QED
  BY <1>1, <1>2

LEMMA CopyLoader ==
    ASSUME NEW w, NEW p, NEW r \in LoaderIn(w, p)
    PROVE  \/ \E x : r.place = Word(x)
           \/ \E e, n : r.place = Slot(e, n)
           \/ \E n : r = Runtime("COPY", <<"copy", n>>, Dyn(n))
<1>1. CASE r \in WordRelatives(w, p)
  BY <1>1, PlaceOfRelative DEF WordRelatives
<1>2. CASE r \in SlotRelatives(w, p)
  <2>1. PICK n : r = RelativeIn(w, Slot("got", n), GlobalIn(w, n))
    BY <1>2 DEF SlotRelatives
  <2>2. r.place = Slot("got", n)
    BY <2>1, PlaceOfRelative
  <2> QED
    BY <2>2
<1>5. CASE r \in NamedWords(w, p)
  BY <1>5, PlaceOfRuntime DEF NamedWords
<1>6. CASE r \in ModulesIn(p)
  <2>1. PICK e, n : e = "ld" /\ n = ""
    OBVIOUS
  <2>2. ModuleRuntime.place = Slot(e, n)
    BY <2>1, ModulePlace
  <2>3. r.place = Slot(e, n)
    BY <1>6, <2>2, ModuleShape
  <2> QED
    BY <2>3
<1>3. CASE r \in CopyRelocations(p)
  BY <1>3 DEF CopyRelocations
<1>4. CASE r \in NamedSlots(p)
  BY <1>4, NamedSlotShape, PlaceOfRuntime
<1> QED
  BY <1>1, <1>2, <1>3, <1>4, <1>5, <1>6 DEF LoaderIn

LEMMA PlaceKinds ==
    ASSUME NEW w, NEW p, NEW r \in LoaderIn(w, p)
    PROVE  /\ r.place[1] = "word" => \E x : r.place = Word(x)
           /\ r.place[1] = "slot" => \E e, n : r.place = Slot(e, n)
<1>1. CASE \E x : r.place = Word(x)
  BY <1>1 DEF Word
<1>2. CASE \E e, n : r.place = Slot(e, n)
  BY <1>2 DEF Slot
<1>3. CASE \E n : r = Runtime("COPY", <<"copy", n>>, Dyn(n))
  <2>1. PICK n : r.place = <<"copy", n>>
    BY <1>3, PlaceOfRuntime
  <2>2. r.place[1] = "copy"
    BY <2>1
  <2> QED
    BY <2>2
<1> QED
  BY <1>1, <1>2, <1>3, CopyLoader

LEMMA OneRelocationAPlace ==
    ASSUME NEW w, NEW p, OneGot(w, p), NEW r \in LoaderIn(w, p), NEW q \in LoaderIn(w, p), r.place = q.place
    PROVE  r = q
<1>1. CASE \E x : r.place = Word(x)
  <2>1. PICK x : r.place = Word(x)
    BY <1>1
  <2>2. r = WordRelocation(w, p, x) /\ q = WordRelocation(w, p, x)
    BY <2>1, WordLoader
  <2> QED
    BY <2>2
<1>2. CASE \E e, n : r.place = Slot(e, n)
  <2>1. PICK e, n : r.place = Slot(e, n)
    BY <1>2
  <2>2. r = SlotRelocation(w, p, e, n)
    BY <2>1, SlotLoader
  <2>3. q.place = Slot(e, n)
    BY <2>1
  <2>4. q = SlotRelocation(w, p, e, n)
    BY <2>3, SlotLoader
  <2> QED
    BY <2>2, <2>4
<1>3. CASE \E n : r = Runtime("COPY", <<"copy", n>>, Dyn(n))
  <2>1. PICK n : r = Runtime("COPY", <<"copy", n>>, Dyn(n))
    BY <1>3
  <2>2. q.place = <<"copy", n>>
    BY <2>1, PlaceOfRuntime
  <2>3. PICK m : q = Runtime("COPY", <<"copy", m>>, Dyn(m))
    <3>1. ~\E x : q.place = Word(x)
      BY <2>2, PlacesDiffer
    <3>2. ~\E e, m : q.place = Slot(e, m)
      BY <2>2, PlacesDiffer
    <3> QED
      BY <3>1, <3>2, CopyLoader
  <2>4. n = m
    BY <2>2, <2>3, PlaceOfRuntime, PlacesDiffer
  <2> QED
    BY <2>1, <2>3, <2>4
<1> QED
  BY <1>1, <1>2, <1>3, CopyLoader

(* Every planned name has an entry.                                        *)
LEMMA PlannedHasEntry ==
    ASSUME PlanInv, CollectedIn(world, plan), phase \in LatePhases(world), NEW e, NEW n, SlotPlaced(world, plan, e, n)
    PROVE  <<e, n>> \in SyntheticIn(world, plan)
<1>1. CASE e = "got" /\ n \in plan.got
  BY <1>1 DEF CollectedIn, SyntheticIn
<1>2. CASE e = "got" /\ n \in ImageGotIn(world, plan)
  <2>1. CASE LoadedIn(world)
    <3>1. GoodPlan(world, plan) /\ n \in plan.relativeGot
      BY <1>2, <2>1, LateSettled DEF ImageGotIn
    <3>2. Asked(world, "GOTPCREL", n)
      BY <3>1 DEF GoodPlan, GoodNames
    <3>3. n \in NamesIn(world, plan, GotTypes)
      BY <2>1, <3>1, <3>2, AskedIsLive, LiveOfState DEF GotTypes
    <3> QED
      BY <1>2, <3>3 DEF SyntheticIn
  <2>2. CASE ~LoadedIn(world)
    BY <1>2, <2>2 DEF ImageGotIn, SyntheticIn
  <2> QED
    BY <2>1, <2>2
<1>3. CASE e = "tlsgot" /\ n \in plan.ie
  <2>1. LoadedIn(world)
    <3>1. ~LoadedIn(world) => plan.ie = {}
      BY PlanOfState DEF PlanAt, EmptyPlan
    <3> QED
      BY <1>3, <3>1
  <2>2. GoodPlan(world, plan)
    BY <2>1, LateSettled
  <2>3. Asked(world, "GOTTPOFF", n)
    BY <1>3, <2>2 DEF GoodPlan, GoodNames
  <2>4. n \in NamesIn(world, plan, {"GOTTPOFF"})
    BY <2>1, <2>2, <2>3, AskedIsLive, LiveOfState
  <2> QED
    BY <1>3, <2>4 DEF SyntheticIn
<1>4. CASE \/ e \in {"gd", "gdoff"} /\ n \in plan.gd
           \/ e = "desc" /\ n \in plan.desc
           \/ e = "pltgot" /\ n \in plan.plt
           \/ e = "ld" /\ n = "" /\ plan.ld
  BY <1>4 DEF SyntheticIn
<1> QED
  BY <1>1, <1>2, <1>3, <1>4 DEF SlotPlaced

(* No word of an allocated section is left out.                            *)
LEMMA AllocatedWritten ==
    ASSUME PlanInv, WrittenInv, phase = "loaded", NEW x \in Sites(world), "alloc" \in FlagsAt(world, x),
           Ref(world, x).type # "TLSDESC_CALL"
    PROVE  x \in DOMAIN words \cup plan.sites
<1>1. WordsAt(world, plan, at, phase, words)
  BY WrittenOfState DEF WrittenAt
<1>2. GoodWorld(world) /\ phase \in LatePhases(world)
  BY PlanOfState DEF PlanAt, LatePhases
<1>3. Ref(world, x).type \in Types
  BY <1>2, SiteTyped DEF Reference
<1>4. CASE LiveIn(world, plan, x)
  <2>1. AppliedAt(world, plan, at, phase, x)
    BY <1>3, <1>4 DEF AppliedAt, LiveWith, Passed
  <2> QED
    BY <1>1, <2>1 DEF WordsAt
<1>5. CASE ~LiveIn(world, plan, x) /\ LoadedIn(world)
  <2>1. GoodPlan(world, plan)
    BY <1>2, <1>5, LateSettled
  <2>2. x \in plan.sites \cup plan.copySites \cup plan.dtpoffSites
    BY <1>5, <2>1 DEF LiveIn, MaskedIn, GoodPlan, GoodSites
  <2>3. x \in plan.sites \/ PatchedAt(world, plan, phase, x)
    BY <1>5, <2>2 DEF PatchedAt, PatchedIn
  <2> QED
    BY <1>1, <2>3 DEF WordsAt
<1>6. CASE ~LiveIn(world, plan, x) /\ ~LoadedIn(world)
  <2>1. plan = EmptyPlan
    BY <1>6, PlanOfState DEF PlanAt
  <2>2. MaskedIn(plan) = {}
    BY <2>1 DEF MaskedIn, EmptyPlan
  <2>3. PatchedAt(world, plan, phase, x)
    BY <1>6, <2>2 DEF LiveIn, PatchedAt, PatchedIn
  <2> QED
    BY <1>1, <2>3 DEF WordsAt
<1> QED
  BY <1>4, <1>5, <1>6

(* No allocated reference is left unwritten, and the loader writes each    *)
(* word and entry once and none of a read-only section: no pointer gets    *)
(* its addend twice, whichever pass took it.                               *)
THEOREM WritesOnce == ReferencesSpec => []LoaderWritesOnce
<1>1. PlanInv /\ WrittenInv => LoaderWritesOnce
  <2> SUFFICES ASSUME PlanInv, WrittenInv, phase = "loaded"
               PROVE  /\ \A x \in SitesOf(objects) :
                            "alloc" \in TableAt(objects, x).flags /\ RefAt(objects, x).type # "TLSDESC_CALL" =>
                                x \in DOMAIN words \cup plan.sites
                      /\ \A r \in loader : \A q \in loader : r.place = q.place => r = q
                      /\ \A r \in loader : r.place[1] = "word" => Writable(TableAt(objects, r.place[2]).flags)
                      /\ \A r \in loader : r.place[1] = "slot" => r.place[2] \in DOMAIN slots
    BY DEF LoaderWritesOnce
  <2>1. phase \in LatePhases(world) \ {"collect"}
    BY DEF LatePhases
  <2>2. CollectedIn(world, plan) /\ EntriesAt(world, plan, phase, slots) /\ LoaderAt(world, plan, phase, loader)
    BY <2>1, WrittenOfState DEF WrittenAt
  <2>3. OneGot(world, plan)
    BY <2>1, OneGotEntry
  <2>4. loader = {} \/ (loader = LoaderIn(world, plan) /\ PointersIn(world, plan))
    BY <2>2 DEF LoaderAt
  <2>5. \A x \in SitesOf(objects) :
           "alloc" \in TableAt(objects, x).flags /\ RefAt(objects, x).type # "TLSDESC_CALL" =>
               x \in DOMAIN words \cup plan.sites
    BY AllocatedWritten DEF Sites, FlagsAt, Ref, objects
  <2>6. \A r \in loader : \A q \in loader : r.place = q.place => r = q
    BY <2>3, <2>4, OneRelocationAPlace
  <2>7. ASSUME NEW r \in loader, r.place[1] = "word" PROVE Writable(TableAt(objects, r.place[2]).flags)
    <3>1. r \in LoaderIn(world, plan) /\ PointersIn(world, plan)
      BY <2>4
    <3>2. PICK x : r.place = Word(x)
      BY <2>7, <3>1, PlaceKinds
    <3>3. WordPlaced(world, plan, x) /\ r.place[2] = x
      BY <3>1, <3>2, WordLoader DEF Word
    <3>4. Writable(FlagsAt(world, x))
      <4>1. CASE x \in plan.sites
        <5>1. LoadedIn(world)
          <6>1. ~LoadedIn(world) => plan.sites = {}
            BY PlanOfState DEF PlanAt, EmptyPlan
          <6> QED
            BY <4>1, <6>1
        <5>2. GoodPlan(world, plan)
          BY <2>1, <5>1, LateSettled
        <5> QED
          BY <4>1, <5>2 DEF GoodPlan, GoodSites
      <4>2. CASE x \notin plan.sites
        BY <3>1, <3>3, <4>2 DEF WordPlaced, PointersIn
      <4> QED
        BY <4>1, <4>2
    <3> QED
      BY <3>3, <3>4 DEF FlagsAt, objects
  <2>8. ASSUME NEW r \in loader, r.place[1] = "slot" PROVE r.place[2] \in DOMAIN slots
    <3>1. r \in LoaderIn(world, plan)
      BY <2>4
    <3>2. PICK e, n : r.place = Slot(e, n)
      BY <2>8, <3>1, PlaceKinds
    <3>3. SlotPlaced(world, plan, e, n) /\ r.place[2] = <<e, n>>
      BY <2>3, <3>1, <3>2, SlotLoader DEF Slot
    <3>4. <<e, n>> \in SyntheticIn(world, plan)
      BY <2>1, <2>2, <3>3, PlannedHasEntry
    <3> QED
      BY <2>2, <3>3, <3>4 DEF EntriesAt
  <2> QED
    BY <2>5, <2>6, <2>7, <2>8
<1> QED
  BY <1>1, PlansAccountForReferences, WordsFollowThePlan, PTL

-----------------------------------------------------------------------------
(* The image in memory: what is at a word or in an entry once the loader   *)
(* is done.                                                                *)
LEMMA FormsOfTypes ==
    /\ FormOf("RELATIVE") = "address" /\ FormOf("IRELATIVE") = "chosen" /\ FormOf("64") = "address"
    /\ FormOf("GLOB_DAT") = "address" /\ FormOf("JUMP_SLOT") = "address" /\ FormOf("DTPMOD64") = "module"
    /\ FormOf("DTPOFF64") = "dtpoff" /\ FormOf("TPOFF64") = "tpoff" /\ FormOf("TLSDESC") = "desc"
    BY DEF FormOf

LEMMA FormsOfSlots ==
    /\ SlotType["got"] = "GLOB_DAT" /\ SlotType["gd"] = "DTPMOD64" /\ SlotType["gdoff"] = "DTPOFF64"
    /\ SlotType["tlsgot"] = "TPOFF64" /\ SlotType["desc"] = "TLSDESC" /\ SlotType["pltgot"] = "JUMP_SLOT"
    BY DEF SlotType

LEMMA AppliedAlone ==
    ASSUME NEW place, NEW v, NEW r, r \in loader, r.place = place, \A q \in loader : q.place = place => q = r
    PROVE  Applied(place, v) = In(FormOf(r.type), Found(r.value))
<1> DEFINE here == {q \in loader : q.place = place}
<1>1. r \in here /\ \A q \in here : q = r
  OBVIOUS
<1> HIDE DEF here
<1>2. here # {} /\ (CHOOSE q \in here : TRUE) = r
  BY <1>1
<1> QED
  BY <1>2 DEF Applied, here

LEMMA AppliedNone ==
    ASSUME NEW place, NEW v, \A q \in loader : q.place # place
    PROVE  Applied(place, v) = Moved(v)
    BY DEF Applied

(* What the loader makes of a placed word, and of one it leaves alone.     *)
Dynamic == loader = LoaderIn(world, plan) /\ OneGot(world, plan)

LEMMA WordInMemory ==
    ASSUME loader = {} \/ Dynamic, NEW x, NEW v
    PROVE  Applied(Word(x), v) =
             IF loader # {} /\ WordPlaced(world, plan, x)
             THEN LET r == WordRelocation(world, plan, x) IN In(FormOf(r.type), Found(r.value))
             ELSE Moved(v)
<1>1. CASE loader = {}
  BY <1>1, AppliedNone
<1>2. CASE Dynamic /\ WordPlaced(world, plan, x)
  <2>1. PICK r : r = WordRelocation(world, plan, x)
    OBVIOUS
  <2>2. r \in loader /\ r.place = Word(x)
    BY <1>2, <2>1, WordLoader DEF Dynamic
  <2>3. \A q \in loader : q.place = Word(x) => q = r
    BY <1>2, <2>1, WordLoader DEF Dynamic
  <2>4. Applied(Word(x), v) = In(FormOf(r.type), Found(r.value))
    BY <2>2, <2>3, AppliedAlone
  <2> QED
    BY <1>2, <2>1, <2>2, <2>4
<1>3. CASE Dynamic /\ ~WordPlaced(world, plan, x)
  <2>1. \A q \in loader : q.place # Word(x)
    BY <1>3, WordLoader DEF Dynamic
  <2> QED
    BY <1>3, <2>1, AppliedNone
<1> QED
  BY <1>1, <1>2, <1>3

LEMMA SlotInMemory ==
    ASSUME loader = {} \/ Dynamic, NEW e, NEW n, NEW v
    PROVE  Applied(Slot(e, n), v) =
             IF loader # {} /\ SlotPlaced(world, plan, e, n)
             THEN LET r == SlotRelocation(world, plan, e, n) IN In(FormOf(r.type), Found(r.value))
             ELSE Moved(v)
<1>1. CASE loader = {}
  BY <1>1, AppliedNone
<1>2. CASE Dynamic /\ SlotPlaced(world, plan, e, n)
  <2>1. PICK r : r = SlotRelocation(world, plan, e, n)
    OBVIOUS
  <2>2. r \in loader /\ r.place = Slot(e, n)
    BY <1>2, <2>1, SlotLoader DEF Dynamic
  <2>3. \A q \in loader : q.place = Slot(e, n) => q = r
    BY <1>2, <2>1, SlotLoader DEF Dynamic
  <2>4. Applied(Slot(e, n), v) = In(FormOf(r.type), Found(r.value))
    BY <2>2, <2>3, AppliedAlone
  <2> QED
    BY <1>2, <2>1, <2>2, <2>4
<1>3. CASE Dynamic /\ ~SlotPlaced(world, plan, e, n)
  <2>1. \A q \in loader : q.place # Slot(e, n)
    BY <1>3, SlotLoader DEF Dynamic
  <2> QED
    BY <1>3, <2>1, AppliedNone
<1> QED
  BY <1>1, <1>2, <1>3

(* Placed words and entries of loaded images and static PIEs.              *)
LEMMA PlacedWord ==
    ASSUME Dynamic, NEW x, WordPlaced(world, plan, x), NEW v
    PROVE  /\ x \in plan.sites => Applied(Word(x), v) = In("address", Found(Dyn(NameAt(world, x))))
           /\ x \notin plan.sites =>
                Applied(Word(x), v) =
                  In(IF ~LoadedIn(world) /\ OwnIn(world, x)[2][2].kind = "ifunc" THEN "chosen" ELSE "address",
                     Found(OwnIn(world, x)))
<1>1. loader # {}
  BY WordLoader DEF Dynamic
<1>2. PICK r : r = WordRelocation(world, plan, x)
  OBVIOUS
<1>3. Applied(Word(x), v) = In(FormOf(r.type), Found(r.value))
  BY <1>1, <1>2, WordInMemory
<1>4. CASE x \in plan.sites
  <2>1. r.type = "64" /\ r.value = Dyn(NameAt(world, x))
    BY <1>2, <1>4, PlaceOfRuntime DEF WordRelocation
  <2> QED
    BY <1>3, <1>4, <2>1, FormsOfTypes
<1>5. CASE x \notin plan.sites
  <2>1. r = RelativeIn(world, Word(x), OwnIn(world, x))
    BY <1>2, <1>5 DEF WordRelocation
  <2>2. /\ r.value = OwnIn(world, x)
        /\ r.type = (IF ~LoadedIn(world) /\ OwnIn(world, x)[2][2].kind = "ifunc" THEN "IRELATIVE" ELSE "RELATIVE")
    BY <2>1, PlaceOfRuntime DEF RelativeIn
  <2> QED
    BY <1>3, <1>5, <2>2, FormsOfTypes
<1> QED
  BY <1>4, <1>5

LEMMA PlacedSlot ==
    ASSUME Dynamic, NEW e, NEW n, SlotPlaced(world, plan, e, n)
    PROVE  /\ e = "ld" => Entry(e, n) = In("module", <<"module", "">>)
           /\ e = "gd" => Entry(e, n) = In("module", Found(Dyn(n)))
           /\ e = "gdoff" => Entry(e, n) = In("dtpoff", Found(Dyn(n)))
           /\ e = "tlsgot" => Entry(e, n) = In("tpoff", Found(Dyn(n)))
           /\ e = "desc" => Entry(e, n) = In("desc", Found(Dyn(n)))
           /\ e = "pltgot" => Entry(e, n) = In("address", Found(Dyn(n)))
           /\ e = "got" /\ n \in plan.got => Entry(e, n) = In("address", Found(Dyn(n)))
           /\ e = "got" /\ n \notin plan.got =>
                Entry(e, n) =
                  In(IF ~LoadedIn(world) /\ GlobalIn(world, n)[2][2].kind = "ifunc" THEN "chosen" ELSE "address",
                     Found(GlobalIn(world, n)))
<1>1. loader # {}
  BY SlotLoader DEF Dynamic
<1>2. PICK r : r = SlotRelocation(world, plan, e, n)
  OBVIOUS
<1>3. Entry(e, n) = In(FormOf(r.type), Found(r.value))
  BY <1>1, <1>2, SlotInMemory DEF Entry
<1>4. CASE e = "ld"
  <2>1. r = Runtime("DTPMOD64", Slot("ld", ""), <<"module", "">>)
    BY <1>2, <1>4 DEF SlotRelocation
  <2>2. r.type = "DTPMOD64" /\ r.value = <<"module", "">>
    BY <2>1 DEF Runtime
  <2>3. Found(<<"module", "">>) = <<"module", "">>
    BY DEF Found
  <2> QED
    BY <1>3, <1>4, <2>2, <2>3, FormsOfTypes
<1>5. CASE e = "got" /\ n \notin plan.got
  <2>1. r = RelativeIn(world, Slot("got", n), GlobalIn(world, n))
    BY <1>2, <1>5 DEF SlotRelocation
  <2>2. /\ r.value = GlobalIn(world, n)
        /\ r.type = (IF ~LoadedIn(world) /\ GlobalIn(world, n)[2][2].kind = "ifunc" THEN "IRELATIVE" ELSE "RELATIVE")
    BY <2>1, PlaceOfRuntime DEF RelativeIn
  <2> QED
    BY <1>3, <1>5, <2>2, FormsOfTypes
<1>6. CASE e # "ld" /\ ~(e = "got" /\ n \notin plan.got)
  <2>1. r.type = SlotType[e] /\ r.value = Dyn(n)
    BY <1>2, <1>6, PlaceOfRuntime DEF SlotRelocation
  <2> QED
    BY <1>3, <1>6, <2>1, FormsOfTypes, FormsOfSlots DEF SlotPlaced
<1> QED
  BY <1>4, <1>5, <1>6

LEMMA UnplacedSlot ==
    ASSUME NEW e, NEW n, loader = {} \/ (Dynamic /\ ~SlotPlaced(world, plan, e, n))
    PROVE  Entry(e, n) = Moved(slots[<<e, n>>])
    BY SlotInMemory DEF Entry

LEMMA UnplacedWord ==
    ASSUME NEW x \in DOMAIN words, loader = {} \/ (Dynamic /\ ~WordPlaced(world, plan, x))
    PROVE  AtWord(x) = Moved(words[x])
    BY WordInMemory DEF AtWord

-----------------------------------------------------------------------------
(* What is known of an image that has been linked.                         *)
Linked == PlanInv /\ WrittenInv /\ phase = "loaded"

LEMMA LinkedFacts ==
    ASSUME Linked
    PROVE  /\ GoodWorld(world) /\ mode = world.mode /\ world.mode \in Modes /\ phase \in LatePhases(world)
           /\ WordsAt(world, plan, at, "loaded", words) /\ CollectedIn(world, plan)
           /\ DOMAIN slots = SyntheticIn(world, plan)
           /\ \A e \in DOMAIN slots : slots[e] = SlotIn(world, plan, "loaded", e)
           /\ world.mode = "static" => loader = {}
           /\ world.mode # "static" => Dynamic /\ PointersIn(world, plan)
           /\ LoadedIn(world) => /\ GoodPlan(world, plan)
                                 /\ \A x \in Sites(world) : SettledTls(world, plan, x) /\ SettledRest(world, plan, x)
           /\ ~LoadedIn(world) => plan = EmptyPlan
           /\ world.mode = "static_pie" => \A x \in Sites(world) : PieFine(world, x)
<1>1. PlanAt(world, plan, at, phase) /\ WrittenAt(world, plan, at, phase, words, slots, loader) /\ phase = "loaded"
  BY PlanOfState, WrittenOfState DEF Linked
<1>2. phase \in LatePhases(world) \ {"collect"} /\ phase # "refused"
  BY <1>1 DEF LatePhases
<1>3. /\ WordsAt(world, plan, at, "loaded", words) /\ CollectedIn(world, plan)
      /\ EntriesAt(world, plan, "loaded", slots) /\ LoaderAt(world, plan, "loaded", loader)
  BY <1>1, <1>2 DEF WrittenAt
<1>4. GoodWorld(world) /\ mode = world.mode /\ world.mode \in Modes
  BY <1>1 DEF PlanAt, GoodWorld, mode
<1>5. world.mode = "static" => loader = {}
  BY <1>3 DEF LoaderAt
<1>6. world.mode # "static" => Dynamic /\ PointersIn(world, plan)
  BY <1>2, <1>3, OneGotEntry DEF LoaderAt, Dynamic, Linked
<1>7. LoadedIn(world) => /\ GoodPlan(world, plan)
                         /\ \A x \in Sites(world) : SettledTls(world, plan, x) /\ SettledRest(world, plan, x)
  BY <1>2, LateSettled DEF Linked
<1>8. ~LoadedIn(world) => plan = EmptyPlan
  BY <1>1 DEF PlanAt
<1>9. world.mode = "static_pie" => \A x \in Sites(world) : PieFine(world, x)
  BY <1>1, <1>2 DEF PlanAt
<1>10. DOMAIN slots = SyntheticIn(world, plan) /\ \A e \in DOMAIN slots : slots[e] = SlotIn(world, plan, "loaded", e)
  BY <1>3 DEF EntriesAt
<1> QED
  BY <1>2, <1>3, <1>4, <1>5, <1>6, <1>7, <1>8, <1>9, <1>10

LEMMA EmptyPlanFacts ==
    ASSUME plan = EmptyPlan
    PROVE  /\ plan.sites = {} /\ plan.got = {} /\ plan.plt = {} /\ plan.gd = {} /\ plan.ie = {} /\ plan.desc = {}
           /\ plan.copy = {} /\ plan.copySites = {} /\ plan.dtpoffSites = {} /\ plan.descSites = {} /\ ~plan.ld
           /\ plan.relativeGot = {}
    BY DEF EmptyPlan

(* What a symbol means, and what the loader finds for its name.            *)
LEMMA MeantOfState ==
    ASSUME NEW x
    PROVE  Meant(x) = IF ~Nonlocal(Ref(world, x).sym) THEN Local(x[1], Ref(world, x).sym)
                      ELSE IF Known(world, NameAt(world, x))
                      THEN IF Preempted(NameAt(world, x)) THEN Dyn(NameAt(world, x)) ELSE GlobalIn(world, NameAt(world, x))
                      ELSE IF ~LoadedIn(world) THEN Zero
                      ELSE IF NameAt(world, x) \in plan.copy THEN <<"copy", NameAt(world, x)>> ELSE Dyn(NameAt(world, x))
    BY StateOfWorld DEF Meant, Ref, NameAt, GlobalIn, Definitions, objects

LEMMA FoundIsMeant ==
    ASSUME Linked, LoadedIn(world), NEW x, Nonlocal(Ref(world, x).sym)
    PROVE  Found(Dyn(NameAt(world, x))) = Meant(x)
<1> DEFINE n == NameAt(world, x)
<1>1. \A m \in plan.copy : ~Known(world, m)
  BY LinkedFacts DEF GoodPlan, GoodNames
<1>2. Dyn(n)[1] = "dyn" /\ Dyn(n)[2] = n
  BY DEF Dyn
<1>3. Found(Dyn(n)) = IF n \in plan.copy THEN <<"copy", n>>
                      ELSE IF Known(world, n) /\ ~Preempted(n) THEN GlobalIn(world, n) ELSE Dyn(n)
  <2> HIDE DEF n
  <2> QED
    BY <1>2, StateOfWorld DEF Found, GlobalIn, Definitions, objects
<1> HIDE DEF n
<1>4. Meant(x) = IF Known(world, n) THEN IF Preempted(n) THEN Dyn(n) ELSE GlobalIn(world, n)
                 ELSE IF n \in plan.copy THEN <<"copy", n>> ELSE Dyn(n)
  BY MeantOfState DEF n
<1>5. Found(Dyn(n)) = Meant(x)
  BY <1>1, <1>3, <1>4
<1> QED
  BY <1>5 DEF n

LEMMA OwnShape ==
    ASSUME NEW x
    PROVE  /\ OwnIn(world, x)[1] \in {"def", "zero"}
           /\ OwnIn(world, x)[1] = "zero" <=> OwnIn(world, x) = Zero
           /\ OwnIn(world, x) = Zero <=> Nonlocal(Ref(world, x).sym) /\ ~Known(world, NameAt(world, x))
           /\ ~Nonlocal(Ref(world, x).sym) => OwnIn(world, x)[2][2] = Ref(world, x).sym
           /\ Nonlocal(Ref(world, x).sym) /\ Known(world, NameAt(world, x)) =>
                 OwnIn(world, x)[2][2] = DefOf(world, NameAt(world, x))
           /\ Found(OwnIn(world, x)) = OwnIn(world, x)
<1>1. CASE ~Nonlocal(Ref(world, x).sym)
  <2>1. OwnIn(world, x) = <<"def", <<x[1], Ref(world, x).sym>>>>
    BY <1>1 DEF OwnIn, Local, Def
  <2>2. OwnIn(world, x)[1] = "def" /\ OwnIn(world, x)[2][2] = Ref(world, x).sym
    BY <2>1
  <2>3. Zero[1] = "zero"
    BY DEF Zero
  <2>4. Found(OwnIn(world, x)) = OwnIn(world, x)
    BY <2>2 DEF Found
  <2>5. OwnIn(world, x) # Zero
    BY <2>2, <2>3
  <2> QED
    BY <1>1, <2>2, <2>4, <2>5, Zenon
<1>2. CASE Nonlocal(Ref(world, x).sym) /\ Known(world, NameAt(world, x))
  <2>1. OwnIn(world, x) = <<"def", DefinitionsOf(world.objects)[NameAt(world, x)]>>
    BY <1>2 DEF OwnIn, GlobalIn, Def
  <2> QED
    BY <1>2, <2>1 DEF Zero, Found, DefOf
<1>3. CASE Nonlocal(Ref(world, x).sym) /\ ~Known(world, NameAt(world, x))
  <2>1. OwnIn(world, x) = Zero
    BY <1>3 DEF OwnIn, GlobalIn
  <2>4. Zero[1] = "zero"
    BY DEF Zero
  <2>2. OwnIn(world, x)[1] = "zero"
    BY <2>1, <2>4
  <2>3. Found(OwnIn(world, x)) = OwnIn(world, x)
    BY <2>2 DEF Found
  <2> QED
    BY <1>3, <2>1, <2>2, <2>3
<1> QED
  BY <1>1, <1>2, <1>3

LEMMA OwnIsMeant ==
    ASSUME NEW x,
           \/ ~Nonlocal(Ref(world, x).sym)
           \/ ~LoadedIn(world)
           \/ Known(world, NameAt(world, x)) /\ (world.mode = "pie" \/ DefOf(world, NameAt(world, x)).vis # "default")
    PROVE  Meant(x) = OwnIn(world, x)
<1>1. Known(world, NameAt(world, x)) /\ (~LoadedIn(world) \/ world.mode = "pie" \/ DefOf(world, NameAt(world, x)).vis # "default")
        => ~Preempted(NameAt(world, x))
  BY StateOfWorld DEF Preempted, LoadedIn
<1> QED
  BY <1>1, MeantOfState DEF OwnIn, GlobalIn

(* Values in their forms, at the address the image got.                    *)
LEMMA FormsOfValues ==
    ASSUME NEW v
    PROVE  /\ Abs(v).form = "address" /\ Abs(v).value = v
           /\ Rel(v).form = "distance" /\ Rel(v).value = v
           /\ FromGot(v).form = "from_got" /\ FromGot(v).value = v
           /\ \A f : In(f, v).form = f /\ In(f, v).value = v
           /\ In("address", v) = Abs(v)
    BY DEF Abs, Rel, FromGot, In

LEMMA MovedValues ==
    ASSUME NEW v
    PROVE  /\ mode = "static" => Moved(Abs(v)) = Abs(v) /\ Moved(Rel(v)) = Rel(v) /\ Moved(FromGot(v)) = FromGot(v)
           /\ v = Zero \/ Absolute(v) => Moved(Abs(v)) = Abs(v)
           /\ v # Zero /\ ~Absolute(v) => Moved(Rel(v)) = Rel(v)
           /\ \A f : f \notin {"address", "distance", "from_got"} => Moved(In(f, v)) = In(f, v)
<1>1. ASSUME mode = "static"
      PROVE  Moved(Abs(v)) = Abs(v) /\ Moved(Rel(v)) = Rel(v) /\ Moved(FromGot(v)) = FromGot(v)
  BY <1>1, FormsOfValues DEF Moved, Fixed
<1>2. v = Zero \/ Absolute(v) => Moved(Abs(v)) = Abs(v)
  BY FormsOfValues DEF Moved, Fixed
<1>3. v # Zero /\ ~Absolute(v) => Moved(Rel(v)) = Rel(v)
  BY FormsOfValues DEF Moved
<1>4. ASSUME NEW f, f \notin {"address", "distance", "from_got"} PROVE Moved(In(f, v)) = In(f, v)
  BY <1>4, FormsOfValues DEF Moved
<1> QED
  BY <1>1, <1>2, <1>3, <1>4

LEMMA ReachedWays ==
    ASSUME NEW x, NEW type, type = Ref(world, x).type
    PROVE  /\ type \in PcTypes /\ AtWord(x).form = "distance" /\ AtWord(x).value[1] # "plt" => Reached(x) = Abs(AtWord(x).value)
           /\ type \in PcTypes /\ AtWord(x).form = "distance" /\ AtWord(x).value[1] = "plt" =>
                 Reached(x) = Entry("pltgot", AtWord(x).value[2])
           /\ type \in {"GOTPCREL", "GOT64"} => Reached(x) = Entry("got", AtWord(x).value[2])
           /\ type = "GOTTPOFF" => Reached(x) = Entry("tlsgot", AtWord(x).value[2])
           /\ type = "TLSGD" => Reached(x) = IF Entry("gd", AtWord(x).value[2]) = In("module", Entry("gdoff", AtWord(x).value[2]).value)
                                             THEN Entry("gdoff", AtWord(x).value[2]) ELSE In("split", AtWord(x).value)
           /\ type = "GOTPC32_TLSDESC" => Reached(x) = Entry("desc", AtWord(x).value[2])
           /\ type = "TLSLD" => Reached(x) = Entry("ld", AtWord(x).value[2])
           /\ type \notin PcTypes \cup {"GOTPCREL", "GOT64", "GOTTPOFF", "TLSGD", "GOTPC32_TLSDESC", "TLSLD"} => Reached(x) = AtWord(x)
    BY DEF Reached, PcTypes, Ref, objects

(* Where a reference may take the resolver of an IFUNC for the function,   *)
(* the property does not speak of it.                                      *)
LEMMA PlainMeaning ==
    ASSUME NEW x, Ref(world, x).type \in {"64", "PC32", "PLT32", "GOTPCREL", "GOT64"}
    PROVE  /\ FormMeant(x) = IF Meant(x)[1] = "def" /\ Meant(x)[2][2].kind = "ifunc" THEN In("chosen", Meant(x)) ELSE Abs(Meant(x))
           /\ ~NotHonoured(x) /\ (mode # "static_pie" \/ Ref(world, x).type \in PcTypes) => FormMeant(x) = Abs(Meant(x))
<1>1. FormMeant(x) = IF Meant(x)[1] = "def" /\ Meant(x)[2][2].kind = "ifunc" THEN In("chosen", Meant(x)) ELSE Abs(Meant(x))
  BY DEF FormMeant, Ref, objects
<1>2. ~NotHonoured(x) /\ (mode # "static_pie" \/ Ref(world, x).type \in PcTypes) => ~(Meant(x)[1] = "def" /\ Meant(x)[2][2].kind = "ifunc")
  BY DEF NotHonoured, Ref, objects
<1> QED
  BY <1>1, <1>2

LEMMA WrittenWord ==
    ASSUME Linked, NEW x \in DOMAIN words
    PROVE  /\ x \in Sites(world) /\ words[x] = WrittenIn(world, plan, x)
           /\ PatchedIn(world, plan, x) \/ x \in LiveWith(world, plan, Types)
           /\ x \in LiveWith(world, plan, Types) => words[x] = WordIn(world, plan, x)
           /\ ~LoadedIn(world) /\ ~PatchedIn(world, plan, x) => ValuedIn(world, x) /\ Ref(world, x).type \notin EntryTypes
<1>1. words[x] = WrittenIn(world, plan, x)
  BY LinkedFacts DEF WordsAt
<1>2. AppliedAt(world, plan, at, "loaded", x) \/ PatchedAt(world, plan, "loaded", x)
  BY LinkedFacts DEF WordsAt
<1>3. PatchedIn(world, plan, x) \/ x \in LiveWith(world, plan, Types)
  BY <1>2 DEF AppliedAt, PatchedAt
<1>4. PatchedIn(world, plan, x) => x \in Sites(world)
  <2>1. LoadedIn(world) => GoodSites(world, plan)
    BY LinkedFacts DEF GoodPlan
  <2> QED
    BY <2>1 DEF PatchedIn, GoodSites
<1>5. x \in Sites(world)
  BY <1>3, <1>4 DEF LiveWith
<1>6. x \in LiveWith(world, plan, Types) => ~PatchedIn(world, plan, x)
  BY DEF LiveWith, LiveIn, MaskedIn, PatchedIn
<1>7. x \in LiveWith(world, plan, Types) => words[x] = WordIn(world, plan, x)
  BY <1>1, <1>6 DEF WrittenIn
<1>8. ~LoadedIn(world) /\ ~PatchedIn(world, plan, x) => ValuedIn(world, x) /\ Ref(world, x).type \notin EntryTypes
  <2>1. ~LoadedIn(world) => \A y : AppliedAt(world, plan, at, "loaded", y) => ValuedIn(world, y) /\ Ref(world, y).type \notin EntryTypes
    BY LinkedFacts DEF WordsAt
  <2> QED
    BY <1>2, <2>1 DEF PatchedAt
<1> QED
  BY <1>1, <1>3, <1>5, <1>7, <1>8

LEMMA OtherWord ==
    ASSUME Linked, NEW x \in DOMAIN words, Ref(world, x).type # "64"
    PROVE  AtWord(x) = Moved(words[x])
<1>1. ~WordPlaced(world, plan, x)
  <2>1. x \notin plan.sites
    <3>1. CASE LoadedIn(world)
      BY <3>1, LinkedFacts DEF GoodPlan, GoodSites
    <3>2. CASE ~LoadedIn(world)
      BY <3>2, LinkedFacts, EmptyPlanFacts
    <3> QED
      BY <3>1, <3>2
  <2> QED
    BY <2>1 DEF WordPlaced, LiveWith
<1>2. loader = {} \/ Dynamic
  BY LinkedFacts
<1> QED
  BY <1>1, <1>2, UnplacedWord

(* A pointer that the loader sets to what a name stands for.               *)
LEMMA NamedPointerReaches ==
    ASSUME Linked, NEW x \in plan.sites, ~NotHonoured(x)
    PROVE  Reached(x) = FormMeant(x)
<1>1. LoadedIn(world) /\ Dynamic
  <2>1. LoadedIn(world)
    BY LinkedFacts, EmptyPlanFacts
  <2> QED
    BY <2>1, LinkedFacts DEF LoadedIn
<1>2. Ref(world, x).type = "64" /\ Nonlocal(Ref(world, x).sym)
  BY <1>1, LinkedFacts DEF GoodPlan, GoodSites
<1>3. AtWord(x) = In("address", Found(Dyn(NameAt(world, x))))
  BY <1>1, PlacedWord DEF AtWord, WordPlaced
<1>4. AtWord(x) = Abs(Meant(x))
  BY <1>1, <1>2, <1>3, FoundIsMeant, FormsOfValues
<1>5. Reached(x) = AtWord(x)
  BY <1>2, ReachedWays DEF PcTypes
<1>6. mode # "static_pie"
  BY <1>1, LinkedFacts DEF LoadedIn
<1> QED
  BY <1>2, <1>4, <1>5, <1>6, PlainMeaning

(* The words that are patched when the tables are done.                    *)
LEMMA PatchedReaches ==
    ASSUME Linked, NEW x \in DOMAIN words, PatchedIn(world, plan, x), ~NotHonoured(x)
    PROVE  Reached(x) = FormMeant(x)
<1>1. words[x] = WrittenIn(world, plan, x)
  BY WrittenWord
<1>2. CASE ~LoadedIn(world)
  <2>1. Ref(world, x).type = "TPOFF32" /\ words[x] = In("tpoff", OwnIn(world, x))
    BY <1>1, <1>2 DEF PatchedIn, WrittenIn
  <2>2. AtWord(x) = In("tpoff", OwnIn(world, x))
    BY <2>1, OtherWord, MovedValues
  <2>3. Reached(x) = AtWord(x)
    BY <2>1, ReachedWays DEF PcTypes
  <2>4. FormMeant(x) = In("tpoff", Meant(x))
    BY <2>1 DEF FormMeant, Ref, objects
  <2> QED
    BY <1>2, <2>2, <2>3, <2>4, OwnIsMeant
<1>3. CASE LoadedIn(world) /\ x \in plan.copySites
  <2> DEFINE n == NameAt(world, x)
             v == <<"copy", n>>
  <2>1. words[x] = Rel(v)
    BY <1>1, <1>3 DEF WrittenIn, PatchedIn
  <2>2. GoodPlan(world, plan)
    BY <1>3, LinkedFacts
  <2>3. Ref(world, x).type = "PC32" /\ Nonlocal(Ref(world, x).sym) /\ n \in plan.copy /\ ~Known(world, n)
    BY <1>3, <2>2 DEF GoodPlan, GoodSites, GoodNames
  <2>4. v[1] = "copy" /\ v # Zero /\ ~Absolute(v)
    BY DEF Absolute, Zero
  <2>5. Meant(x) = v
    BY <1>3, <2>3, MeantOfState
  <2> HIDE DEF v, n
  <2>6. AtWord(x) = Rel(v)
    BY <2>1, <2>3, <2>4, OtherWord, MovedValues
  <2>7. Reached(x) = Abs(v)
    BY <2>3, <2>4, <2>6, ReachedWays, FormsOfValues DEF PcTypes
  <2>8. FormMeant(x) = Abs(Meant(x))
    BY <2>3, PlainMeaning DEF PcTypes
  <2> QED
    BY <2>5, <2>7, <2>8
<1>4. CASE LoadedIn(world) /\ x \notin plan.copySites
  <2>1. x \in plan.dtpoffSites /\ words[x] = In("dtpoff", Local(x[1], Ref(world, x).sym))
    BY <1>1, <1>4 DEF WrittenIn, PatchedIn
  <2>2. GoodPlan(world, plan) /\ x \in Sites(world) /\ SettledTls(world, plan, x)
    BY <1>4, LinkedFacts, WrittenWord
  <2>3. Ref(world, x).type = "DTPOFF32" /\ ~Nonlocal(Ref(world, x).sym)
    BY <2>1, <2>2 DEF GoodPlan, GoodSites, SettledTls, LdTypes, LocalTls
  <2>4. AtWord(x) = In("dtpoff", Local(x[1], Ref(world, x).sym))
    BY <2>1, <2>3, OtherWord, MovedValues
  <2>5. Reached(x) = AtWord(x)
    BY <2>3, ReachedWays DEF PcTypes
  <2>6. FormMeant(x) = In("dtpoff", Meant(x))
    BY <2>3 DEF FormMeant, Ref, objects
  <2> QED
    BY <2>3, <2>4, <2>5, <2>6, MeantOfState
<1> QED
  BY <1>2, <1>3, <1>4

(* The thread-local models of a loaded image go through entries that the   *)
(* loader fills.                                                           *)
LEMMA EntryWord ==
    ASSUME Linked, NEW x \in DOMAIN words, NEW e, NEW n, words[x] = Rel(<<e, n>>), e \notin {"def", "zero"},
           Ref(world, x).type # "64"
    PROVE  AtWord(x).value = <<e, n>> /\ AtWord(x).value[1] = e /\ AtWord(x).value[2] = n /\ AtWord(x) = Rel(<<e, n>>)
<1>1. PICK v : v = <<e, n>>
  OBVIOUS
<1>2. v[1] = e /\ v[2] = n
  BY <1>1
<1>3. Zero[1] = "zero"
  BY DEF Zero
<1>4. v # Zero /\ ~Absolute(v)
  BY <1>2, <1>3 DEF Absolute
<1>5. AtWord(x) = Rel(v)
  BY <1>1, <1>4, OtherWord, MovedValues
<1> QED
  BY <1>1, <1>2, <1>5, FormsOfValues

LEMMA ThreadLocalReaches ==
    ASSUME Linked, NEW x \in DOMAIN words, x \in LiveWith(world, plan, EntryTypes)
    PROVE  Reached(x) = FormMeant(x)
<1> DEFINE n == NameAt(world, x)
<1>1. x \in Sites(world) /\ Ref(world, x).type \in EntryTypes /\ LiveIn(world, plan, x)
  BY DEF LiveWith
<1>2. Ref(world, x).type # "64" /\ x \in LiveWith(world, plan, Types)
  BY <1>1 DEF EntryTypes, LiveWith, Types, TlsTypes, LdTypes, DescTypes
<1>3. words[x] = WordIn(world, plan, x)
  BY <1>2, WrittenWord
<1>4. LoadedIn(world)
  <2>1. ~LoadedIn(world) /\ PatchedIn(world, plan, x) => Ref(world, x).type = "TPOFF32"
    BY DEF PatchedIn
  <2> QED
    BY <1>1, <2>1, WrittenWord DEF EntryTypes
<1>5. Dynamic /\ SettledTls(world, plan, x)
  BY <1>1, <1>4, LinkedFacts DEF LoadedIn
<1>6. Ref(world, x).type # "TLSDESC_CALL"
  BY <1>1, <1>5 DEF SettledTls, LiveIn, MaskedIn
<1>7. CASE Ref(world, x).type = "TLSLD"
  <2>1. words[x] = Rel(<<"ld", "">>)
    BY <1>3, <1>7 DEF WordIn
  <2>2. PICK e, m : e = "ld" /\ m = ""
    OBVIOUS
  <2>3. AtWord(x).value[2] = m
    <3>1. words[x] = Rel(<<e, m>>) /\ e \notin {"def", "zero"}
      BY <2>1, <2>2
    <3> QED
      BY <1>2, <3>1, EntryWord
  <2>4. SlotPlaced(world, plan, e, m)
    BY <1>5, <1>7, <2>2 DEF SettledTls, SlotPlaced
  <2>5. Entry(e, m) = In("module", <<"module", "">>)
    BY <1>5, <2>2, <2>4, PlacedSlot
  <2>6. Reached(x) = Entry("ld", AtWord(x).value[2])
    BY <1>7, ReachedWays
  <2>7. FormMeant(x) = In("module", <<"module", "">>)
    BY <1>7 DEF FormMeant, Ref, objects
  <2> QED
    BY <2>2, <2>3, <2>5, <2>6, <2>7
<1>8. CASE Ref(world, x).type \in {"TLSGD", "GOTPC32_TLSDESC"}
  <2>1. Nonlocal(Ref(world, x).sym)
    BY <1>5, <1>8 DEF SettledTls, TlsTypes, LdTypes, DescTypes
  <2>2. Found(Dyn(n)) = Meant(x)
    BY <1>4, <2>1, FoundIsMeant
  <2> HIDE DEF n
  <2>3. CASE Ref(world, x).type = "TLSGD"
    <3>1. words[x] = Rel(<<"gd", n>>)
      BY <1>3, <2>3 DEF WordIn, n
    <3>2. AtWord(x).value[2] = n
      BY <1>2, <3>1, EntryWord
    <3>3. n \in plan.gd
      BY <1>5, <2>3 DEF SettledTls, NameAt, n
    <3>4. SlotPlaced(world, plan, "gd", n) /\ SlotPlaced(world, plan, "gdoff", n)
      BY <3>3 DEF SlotPlaced
    <3>5. Entry("gd", n) = In("module", Meant(x)) /\ Entry("gdoff", n) = In("dtpoff", Meant(x))
      BY <1>5, <2>2, <3>4, PlacedSlot
    <3>6. Reached(x) = Entry("gdoff", n)
      <4>1. Entry("gdoff", n).value = Meant(x)
        BY <3>5 DEF In
      <4>2. Entry("gd", n) = In("module", Entry("gdoff", n).value)
        BY <3>5, <4>1
      <4>3. Reached(x) = IF Entry("gd", AtWord(x).value[2]) = In("module", Entry("gdoff", AtWord(x).value[2]).value)
                         THEN Entry("gdoff", AtWord(x).value[2]) ELSE In("split", AtWord(x).value)
        BY <2>3, ReachedWays
      <4> QED
        BY <3>2, <4>2, <4>3
    <3>7. FormMeant(x) = In("dtpoff", Meant(x))
      BY <2>3 DEF FormMeant, Ref, objects
    <3> QED
      BY <3>5, <3>6, <3>7
  <2>4. CASE Ref(world, x).type = "GOTPC32_TLSDESC"
    <3>1. words[x] = Rel(<<"desc", n>>)
      BY <1>3, <2>4 DEF WordIn, n
    <3>2. AtWord(x).value[2] = n
      BY <1>2, <3>1, EntryWord
    <3>3. n \in plan.desc
      BY <1>5, <2>4 DEF SettledTls, NameAt, n
    <3>4. SlotPlaced(world, plan, "desc", n)
      BY <3>3 DEF SlotPlaced
    <3>5. Entry("desc", n) = In("desc", Meant(x))
      BY <1>5, <2>2, <3>4, PlacedSlot
    <3>6. Reached(x) = Entry("desc", n)
      BY <2>4, <3>2, ReachedWays
    <3>7. FormMeant(x) = In("desc", Meant(x))
      BY <2>4 DEF FormMeant, Ref, objects
    <3> QED
      BY <3>5, <3>6, <3>7
  <2> QED
    BY <1>8, <2>3, <2>4
<1> QED
  BY <1>1, <1>6, <1>7, <1>8 DEF EntryTypes

(* The GOT: the loader's answer, an address that moves with the image, or  *)
(* what was known at link time.                                            *)
LEMMA GlobalOwn ==
    ASSUME NEW x, Nonlocal(Ref(world, x).sym)
    PROVE  OwnIn(world, x) = GlobalIn(world, NameAt(world, x))
    BY DEF OwnIn

LEMMA GotHolds ==
    ASSUME Linked, NEW x \in LiveWith(world, plan, {"GOTPCREL", "GOT64"}), x \in Sites(world), ~NotHonoured(x)
    PROVE  Entry("got", NameAt(world, x)) = FormMeant(x)
<1> DEFINE n == NameAt(world, x)
           g == GlobalIn(world, n)
<1>1. Ref(world, x).type \in {"GOTPCREL", "GOT64"}
  BY DEF LiveWith
<1>2. x \in LiveWith(world, plan, GotTypes) /\ x \in LiveWith(world, plan, GotTypes \cup {"GOTTPOFF"})
  BY <1>1 DEF LiveWith, GotTypes
<1>3. Nonlocal(Ref(world, x).sym) /\ n \in NamesIn(world, plan, GotTypes)
  BY <1>2, LinkedFacts DEF CollectedIn, NamesIn
<1>4. <<"got", n>> \in DOMAIN slots
  BY <1>3, LinkedFacts DEF SyntheticIn
<1>5. OwnIn(world, x) = g
  BY <1>3, GlobalOwn
<1>6. /\ FormMeant(x) = IF Meant(x)[1] = "def" /\ Meant(x)[2][2].kind = "ifunc" THEN In("chosen", Meant(x)) ELSE Abs(Meant(x))
      /\ mode # "static_pie" => FormMeant(x) = Abs(Meant(x))
  BY <1>1, PlainMeaning
<1>7. CASE LoadedIn(world)
  <2>1. Dynamic /\ mode # "static_pie" /\ GoodPlan(world, plan) /\ SettledRest(world, plan, x)
    BY <1>7, LinkedFacts DEF LoadedIn
  <2>2. Ref(world, x).type = "GOTPCREL"
    BY <1>1, <2>1 DEF SettledRest, SupportedIn, TlsTypes, LdTypes, DescTypes
  <2>3. CASE n \in plan.got
    <3>1. SlotPlaced(world, plan, "got", n)
      BY <2>3 DEF SlotPlaced
    <3>2. Entry("got", n) = In("address", Found(Dyn(n)))
      BY <2>1, <2>3, <3>1, PlacedSlot
    <3>3. Found(Dyn(n)) = Meant(x)
      BY <1>3, <1>7, FoundIsMeant
    <3> QED
      BY <1>6, <2>1, <3>2, <3>3, FormsOfValues
  <2>4. CASE n \notin plan.got
    <3>1. n \in plan.relativeGot
      BY <1>3, <2>1, <2>2, <2>4 DEF SettledRest, NameAt
    <3>2. Known(world, n) /\ Protected(DefOf(world, n))
      BY <2>1, <3>1 DEF GoodPlan, GoodNames
    <3>3. SlotPlaced(world, plan, "got", n)
      BY <1>7, <3>1, <3>2 DEF SlotPlaced, ImageGotIn, Protected
    <3>4. Entry("got", n) = In("address", Found(g))
      BY <1>7, <2>1, <2>4, <3>3, PlacedSlot
    <3>5. Meant(x) = g
      BY <1>5, <3>2, OwnIsMeant DEF Protected
    <3> QED
      BY <1>5, <1>6, <2>1, <3>4, <3>5, OwnShape, FormsOfValues
  <2> QED
    BY <2>3, <2>4
<1>8. CASE ~LoadedIn(world)
  <2>1. plan = EmptyPlan /\ plan.got = {} /\ plan.relativeGot = {}
    BY <1>8, LinkedFacts, EmptyPlanFacts
  <2>2. Meant(x) = g
    BY <1>5, <1>8, OwnIsMeant
  <2>3. slots[<<"got", n>>] = Abs(g)
    <3>1. PICK e : e = <<"got", n>>
      OBVIOUS
    <3>2. e[1] = "got" /\ e[2] = n
      BY <3>1
    <3>3. slots[e] = SlotIn(world, plan, "loaded", e)
      BY <1>4, <3>1, LinkedFacts
    <3>4. SlotIn(world, plan, "loaded", e) = Abs(g)
      BY <2>1, <3>2 DEF SlotIn
    <3> QED
      BY <3>1, <3>3, <3>4
  <2>4. world.mode \in {"static", "static_pie"} /\ mode = world.mode
    BY <1>8, LinkedFacts DEF LoadedIn, Modes
  <2>5. CASE world.mode = "static"
    <3>1. Entry("got", n) = Moved(slots[<<"got", n>>])
      BY <2>5, LinkedFacts, UnplacedSlot
    <3> QED
      BY <1>6, <2>2, <2>3, <2>4, <2>5, <3>1, MovedValues
  <2>6. CASE world.mode = "static_pie" /\ SlotPlaced(world, plan, "got", n)
    <3>1. Dynamic /\ Known(world, n)
      BY <2>1, <2>6, LinkedFacts DEF SlotPlaced, ImageGotIn
    <3>2. Entry("got", n) = In(IF g[2][2].kind = "ifunc" THEN "chosen" ELSE "address", Found(g))
      BY <1>8, <2>1, <2>6, <3>1, PlacedSlot
    <3>3. Found(g) = g /\ g[1] = "def"
      BY <1>5, <3>1, OwnShape
    <3> QED
      BY <1>6, <2>2, <3>2, <3>3, FormsOfValues
  <2>7. CASE world.mode = "static_pie" /\ ~SlotPlaced(world, plan, "got", n)
    <3>1. Entry("got", n) = Moved(Abs(g))
      BY <2>3, <2>7, LinkedFacts, UnplacedSlot
    <3>2. n \notin ImageGotIn(world, plan)
      BY <2>7 DEF SlotPlaced
    <3>3. ~Known(world, n) \/ DefOf(world, n).abs
      BY <1>3, <1>8, <3>2 DEF ImageGotIn
    <3>4. CASE ~Known(world, n)
      <4>1. g = Zero /\ g[1] = "zero"
        BY <1>3, <1>5, <3>4, OwnShape
      <4> QED
        BY <1>6, <2>2, <3>1, <4>1, MovedValues
    <3>5. CASE Known(world, n) /\ DefOf(world, n).abs
      <4>1. g[1] = "def" /\ g[2][2] = DefOf(world, n)
        BY <1>3, <1>5, <3>5, OwnShape
      <4>2. Moved(Abs(g)) = Abs(g)
        BY <3>5, <4>1, MovedValues DEF Absolute
      <4>3. g[2][2].kind # "ifunc"
        BY <2>2, <3>5, <4>1 DEF NotHonoured
      <4> QED
        BY <1>6, <2>2, <3>1, <4>2, <4>3
    <3> QED
      BY <3>3, <3>4, <3>5
  <2> QED
    BY <2>4, <2>5, <2>6, <2>7
<1> QED
  BY <1>7, <1>8

LEMMA GotReaches ==
    ASSUME Linked, NEW x \in DOMAIN words, x \in LiveWith(world, plan, {"GOTPCREL", "GOT64"}), ~NotHonoured(x)
    PROVE  Reached(x) = FormMeant(x)
<1> DEFINE n == NameAt(world, x)
<1>1. Ref(world, x).type \in {"GOTPCREL", "GOT64"} /\ x \in LiveWith(world, plan, Types) /\ x \in Sites(world)
  BY DEF LiveWith, Types, GotTypes
<1>2. words[x] = WordIn(world, plan, x)
  BY <1>1, WrittenWord
<1>3. AtWord(x).value[2] = n
  <2>1. CASE Ref(world, x).type = "GOTPCREL"
    <3>1. words[x] = Rel(<<"got", n>>)
      BY <1>2, <2>1 DEF WordIn
    <3> QED
      BY <2>1, <3>1, EntryWord
  <2>2. CASE Ref(world, x).type = "GOT64"
    <3>1. words[x] = FromGot(<<"got", n>>)
      BY <1>2, <2>2 DEF WordIn
    <3>2. mode = "static"
      <4>1. world.mode # "static_pie"
        BY <1>1, <2>2, LinkedFacts DEF PieFine, PieTypes, PcTypes
      <4>2. ~LoadedIn(world)
        <5>1. LoadedIn(world) => SupportedIn(world, x)
          BY <1>1, LinkedFacts DEF SettledRest
        <5> QED
          BY <2>2, <5>1 DEF SupportedIn, TlsTypes, LdTypes, DescTypes
      <4> QED
        BY <4>1, <4>2, LinkedFacts DEF LoadedIn, Modes
    <3>3. AtWord(x) = FromGot(<<"got", n>>)
      BY <2>2, <3>1, <3>2, OtherWord, MovedValues
    <3> QED
      BY <3>3, FormsOfValues
  <2> QED
    BY <1>1, <2>1, <2>2
<1>4. Reached(x) = Entry("got", n)
  BY <1>1, <1>3, ReachedWays
<1> QED
  BY <1>1, <1>4, GotHolds

LEMMA TpoffReaches ==
    ASSUME Linked, NEW x \in DOMAIN words, x \in LiveWith(world, plan, {"GOTTPOFF"})
    PROVE  Reached(x) = FormMeant(x)
<1> DEFINE n == NameAt(world, x)
<1>1. Ref(world, x).type = "GOTTPOFF" /\ x \in LiveWith(world, plan, Types) /\ x \in Sites(world)
      /\ x \in LiveWith(world, plan, GotTypes \cup {"GOTTPOFF"})
  BY DEF LiveWith, Types, TlsTypes
<1>2. words[x] = WordIn(world, plan, x)
  BY <1>1, WrittenWord
<1>3. words[x] = Rel(<<"tlsgot", n>>)
  BY <1>1, <1>2 DEF WordIn
<1>4. AtWord(x).value[2] = n
  BY <1>1, <1>3, EntryWord
<1>5. Reached(x) = Entry("tlsgot", n)
  BY <1>1, <1>4, ReachedWays
<1>6. FormMeant(x) = In("tpoff", Meant(x))
  BY <1>1 DEF FormMeant, Ref, objects
<1>7. Nonlocal(Ref(world, x).sym)
  BY <1>1, LinkedFacts DEF CollectedIn
<1>8. CASE LoadedIn(world)
  <2>1. Dynamic /\ SettledTls(world, plan, x)
    BY <1>1, <1>8, LinkedFacts DEF LoadedIn
  <2>2. SlotPlaced(world, plan, "tlsgot", n)
    BY <1>1, <2>1 DEF SettledTls, SlotPlaced, NameAt
  <2>3. Entry("tlsgot", n) = In("tpoff", Found(Dyn(n)))
    BY <2>1, <2>2, PlacedSlot
  <2> QED
    BY <1>5, <1>6, <1>7, <1>8, <2>3, FoundIsMeant
<1>9. CASE ~LoadedIn(world)
  <2>1. plan.ie = {}
    BY <1>9, LinkedFacts, EmptyPlanFacts
  <2>2. ~SlotPlaced(world, plan, "tlsgot", n) /\ (loader = {} \/ Dynamic)
    BY <2>1, LinkedFacts DEF SlotPlaced
  <2>3. Entry("tlsgot", n) = Moved(slots[<<"tlsgot", n>>])
    BY <2>2, UnplacedSlot
  <2>4. slots[<<"tlsgot", n>>] = In("tpoff", GlobalIn(world, n))
    <3>1. PICK e : e = <<"tlsgot", n>>
      OBVIOUS
    <3>2. e[1] = "tlsgot" /\ e[2] = n
      BY <3>1
    <3>3. n \in NamesIn(world, plan, {"GOTTPOFF"})
      BY DEF NamesIn
    <3>4. e \in DOMAIN slots
      BY <3>1, <3>3, LinkedFacts DEF SyntheticIn
    <3>5. slots[e] = SlotIn(world, plan, "loaded", e)
      BY <3>4, LinkedFacts
    <3>6. SlotIn(world, plan, "loaded", e) = In("tpoff", GlobalIn(world, n))
      BY <1>9, <3>2 DEF SlotIn, TlsPatched
    <3> QED
      BY <3>1, <3>5, <3>6
  <2>5. Moved(slots[<<"tlsgot", n>>]) = In("tpoff", GlobalIn(world, n))
    BY <2>4, MovedValues
  <2>6. Meant(x) = GlobalIn(world, n)
    BY <1>7, <1>9, OwnIsMeant, GlobalOwn
  <2> QED
    BY <1>5, <1>6, <2>3, <2>5, <2>6
<1> QED
  BY <1>8, <1>9

(* Words that only a static link writes.                                   *)
LEMMA StaticWordReaches ==
    ASSUME Linked, NEW x \in DOMAIN words, x \in LiveWith(world, plan, {"GOTPC32", "GOTOFF64", "SIZE32", "TPOFF32", "DTPOFF32"}),
           ~NotHonoured(x)
    PROVE  Reached(x) = FormMeant(x)
<1>1. Ref(world, x).type \in {"GOTPC32", "GOTOFF64", "SIZE32", "TPOFF32", "DTPOFF32"} /\ x \in LiveWith(world, plan, Types)
      /\ x \in Sites(world) /\ LiveIn(world, plan, x)
  BY DEF LiveWith, Types, GotTypes, PieTypes, TlsTypes, LdTypes
<1>2. words[x] = WordIn(world, plan, x)
  BY <1>1, WrittenWord
<1>3. LoadedIn(world) => SupportedIn(world, x) /\ SettledTls(world, plan, x)
  BY <1>1, LinkedFacts DEF SettledRest
<1>4. ~LoadedIn(world)
  <2>1. CASE Ref(world, x).type = "DTPOFF32"
    BY <1>1, <1>3, <2>1 DEF SettledTls, LiveIn, MaskedIn
  <2>2. CASE Ref(world, x).type # "DTPOFF32"
    BY <1>1, <1>3, <2>2 DEF SupportedIn, TlsTypes, LdTypes, DescTypes
  <2> QED
    BY <2>1, <2>2
<1>5. Ref(world, x).type \notin {"TPOFF32", "DTPOFF32"}
  <2>1. Ref(world, x).type # "TPOFF32"
    BY <1>1, <1>4 DEF LiveIn
  <2>2. Ref(world, x).type # "DTPOFF32"
    BY <1>4, StateOfWorld DEF NotHonoured, Ref
  <2> QED
    BY <2>1, <2>2
<1>6. Meant(x) = OwnIn(world, x)
  BY <1>4, OwnIsMeant
<1>7. ValueIn(world, plan, x) = OwnIn(world, x)
  <2>1. plan.plt = {}
    BY <1>4, LinkedFacts, EmptyPlanFacts
  <2> QED
    BY <2>1 DEF ValueIn
<1>8. Reached(x) = AtWord(x) /\ AtWord(x) = Moved(words[x])
  BY <1>1, ReachedWays, OtherWord DEF PcTypes
<1>9. CASE Ref(world, x).type = "SIZE32"
  <2>1. words[x] = In("size", OwnIn(world, x))
    BY <1>2, <1>7, <1>9 DEF WordIn
  <2>2. FormMeant(x) = In("size", Meant(x))
    BY <1>9 DEF FormMeant, Ref, objects
  <2> QED
    BY <1>6, <1>8, <2>1, <2>2, MovedValues
<1>10. CASE Ref(world, x).type \in {"GOTPC32", "GOTOFF64"}
  <2>1. mode = "static"
    <3>1. world.mode # "static_pie"
      BY <1>1, <1>10, LinkedFacts DEF PieFine, PieTypes, PcTypes
    <3> QED
      BY <1>4, <3>1, LinkedFacts DEF LoadedIn, Modes
  <2>2. CASE Ref(world, x).type = "GOTPC32"
    <3>1. words[x] = Rel(<<"got", "">>)
      BY <1>2, <2>2 DEF WordIn
    <3>2. FormMeant(x) = Rel(<<"got", "">>)
      BY <2>2 DEF FormMeant, Ref, objects
    <3> QED
      BY <1>8, <2>1, <3>1, <3>2, MovedValues
  <2>3. CASE Ref(world, x).type = "GOTOFF64"
    <3>1. words[x] = FromGot(OwnIn(world, x))
      BY <1>2, <1>7, <2>3 DEF WordIn
    <3>2. FormMeant(x) = FromGot(Meant(x))
      BY <2>3 DEF FormMeant, Ref, objects
    <3> QED
      BY <1>6, <1>8, <2>1, <3>1, <3>2, MovedValues
  <2> QED
    BY <1>10, <2>2, <2>3
<1> QED
  BY <1>1, <1>5, <1>9, <1>10

(* Distances: to the definition itself, or to a PLT entry whose GOT word   *)
(* the loader fills.                                                       *)
LEMMA DistanceReaches ==
    ASSUME Linked, NEW x \in DOMAIN words, Ref(world, x).type \in PcTypes, words[x] = Rel(OwnIn(world, x)),
           mode = "static" \/ (OwnIn(world, x) # Zero /\ ~Absolute(OwnIn(world, x))),
           Meant(x) = OwnIn(world, x), ~NotHonoured(x)
    PROVE  Reached(x) = FormMeant(x)
<1> DEFINE v == OwnIn(world, x)
<1>1. AtWord(x) = Moved(Rel(v))
  BY OtherWord DEF PcTypes
<1>2. Moved(Rel(v)) = Rel(v)
  BY MovedValues
<1>3. v[1] # "plt"
  BY OwnShape
<1>4. AtWord(x).form = "distance" /\ AtWord(x).value = v
  BY <1>1, <1>2, FormsOfValues
<1>5. Reached(x) = Abs(v)
  BY <1>3, <1>4, ReachedWays
<1>6. FormMeant(x) = Abs(Meant(x))
  BY PlainMeaning DEF PcTypes
<1> QED
  BY <1>5, <1>6

LEMMA PcReaches ==
    ASSUME Linked, NEW x \in DOMAIN words, x \in LiveWith(world, plan, PcTypes), ~NotHonoured(x)
    PROVE  Reached(x) = FormMeant(x)
<1> DEFINE n == NameAt(world, x)
           s == Ref(world, x).sym
           v == OwnIn(world, x)
<1>1. Ref(world, x).type \in PcTypes /\ x \in LiveWith(world, plan, Types) /\ x \in Sites(world) /\ LiveIn(world, plan, x)
  BY DEF LiveWith, Types, PieTypes
<1>2. words[x] = WordIn(world, plan, x)
  BY <1>1, WrittenWord
<1>3. words[x] = Rel(IF Ref(world, x).type = "PLT32" /\ n \in plan.plt THEN <<"plt", n>> ELSE ValueIn(world, plan, x))
  BY <1>1, <1>2 DEF WordIn, PcTypes
<1>4. v # Zero /\ Absolute(v) <=> (~Nonlocal(s) /\ s.abs) \/ (Nonlocal(s) /\ Known(world, n) /\ DefOf(world, n).abs)
  BY OwnShape DEF Absolute
<1>5. s \in Symbol /\ s = Ref(world, x).sym
  BY <1>1, LinkedFacts, SiteTyped
<1>6. CASE ~LoadedIn(world)
  <2>1. plan.plt = {} /\ Meant(x) = v
    BY <1>6, LinkedFacts, EmptyPlanFacts, OwnIsMeant
  <2>2. words[x] = Rel(v)
    BY <1>3, <2>1 DEF ValueIn
  <2>3. mode = "static" \/ (v # Zero /\ ~Absolute(v))
    <3> SUFFICES ASSUME world.mode = "static_pie" PROVE v # Zero /\ ~Absolute(v)
      BY <1>6, LinkedFacts DEF LoadedIn, Modes
    <3>1. PieFine(world, x)
      BY <1>1, LinkedFacts
    <3>2. ~PatchedIn(world, plan, x)
      BY <1>1, <1>6 DEF PatchedIn, PcTypes
    <3>3. ValuedIn(world, x)
      BY <1>6, <3>2, WrittenWord
    <3>4. s.abs => s.def
      BY <1>5 DEF Symbol
    <3>5. v # Zero
      BY <1>1, <3>1, <3>3, OwnShape DEF PieFine, ValuedIn, NameAt
    <3>6. ~(~Nonlocal(s) /\ s.abs)
      BY <1>1, <3>1, <3>4 DEF PieFine
    <3>7. ~(Nonlocal(s) /\ Known(world, n) /\ DefOf(world, n).abs)
      BY <1>1, <3>1 DEF PieFine, NameAt
    <3> QED
      BY <1>4, <3>5, <3>6, <3>7
  <2> QED
    BY <1>1, <2>1, <2>2, <2>3, DistanceReaches
<1>7. CASE LoadedIn(world)
  <2>1. Dynamic /\ GoodPlan(world, plan) /\ SettledRest(world, plan, x) /\ mode # "static_pie" /\ Loaded
    BY <1>1, <1>7, LinkedFacts, StateOfWorld DEF LoadedIn
  <2>2. CASE ~Nonlocal(s)
    <3>1. Meant(x) = v /\ v[1] = "def" /\ v[2][2] = s /\ v # Zero
      BY <2>2, OwnIsMeant, OwnShape
    <3>2. ~s.abs /\ ~(Ref(world, x).type = "PLT32" /\ n \in plan.plt)
      BY <1>1, <2>1, <2>2, <3>1 DEF NotHonoured, Ref, NameAt, objects
    <3>3. words[x] = Rel(v)
      BY <1>3, <2>2, <3>2 DEF ValueIn
    <3> QED
      BY <1>1, <1>4, <2>2, <3>1, <3>2, <3>3, DistanceReaches
  <2>3. CASE Nonlocal(s) /\ Ref(world, x).type = "PLT32" /\ n \in plan.plt
    <3>1. words[x] = Rel(<<"plt", n>>)
      BY <1>3, <2>3
    <3>2. AtWord(x).form = "distance" /\ AtWord(x).value[1] = "plt" /\ AtWord(x).value[2] = n
      <4>1. AtWord(x) = Rel(<<"plt", n>>) /\ AtWord(x).value[1] = "plt" /\ AtWord(x).value[2] = n
        BY <2>3, <3>1, EntryWord
      <4> QED
        BY <4>1, FormsOfValues
    <3>3. Reached(x) = Entry("pltgot", n)
      BY <1>1, <3>2, ReachedWays
    <3>4. SlotPlaced(world, plan, "pltgot", n)
      BY <2>3 DEF SlotPlaced
    <3>5. Entry("pltgot", n) = In("address", Found(Dyn(n)))
      BY <2>1, <3>4, PlacedSlot
    <3>6. Found(Dyn(n)) = Meant(x)
      BY <1>7, <2>3, FoundIsMeant
    <3>7. FormMeant(x) = Abs(Meant(x))
      BY <2>3, PlainMeaning DEF PcTypes
    <3> QED
      BY <3>3, <3>5, <3>6, <3>7, FormsOfValues
  <2>4. CASE Nonlocal(s) /\ ~(Ref(world, x).type = "PLT32" /\ n \in plan.plt)
    <3>1. Known(world, n)
      BY <1>1, <2>1, <2>4 DEF SettledRest, PcTypes, LiveIn, MaskedIn, NameAt
    <3>2. Ref(world, x).type = "PC32" => world.mode = "pie"
      BY <2>1 DEF SettledRest, SupportedIn, TlsTypes, LdTypes, DescTypes
    <3>3. Ref(world, x).type = "PLT32" => Protected(DefOf(world, n))
      BY <2>1, <2>4, <3>1 DEF SettledRest, NameAt
    <3>4. world.mode = "pie" \/ DefOf(world, n).vis # "default"
      BY <1>1, <3>2, <3>3 DEF PcTypes, Protected
    <3>5. ~DefOf(world, n).abs
      BY <1>1, <2>1, <2>4, <3>1, <3>3 DEF SettledRest, PcTypes, Protected, NameAt
    <3>6. Meant(x) = v
      BY <3>1, <3>4, OwnIsMeant
    <3>7. words[x] = Rel(v)
      BY <1>3, <2>4, <3>1 DEF ValueIn, NameAt
    <3>8. v # Zero /\ ~Absolute(v)
      BY <1>4, <2>4, <3>1, <3>5, OwnShape
    <3> QED
      BY <1>1, <3>6, <3>7, <3>8, DistanceReaches
  <2> QED
    BY <2>2, <2>3, <2>4
<1> QED
  BY <1>6, <1>7

(* Pointers that move with the image, or stay.                             *)
LEMMA PointerReaches ==
    ASSUME Linked, NEW x \in DOMAIN words, x \in LiveWith(world, plan, {"64"}), ~NotHonoured(x)
    PROVE  Reached(x) = FormMeant(x)
<1> DEFINE n == NameAt(world, x)
           v == OwnIn(world, x)
<1>1. Ref(world, x).type = "64" /\ x \in LiveWith(world, plan, Types) /\ x \in Sites(world) /\ LiveIn(world, plan, x)
      /\ x \notin plan.sites
  BY DEF LiveWith, Types, PieTypes, LiveIn, MaskedIn
<1>2. words[x] = WordIn(world, plan, x)
  BY <1>1, WrittenWord
<1>3. words[x] = Abs(ValueIn(world, plan, x))
  BY <1>1, <1>2 DEF WordIn
<1>4. Reached(x) = AtWord(x)
  BY <1>1, ReachedWays DEF PcTypes
<1>5. /\ FormMeant(x) = IF Meant(x)[1] = "def" /\ Meant(x)[2][2].kind = "ifunc" THEN In("chosen", Meant(x)) ELSE Abs(Meant(x))
      /\ mode # "static_pie" => FormMeant(x) = Abs(Meant(x))
  BY <1>1, PlainMeaning DEF PcTypes
<1>6. Found(v) = v
  BY OwnShape
<1>7. CASE ~LoadedIn(world)
  <2>1. plan.plt = {} /\ Meant(x) = v
    BY <1>7, LinkedFacts, EmptyPlanFacts, OwnIsMeant
  <2>2. words[x] = Abs(v)
    BY <1>3, <2>1 DEF ValueIn
  <2>3. CASE world.mode = "static"
    <3>1. AtWord(x) = Moved(words[x])
      BY <2>3, LinkedFacts, UnplacedWord
    <3>2. mode = "static"
      BY <2>3, LinkedFacts
    <3> QED
      BY <1>4, <1>5, <2>1, <2>2, <3>1, <3>2, MovedValues
  <2>4. CASE world.mode = "static_pie" /\ v # Zero
    <3>1. Dynamic /\ WordPlaced(world, plan, x)
      BY <2>4, LinkedFacts DEF WordPlaced
    <3>2. AtWord(x) = In(IF v[2][2].kind = "ifunc" THEN "chosen" ELSE "address", v)
      BY <1>1, <1>6, <1>7, <3>1, PlacedWord DEF AtWord
    <3>3. v[1] = "def"
      BY <2>4, OwnShape
    <3> QED
      BY <1>4, <1>5, <2>1, <3>2, <3>3, FormsOfValues
  <2>5. CASE world.mode = "static_pie" /\ v = Zero
    <3>1. Dynamic /\ ~WordPlaced(world, plan, x)
      BY <1>1, <2>5, LinkedFacts DEF WordPlaced
    <3>2. AtWord(x) = Moved(words[x])
      BY <3>1, UnplacedWord
    <3>3. v[1] = "zero"
      BY <2>5, OwnShape
    <3> QED
      BY <1>4, <1>5, <2>1, <2>2, <2>5, <3>2, <3>3, MovedValues
  <2> QED
    BY <1>7, <2>3, <2>4, <2>5, LinkedFacts DEF LoadedIn, Modes
<1>8. CASE LoadedIn(world)
  <2>1. Dynamic /\ SettledRest(world, plan, x) /\ mode # "static_pie"
    BY <1>1, <1>8, LinkedFacts DEF LoadedIn
  <2>2. Nonlocal(Ref(world, x).sym) => Known(world, n) /\ Protected(DefOf(world, n))
    BY <1>1, <2>1 DEF SettledRest, NameAt
  <2>3. Meant(x) = v
    BY <2>2, OwnIsMeant DEF Protected
  <2>4. v # Zero
    BY <2>2, OwnShape
  <2>5. WordPlaced(world, plan, x)
    BY <2>4 DEF WordPlaced
  <2>6. AtWord(x) = In("address", v)
    BY <1>1, <1>6, <1>8, <2>1, <2>5, PlacedWord DEF AtWord
  <2> QED
    BY <1>4, <1>5, <2>1, <2>3, <2>6, FormsOfValues
<1> QED
  BY <1>7, <1>8

(* In every image that is linked, of any objects in any order, each        *)
(* reference leads at any address to the symbol it was written for, or is  *)
(* of one of the four kinds listed with the property.                      *)
THEOREM ReferencesReach == ReferencesSpec => []ReferencesReachTheirSymbols
<1>1. PlanInv /\ WrittenInv => ReferencesReachTheirSymbols
  <2> SUFFICES ASSUME PlanInv, WrittenInv, phase = "loaded", NEW x \in DOMAIN words \cup plan.sites, ~NotHonoured(x)
               PROVE  Reached(x) = FormMeant(x)
    BY DEF ReferencesReachTheirSymbols
  <2>1. Linked
    BY DEF Linked
  <2>2. CASE x \in plan.sites
    BY <2>1, <2>2, NamedPointerReaches
  <2>3. CASE x \in DOMAIN words /\ PatchedIn(world, plan, x)
    BY <2>1, <2>3, PatchedReaches
  <2>4. CASE x \in DOMAIN words /\ x \in LiveWith(world, plan, Types)
    <3>1. Types = EntryTypes \cup PcTypes
                    \cup {"GOTPCREL", "GOT64", "GOTTPOFF", "GOTPC32", "GOTOFF64", "SIZE32", "TPOFF32", "DTPOFF32", "64"}
      BY DEF Types, EntryTypes, TlsTypes, LdTypes, DescTypes, GotTypes, PieTypes, PcTypes
    <3>2. \/ x \in LiveWith(world, plan, EntryTypes) \/ x \in LiveWith(world, plan, PcTypes)
          \/ x \in LiveWith(world, plan, {"GOTPCREL", "GOT64"}) \/ x \in LiveWith(world, plan, {"GOTTPOFF"})
          \/ x \in LiveWith(world, plan, {"GOTPC32", "GOTOFF64", "SIZE32", "TPOFF32", "DTPOFF32"})
          \/ x \in LiveWith(world, plan, {"64"})
      BY <2>4, <3>1 DEF LiveWith
    <3> QED
      BY <2>1, <2>4, <3>2, ThreadLocalReaches, PcReaches, GotReaches, TpoffReaches, StaticWordReaches, PointerReaches
  <2> QED
    BY <2>1, <2>2, <2>3, <2>4, WrittenWord
<1> QED
  BY <1>1, PlansAccountForReferences, WordsFollowThePlan, PTL
====
