----------------------------- MODULE RelocatedWords -----------------------------
(***************************************************************************)
(* What becomes of the planned references: the GOT and PLT entries are     *)
(* collected, the tables applied with the planned words masked out, the    *)
(* thread-local and copied words patched afterwards, and the relocations   *)
(* the loader or the start-up code shall apply written down                *)
(* (relocated_sections.rs, link_relocations.rs, tls.rs, shared_object.rs,  *)
(* pie_runtime.rs).  Then the image is loaded at any address and every     *)
(* reference must lead to its symbol.                                      *)
(*                                                                         *)
(* A value is a place: a definition <<"def", <<object, symbol>>>>, an entry*)
(* such as <<"got", name>>, the storage of a copied object, or what the    *)
(* loader finds for a name, <<"dyn", name>>.  A word or slot is a value in *)
(* one of the forms of evaluate_relocation.                                *)
(***************************************************************************)
EXTENDS ImportPlan

Zero == <<"zero", "">>
Def(d) == <<"def", d>>
Local(o, s) == Def(<<o, s>>)
Abs(v)     == [form |-> "address", value |-> v]
Rel(v)     == [form |-> "distance", value |-> v]     \* from its own place
FromGot(v) == [form |-> "from_got", value |-> v]
In(f, v)   == [form |-> f, value |-> v]              \* "size", "tpoff", "dtpoff"

(* mask_deferred_relocations; the static links set TPOFF32 aside.          *)
Masked == plan.sites \cup plan.copySites \cup plan.dtpoffSites \cup plan.descSites
Live(x) == x \notin Masked /\ ~(~Loaded /\ RefAt(objects, x).type = "TPOFF32")
LiveSites(types) == {x \in SitesOf(objects) : Live(x) /\ RefAt(objects, x).type \in types}
NamesAt(S)    == {RefAt(objects, x).sym.name : x \in S}
SymbolsAt(S)  == {RefAt(objects, x).sym : x \in S}

-------------------------------------------------------------------------------
(* The synthetic entries: one slot for every name, whatever the number of  *)
(* its references.  A planned entry must still have a reference.           *)
GotNames    == NamesAt(LiveSites(GotTypes))
TlsGotNames == NamesAt(LiveSites({"GOTTPOFF"}))
ExternalTlsGot == plan.ie \cap DOMAIN plan.imports
Synthetic ==
    ({"got"} \X GotNames) \cup ({"tlsgot"} \X TlsGotNames) \cup ({"gd", "gdoff"} \X plan.gd)
      \cup ({"desc"} \X plan.desc) \cup ({"pltgot"} \X plan.plt)
      \cup IF plan.ld THEN {<<"ld", "">>} ELSE {}

CollectRefusal ==
    CASE \E s \in SymbolsAt(LiveSites(GotTypes \cup {"GOTTPOFF"})) : ~Nonlocal(s) -> "UnsupportedGotBinding"
      [] \E s \in SymbolsAt(LiveSites({"GOTTPOFF"})) : s.kind # "tls" -> "NonTlsGotSymbol"
      [] ~(plan.got \subseteq GotNames) -> "MissingExternalGotSymbol"
      [] ~(ExternalTlsGot \subseteq TlsGotNames) -> "MissingExternalTlsGotSymbol"
      [] ~(plan.gd \subseteq NamesAt(LiveSites({"TLSGD"}))) -> "MissingTlsGdSymbol"
      [] plan.ld /\ LiveSites({"TLSLD"}) = {} -> "MissingTlsLdRelocation"
      [] ~(plan.desc \subseteq NamesAt(LiveSites({"GOTPC32_TLSDESC"}))) -> "MissingTlsGdSymbol"
      [] ~(plan.plt \subseteq NamesAt(LiveSites({"PLT32"}))) -> "MissingExternalPltSymbol"
      [] OTHER -> "none"

(* The tables are applied one after the other, non-allocated targets none. *)
FirstTable(tables) == CHOOSE p \in tables : \A q \in tables : p[1] < q[1] \/ (p[1] = q[1] /\ p[2] <= q[2])
Allocated == {p \in TablesOf(objects) : "alloc" \in TableAt(objects, p).flags}
After(p)  == {q \in Allocated : q[1] > p[1] \/ (q[1] = p[1] /\ q[2] > p[2])}
GoTo(tables, then) ==
    IF tables = {} THEN phase' = then /\ UNCHANGED at
    ELSE phase' = "tables" /\ at' = FirstTable(tables) \o <<1>>

Collect ==
    /\ phase = "collect"
    /\ IF CollectRefusal # "none" THEN Refuse(CollectRefusal)
       ELSE GoTo(Allocated, "slots") /\ UNCHANGED <<world, plan, words, slots, loader, error>>

-------------------------------------------------------------------------------
(* The value of a symbol in a table: the first relocation that names it    *)
(* looks it up, and sees which relocations name it besides.                *)
InTable(s) == {x \in LiveSites(Types) : x[1] = at[1] /\ x[2] = at[2] /\ RefAt(objects, x).sym = s}
TypesOf(s) == {RefAt(objects, x).type : x \in InTable(s)}
SyntheticTlsOfImage(s) ==
    \A t \in TypesOf(s) : \/ t = "TLSGD" /\ s.name \in plan.gd
                          \/ t = "GOTTPOFF" /\ s.name \in ExternalTlsGot
SyntheticTls(s) ==
    \A t \in TypesOf(s) : \/ t = "TLSGD" /\ s.name \in plan.gd
                          \/ t = "GOTPC32_TLSDESC" /\ s.name \in plan.desc
                          \/ t = "GOTTPOFF" /\ s.name \in ExternalTlsGot
HasNoValue(s) ==
    /\ Nonlocal(s) /\ s.name \notin Defined
    /\ ~(s.name \in plan.plt /\ "PLT32" \in TypesOf(s))
    /\ s.bind # "weak"
    /\ ~(s.name \in plan.got /\ TypesOf(s) \subseteq {"GOTPCREL"})
    /\ ~SyntheticTls(s)
Value(s) ==
    IF ~Nonlocal(s) THEN Local(at[1], s)
    ELSE IF s.name \in Defined THEN Def(Definitions[s.name])
    ELSE IF s.name \in plan.plt /\ "PLT32" \in TypesOf(s) THEN <<"plt", s.name>>
    ELSE Zero

(* An entry that the table names and nobody asked for.                     *)
HasNoEntry(r) ==
    \/ r.type = "TLSGD" /\ r.sym.name \notin plan.gd
    \/ r.type = "GOTPC32_TLSDESC" /\ r.sym.name \notin plan.desc
    \/ r.type = "TLSLD" /\ ~plan.ld
    \/ r.type = "TLSDESC_CALL"             \* evaluate_relocation knows no such type

WordOf(r) ==
    LET n == r.sym.name
    IN CASE r.type = "SIZE32"   -> In("size", Value(r.sym))
         [] r.type = "GOTPC32"  -> Rel(<<"got", "">>)
         [] r.type = "GOT64"    -> FromGot(<<"got", n>>)
         [] r.type = "GOTPCREL" -> Rel(<<"got", n>>)
         [] r.type = "GOTTPOFF" -> Rel(<<"tlsgot", n>>)
         [] r.type = "TLSGD"    -> Rel(<<"gd", n>>)
         [] r.type = "GOTPC32_TLSDESC" -> Rel(<<"desc", n>>)
         [] r.type = "TLSLD"    -> Rel(<<"ld", "">>)
         [] r.type = "PLT32"    -> Rel(IF n \in plan.plt THEN <<"plt", n>> ELSE Value(r.sym))
         [] r.type = "GOTOFF64" -> FromGot(Value(r.sym))
         [] r.type = "PC32"     -> Rel(Value(r.sym))
         [] OTHER               -> Abs(Value(r.sym))

ApplyTable ==
    /\ phase = "tables"
    /\ LET here == {x \in LiveSites(Types) : x[1] = at[1] /\ x[2] = at[2]} IN
       IF \E s \in SymbolsAt(here) : HasNoValue(s) THEN Refuse("MissingGlobalAddress")
       ELSE IF \E x \in here : HasNoEntry(RefAt(objects, x)) THEN Refuse("MissingEntry")
       ELSE /\ words' = [x \in DOMAIN words \cup here |->
                           IF x \in here THEN WordOf(RefAt(objects, x)) ELSE words[x]]
            /\ GoTo(After(at), "slots")
            /\ UNCHANGED <<world, plan, slots, loader, error>>

(* The link-time bytes of the entries.                                     *)
WeakSomewhere(n) == \E o \in DOMAIN objects : \E s \in objects[o].symbols :
                       s.name = n /\ s.bind = "weak" /\ ~s.def
SlotOf(e) ==
    IF e[1] = "pltgot" THEN Abs(<<"lazy", e[2]>>)
    ELSE IF e[1] = "got" /\ e[2] \notin plan.got /\ e[2] \in Defined THEN Abs(Def(Definitions[e[2]]))
    ELSE Abs(Zero)

FillSlots ==
    /\ phase = "slots"
    /\ IF \E n \in GotNames \ (plan.got \cup Defined) : ~WeakSomewhere(n)
       THEN Refuse("MissingGotSymbolAddress")
       ELSE /\ slots' = [e \in Synthetic |-> SlotOf(e)]
            /\ phase' = IF Loaded THEN "patch" ELSE "static_tls"
            /\ UNCHANGED <<world, at, plan, words, loader, error>>

-------------------------------------------------------------------------------
(* Static links: TPOFF32 words and the TLS GOT hold offsets from the thread*)
(* pointer, for definitions inside the TLS image.                          *)
TpoffSites == {x \in SitesOf(objects) : ~Loaded /\ RefAt(objects, x).type = "TPOFF32"}
HasTlsImage == \E o \in DOMAIN objects : \E s \in objects[o].symbols : s.kind = "tls" /\ s.def
InTlsImage(v) == v[1] = "def" /\ v[2][2].kind = "tls"
GlobalValue(n) == IF n \in Defined THEN Def(Definitions[n]) ELSE Zero
TpoffValue(x) == LET s == RefAt(objects, x).sym
                 IN IF Nonlocal(s) THEN GlobalValue(s.name) ELSE Local(x[1], s)

StaticTlsRefusal ==
    IF TpoffSites = {} /\ TlsGotNames = {} THEN "none"
    ELSE
    CASE ~HasTlsImage -> "MissingTlsLayout"
      [] ~(TlsGotNames \subseteq Defined) -> "MissingGlobalAddress"
      [] \E n \in TlsGotNames : ~InTlsImage(GlobalValue(n)) -> "SymbolOutsideTlsImage"
      [] \E x \in TpoffSites : "alloc" \notin TableAt(objects, x).flags -> "MissingRelocatedTarget"
      [] \E x \in TpoffSites : RefAt(objects, x).sym.kind # "tls" -> "NonTlsSymbol"
      [] \E x \in TpoffSites : TpoffValue(x) = Zero -> "MissingGlobalAddress"
      [] \E x \in TpoffSites : ~InTlsImage(TpoffValue(x)) -> "SymbolOutsideTlsImage"
      [] OTHER -> "none"

StaticTls ==
    /\ phase = "static_tls"
    /\ IF StaticTlsRefusal # "none" THEN Refuse(StaticTlsRefusal)
       ELSE /\ slots' = [e \in DOMAIN slots |->
                           IF e[1] = "tlsgot" THEN In("tpoff", GlobalValue(e[2])) ELSE slots[e]]
            /\ words' = [x \in DOMAIN words \cup TpoffSites |->
                           IF x \in TpoffSites THEN In("tpoff", TpoffValue(x)) ELSE words[x]]
            /\ phase' = IF mode = "static_pie" THEN "loader" ELSE "loaded"
            /\ UNCHANGED <<world, at, plan, loader, error>>

(* Loaded images: the masked PC32 words get the distance to the storage of *)
(* their copy, the masked DTPOFF32 words the offset in the module's image. *)
CopyWord(x) == Rel(<<"copy", RefAt(objects, x).sym.name>>)
DtpoffWord(x) == In("dtpoff", Local(x[1], RefAt(objects, x).sym))
Patch ==
    /\ phase = "patch"
    /\ IF \E x \in plan.copySites : "alloc" \notin TableAt(objects, x).flags
       THEN Refuse("MissingCopyRelocationTarget")
       ELSE /\ words' = [x \in DOMAIN words \cup plan.copySites \cup plan.dtpoffSites |->
                           CASE x \in plan.copySites   -> CopyWord(x)
                             [] x \in plan.dtpoffSites -> DtpoffWord(x)
                             [] OTHER -> words[x]]
            /\ phase' = "loader"
            /\ UNCHANGED <<world, at, plan, slots, loader, error>>

-------------------------------------------------------------------------------
(* The relocations left to the loader: a type, the place and the value.    *)
(* collect_runtime_relocations writes one for every live pointer and every *)
(* GOT entry of a definition in the image.                                 *)
Runtime(type, place, value) == [type |-> type, place |-> place, value |-> value]
Word(x) == <<"word", x>>
Slot(e, n) == <<"slot", <<e, n>>>>

PointersOfInput == {x \in SitesOf(objects) : RefAt(objects, x).type = "64"}
Pointers == LiveSites({"64"})
ImageGotOfStatic == IF Loaded THEN {} ELSE GotNames
ImageGot == IF Loaded THEN plan.relativeGot ELSE GotNames
DefinedByImage(n) == n \in Defined /\ ~Definitions[n][2].abs
RelativeTo(place, v) ==
    Runtime(IF ~Loaded /\ v[2][2].kind = "ifunc" THEN "IRELATIVE" ELSE "RELATIVE", place, v)
PointerValue(x) == LET s == RefAt(objects, x).sym
                   IN IF Nonlocal(s) THEN GlobalValue(s.name) ELSE Local(x[1], s)
RelativeRelocations ==
    {RelativeTo(Word(x), PointerValue(x)) : x \in {y \in Pointers : PointerValue(y) # Zero}}
      \cup {RelativeTo(Slot("got", n), Def(Definitions[n])) : n \in {m \in ImageGot : DefinedByImage(m)}}

(* Relocations by symbol: one for each planned name or site.               *)
Dyn(n) == <<"dyn", n>>
BySlot(type, e, names) == {Runtime(type, Slot(e, n), Dyn(n)) : n \in names}
SymbolRelocations ==
    {Runtime("COPY", <<"copy", n>>, Dyn(n)) : n \in plan.copy}
      \cup {Runtime("64", Word(x), Dyn(RefAt(objects, x).sym.name)) : x \in plan.sites}
      \cup BySlot("GLOB_DAT", "got", plan.got)
      \cup BySlot("DTPMOD64", "gd", plan.gd) \cup BySlot("DTPOFF64", "gdoff", plan.gd)
      \cup BySlot("TPOFF64", "tlsgot", plan.ie)
      \cup BySlot("TLSDESC", "desc", plan.desc)
      \cup BySlot("JUMP_SLOT", "pltgot", plan.plt)
ModuleRelocations == IF plan.ld THEN {Runtime("DTPMOD64", Slot("ld", ""), <<"module", "">>)} ELSE {}

(* What they name must be in the dynamic symbol table: exports, which      *)
(* include the copies, then the other imports.                             *)
Exports  == (Defined \ world.localized) \cup plan.copy
DynamicSymbols == Exports \cup DOMAIN plan.imports

LoaderRefusal ==
    CASE Loaded /\ Exports = {} -> "NoExports"
      [] \E x \in Pointers : "alloc" \notin TableAt(objects, x).flags -> "MissingTargetSection"
      [] \E x \in Pointers : "write" \notin TableAt(objects, x).flags -> "ReadOnlyTarget"
      [] \E x \in Pointers : PointerValue(x) # Zero /\ PointerValue(x)[2][2].abs -> "AbsoluteSymbol"
      [] \E r \in SymbolRelocations : r.value[2] \notin DynamicSymbols -> "MissingDynamicSymbol"
      [] OTHER -> "none"

WriteLoaderRelocations ==
    /\ phase = "loader"
    /\ IF LoaderRefusal # "none" THEN Refuse(LoaderRefusal)
       ELSE /\ loader' = RelativeRelocations \cup SymbolRelocations \cup ModuleRelocations
            /\ phase' = "loaded"
            /\ UNCHANGED <<world, at, plan, words, slots, error>>

ReferencesNext == \/ PlanNext \/ Collect \/ ApplyTable \/ FillSlots
                  \/ StaticTls \/ Patch \/ WriteLoaderRelocations
ReferencesStopped == phase \in {"loaded", "refused"} /\ UNCHANGED refVars
ReferencesSpec == PlanInit /\ [][ReferencesNext \/ ReferencesStopped]_refVars

-------------------------------------------------------------------------------
(* The image in memory, at an address nobody chose.  Addresses written at  *)
(* link time are wrong there, except those of absolute symbols, and so are *)
(* distances to them; a static executable is where it was linked.          *)
Fixed(v) == mode = "static" \/ v = Zero
Absolute(v) == v[1] = "def" /\ v[2][2].abs
Moved(w) ==
    CASE w.form = "address" /\ ~Fixed(w.value) /\ ~Absolute(w.value) -> In("moved", w.value)
      [] w.form \in {"distance", "from_got"} /\ mode # "static"
           /\ (w.value = Zero \/ Absolute(w.value)) -> In("moved", w.value)
      [] OTHER -> w

(* Whom the loader takes for a name: the executable comes first, with what *)
(* it defines and its copies; the default definitions of a shared object   *)
(* may be preempted.                                                       *)
Preempted(n) == mode = "shared" /\ n \notin world.localized /\ Definitions[n][2].vis = "default"
Found(v) ==
    LET n == v[2]
    IN IF v[1] # "dyn" THEN v
       ELSE IF n \in plan.copy THEN <<"copy", n>>
       ELSE IF n \in Defined /\ ~Preempted(n) THEN Def(Definitions[n]) ELSE v
FormOf(type) ==
    CASE type = "COPY" -> "copied"
      [] type \in {"RELATIVE", "GLOB_DAT", "JUMP_SLOT", "64"} -> "address"
      [] type = "IRELATIVE" -> "chosen"
      [] type = "DTPMOD64" -> "module"
      [] type = "DTPOFF64" -> "dtpoff"
      [] type = "TPOFF64"  -> "tpoff"
      [] type = "TLSDESC"  -> "desc"
Applied(place, linked) ==
    LET here == {r \in loader : r.place = place}
    IN IF here = {} THEN Moved(linked)
       ELSE LET r == CHOOSE q \in here : TRUE IN In(FormOf(r.type), Found(r.value))
AtWord(x) == Applied(Word(x), IF x \in DOMAIN words THEN words[x] ELSE Abs(Zero))
Entry(e, n) == Applied(Slot(e, n), slots[<<e, n>>])

(* What the instruction or pointer at a relocation arrives at: through the *)
(* PLT, its GOT entry or the pair of a thread-local descriptor.            *)
Reached(x) ==
    LET r == RefAt(objects, x)
        w == AtWord(x)
        Through(e) == Entry(e, w.value[2])
    IN CASE r.type \in PcTypes /\ w.form = "distance" ->
              IF w.value[1] = "plt" THEN Through("pltgot") ELSE Abs(w.value)
         [] r.type \in {"GOTPCREL", "GOT64"} -> Through("got")
         [] r.type = "GOTTPOFF" -> Through("tlsgot")
         [] r.type = "TLSGD" -> IF Through("gd") = In("module", Through("gdoff").value)
                                THEN Through("gdoff") ELSE In("split", w.value)
         [] r.type = "GOTPC32_TLSDESC" -> Through("desc")
         [] r.type = "TLSLD" -> Through("ld")
         [] OTHER -> w

(* What it was written for, by the symbol alone.                           *)
Meant(x) ==
    LET s == RefAt(objects, x).sym
        n == s.name
    IN IF ~Nonlocal(s) THEN Local(x[1], s)
       ELSE IF n \in Defined THEN IF Preempted(n) THEN Dyn(n) ELSE Def(Definitions[n])
       ELSE IF ~Loaded THEN Zero
       ELSE IF n \in plan.copy THEN <<"copy", n>> ELSE Dyn(n)
FormMeant(x) ==
    LET r == RefAt(objects, x)
        v == Meant(x)
    IN CASE r.type = "TLSLD"    -> In("module", <<"module", "">>)
         [] r.type = "GOTPC32"  -> Rel(<<"got", "">>)
         [] r.type = "GOTOFF64" -> FromGot(v)
         [] r.type = "SIZE32"   -> In("size", v)
         [] r.type \in {"TPOFF32", "GOTTPOFF"} -> In("tpoff", v)
         [] r.type \in {"DTPOFF32", "TLSGD"}   -> In("dtpoff", v)
         [] r.type = "GOTPC32_TLSDESC" -> In("desc", v)
         [] OTHER -> IF v[1] = "def" /\ v[2][2].kind = "ifunc" THEN In("chosen", v) ELSE Abs(v)

(* Where the tool chain accepts a reference and does not honour it:        *)
(*  - a module offset in a static link is written as an address;           *)
(*  - a distance to a local absolute symbol in a loaded image ignores that *)
(*    the image moves (a static PIE refuses it);                           *)
(*  - a local function that shares its name with a PLT entry is called     *)
(*    through the entry;                                                   *)
(*  - an IFUNC of the image is resolved only from pointers and GOT entries *)
(*    of a static PIE, unless it is absolute; elsewhere its resolver is    *)
(*    taken for it.                                                        *)
NotHonoured(x) ==
    LET r == RefAt(objects, x)
        v == Meant(x)
        d == v[2][2]
    IN \/ r.type = "DTPOFF32" /\ ~Loaded
       \/ /\ v[1] = "def"
          /\ \/ r.type \in PcTypes /\ ~Nonlocal(r.sym) /\ d.abs /\ Loaded
             \/ r.type = "PLT32" /\ ~Nonlocal(r.sym) /\ r.sym.name \in plan.plt
             \/ d.kind = "ifunc" /\ (mode # "static_pie" \/ r.type \in PcTypes \/ d.abs)

(* In every image that is linked, every reference of every object leads to *)
(* the symbol it names - the definition of the image, the one preempting   *)
(* it, the copied object - wherever the image is loaded, although plan,    *)
(* synthetic entries, words and loader relocations are settled by separate *)
(* passes with separate conditions.                                        *)
ReferencesReachTheirSymbols ==
    phase = "loaded" =>
        \A x \in DOMAIN words \cup plan.sites : NotHonoured(x) \/ Reached(x) = FormMeant(x)

(* Every allocated reference has had its word written, and the loader      *)
(* writes each word and entry once, never a word of a read-only section:   *)
(* no text relocation and no addend applied twice.                         *)
LoaderWritesOnce ==
    phase = "loaded" =>
        /\ \A x \in SitesOf(objects) :
              "alloc" \in TableAt(objects, x).flags /\ RefAt(objects, x).type # "TLSDESC_CALL" =>
                  x \in DOMAIN words \cup plan.sites
        /\ \A r \in loader : \A q \in loader : r.place = q.place => r = q
        /\ \A r \in loader : r.place[1] = "word" => Writable(TableAt(objects, r.place[2]).flags)
        /\ \A r \in loader : r.place[1] = "slot" => r.place[2] \in DOMAIN slots

(* What the plan of a loaded image has accepted the later passes carry out:*)
(* they never find an entry nobody asked for, a planned name without a     *)
(* reference or a symbol without a value, and a name is missing from the   *)
(* dynamic symbols only where a version script took it out.  Only an image *)
(* without a definition of its own has no exports besides.                 *)
Disagreements ==
    {"UnsupportedGotBinding", "NonTlsGotSymbol", "MissingExternalGotSymbol",
     "MissingExternalTlsGotSymbol", "MissingTlsGdSymbol", "MissingTlsLdRelocation",
     "MissingExternalPltSymbol", "MissingGlobalAddress", "MissingEntry", "MissingGotSymbolAddress"}
AcceptedPlansAreCarriedOut ==
    Loaded => /\ error \notin Disagreements
              /\ error = "MissingDynamicSymbol" => world.localized # {}
              /\ error = "NoExports" => world.localized # {} \/ Defined = {}
===============================================================================
