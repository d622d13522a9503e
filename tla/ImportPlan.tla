------------------------------- MODULE ImportPlan -------------------------------
(***************************************************************************)
(* validate_inputs of shared_object.rs: every relocation of a shared       *)
(* object or dynamic executable is refused or given a plane - a GOT or PLT *)
(* entry of its name, thread-local entries, executable-owned storage filled*)
(* by COPY, a relocation the loader applies - and validate_position_       *)
(* independent_inputs, the same question for a static PIE.  The sets grow  *)
(* relocation by relocation and are also read on the way, so that the order*)
(* of the input matters.                                                   *)
(***************************************************************************)
EXTENDS Naturals, Sequences, FiniteSets, SequencesExt

(* The references a link has to settle: the relocations of the input       *)
(* objects and the symbols they name.  An object is its symbols and its    *)
(* relocation tables, each table for one section; a table without entries, *)
(* which no pass does anything with, is left out.  So are bytes and        *)
(* addresses: what a patched word leads to is a place, such as a definition*)
(* or the GOT entry of a name.                                             *)
CONSTANTS
    Families,   \* names for sets of inputs
    Worlds(_)   \* the inputs of a family: the kind of image, the objects, and the names
                \* a version script keeps out of the dynamic symbols

Modes == {"static", "static_pie", "shared", "pie"}
Flags == {"alloc", "write", "exec", "tls"}
Kinds == {"object", "func", "tls", "notype", "ifunc"}

(* Relocation types; GOTPCREL stands for its four forms.                   *)
DescTypes == {"GOTPC32_TLSDESC", "TLSDESC_CALL"}
LdTypes   == {"TLSLD", "DTPOFF32"}
TlsTypes  == DescTypes \cup LdTypes \cup {"TLSGD", "GOTTPOFF"}
GotTypes  == {"GOTPCREL", "GOT64", "GOTPC32", "GOTOFF64"}   \* is_static_got_entry_type
PcTypes   == {"PC32", "PLT32"}
PieTypes  == PcTypes \cup {"GOTPCREL", "GOTTPOFF", "64", "TPOFF32", "SIZE32"}
Types     == TlsTypes \cup GotTypes \cup PieTypes

(* A section symbol has the empty name; two names are the tool chain's.    *)
GotSymbol   == "_GLOBAL_OFFSET_TABLE_"
TlsGetAddr  == "__tls_get_addr"
Symbol == {s \in [name : STRING, bind : {"local", "global", "weak"}, kind : Kinds,
                  def : BOOLEAN, vis : {"default", "protected", "hidden"}, abs : BOOLEAN] :
             s.abs => s.def}        \* one section index says which: SHN_UNDEF or SHN_ABS
Reference == [type : Types, sym : Symbol]
InputTable == [flags : SUBSET Flags, refs : Seq(Reference) \ {<<>>}]
InputObject == [symbols : SUBSET Symbol, tables : Seq(InputTable)]
WellFormed(objects) ==
    /\ objects \in Seq(InputObject) \ {<<>>}
    /\ \A o \in DOMAIN objects : \A t \in DOMAIN objects[o].tables :
          \A i \in DOMAIN objects[o].tables[t].refs :
              objects[o].tables[t].refs[i].sym \in objects[o].symbols

ASSUME WorldsAssumption ==
    \A f \in Families : \A w \in Worlds(f) :
        w.mode \in Modes /\ WellFormed(w.objects) /\ w.localized \subseteq STRING

Nonlocal(s)   == s.bind # "local"
LocalTls(s)   == s.kind = "tls" /\ ~Nonlocal(s) /\ s.def

(* The definition of every name, with the object it is in.  Worlds define  *)
(* a name once; SymbolResolution is about the others.                      *)
Defining(objects) ==
    {d \in UNION {{o} \X objects[o].symbols : o \in DOMAIN objects} :
        d[2].def /\ Nonlocal(d[2])}
DefinitionsOf(objects) ==
    [n \in {d[2].name : d \in Defining(objects)} |->
        CHOOSE d \in Defining(objects) : d[2].name = n]

(* Where a relocation is: object, table, index.                            *)
TablesOf(objects) == UNION {{<<o, t>> : t \in DOMAIN objects[o].tables} : o \in DOMAIN objects}
TableAt(objects, place) == objects[place[1]].tables[place[2]]
SitesOf(objects) == UNION {{<<p[1], p[2], i>> : i \in DOMAIN TableAt(objects, p).refs} :
                             p \in TablesOf(objects)}
RefAt(objects, site) == TableAt(objects, site).refs[site[3]]

-----------------------------------------------------------------------------
VARIABLES
    world,      \* the inputs of this link (never change)
    phase,      \* the pass, then the stage of the link
    at,         \* the relocation it has come to: object, table, index
    plan,       \* ImportPlan, with noncopy_import_symbols and tls_desc_call_symbols
    words,      \* RelocatedWords: what the relocated words hold
    slots,      \* ... what the synthetic entries hold
    loader,     \* ... the relocations left to the loader
    error       \* why the link was refused

refVars == <<world, phase, at, plan, words, slots, loader, error>>

EmptyPlan == [imports |-> << >>, sites |-> {}, got |-> {}, relativeGot |-> {}, copy |-> {},
              copySites |-> {}, noncopy |-> {}, plt |-> {}, gd |-> {}, ie |-> {},
              desc |-> {}, descCalls |-> {}, descSites |-> {}, dtpoffSites |-> {}, ld |-> FALSE]

mode    == world.mode
objects == world.objects
Loaded  == mode \in {"shared", "pie"}

Definitions == DefinitionsOf(objects)
Defined     == DOMAIN Definitions
Table       == TableAt(objects, at)
Current     == RefAt(objects, at)
Definition(s) == Definitions[s.name][2]
Unresolved(s) == ~s.def /\ s.name \notin Defined
Executable(flags) == {"alloc", "exec"} \subseteq flags
Writable(flags)   == {"alloc", "write"} \subseteq flags

Refuse(e) == /\ error' = e
             /\ phase' = "refused"
             /\ UNCHANGED <<world, at, plan, words, slots, loader>>

(* The next relocation of this pass; after the last one the pass ends.     *)
Proceed(new, then) ==
    /\ plan' = new
    /\ IF at[3] < Len(Table.refs)
       THEN at' = [at EXCEPT ![3] = @ + 1] /\ UNCHANGED phase
       ELSE at' = [at EXCEPT ![3] = 1] /\ phase' = then
    /\ UNCHANGED <<world, words, slots, loader, error>>

(* record_import_symbol: a weak import becomes strong with the first strong*)
(* reference, and the types must agree.                                    *)
TypesConflict(s, kind) == s.name \in DOMAIN plan.imports /\ plan.imports[s.name].kind # kind
Recorded(s, kind) ==
    LET strong == s.bind = "global" \/ (s.name \in DOMAIN plan.imports
                                        /\ plan.imports[s.name].bind = "global")
        import == [kind |-> kind, bind |-> IF strong THEN "global" ELSE "weak"]
    IN [n \in DOMAIN plan.imports \cup {s.name} |->
           IF n = s.name THEN import ELSE plan.imports[n]]

-------------------------------------------------------------------------------
(* First pass over a table: the thread-local models.                       *)
DynamicTlsDefinition(d) ==
    d.kind = "tls" /\ (d.vis = "default" \/ (d.vis = "protected" /\ d.bind = "global"))
DynamicTlsReference(s) ==
    /\ s.kind = "tls" /\ Nonlocal(s)
    /\ IF Unresolved(s) THEN s.vis = "default"
       ELSE LET d == Definition(s)
            IN DynamicTlsDefinition(d)
               /\ (s.vis = "default" \/ (s.vis = "protected" /\ d.vis = "protected"))
PieTlsReference(s) == Nonlocal(s) /\ s.vis = "default" /\ s.kind = "tls"

TlsRefusal(r, flags) ==
    LET s == r.sym IN
    IF r.type \in LdTypes
    THEN IF ~LocalTls(s) THEN "TlsLdUnsupported"
         ELSE IF ~Executable(flags) THEN "TlsLdTargetNotExecutable" ELSE "none"
    ELSE IF r.type \in TlsTypes
    THEN CASE mode = "pie" /\ ~PieTlsReference(s) -> "DynamicExecutableTlsModelUnsupported"
           [] ~DynamicTlsReference(s)             -> "TlsReferenceUnsupported"
           [] ~Executable(flags)                  -> "TlsTargetNotExecutable"
           [] Unresolved(s) /\ s.name \in plan.copy    -> "CopyRelocationMixedReference"
           [] Unresolved(s) /\ TypesConflict(s, "tls") -> "ConflictingImportSymbolType"
           [] OTHER -> "none"
    ELSE IF s.kind = "tls" \/ "tls" \in flags THEN "TlsRelocationUnsupported" ELSE "none"

TlsPlanned(r) ==
    LET s == r.sym
        base == IF r.type \in TlsTypes \ LdTypes /\ Unresolved(s)
                THEN [plan EXCEPT !.noncopy = @ \cup {s.name}, !.imports = Recorded(s, "tls")]
                ELSE plan
    IN CASE r.type = "GOTPC32_TLSDESC" -> [base EXCEPT !.desc = @ \cup {s.name}]
         [] r.type = "TLSDESC_CALL"    -> [base EXCEPT !.descCalls = @ \cup {s.name},
                                                       !.descSites = @ \cup {at}]
         [] r.type = "TLSGD"    -> [base EXCEPT !.gd = @ \cup {s.name}]
         [] r.type = "GOTTPOFF" -> [base EXCEPT !.ie = @ \cup {s.name}]
         [] r.type = "TLSLD"    -> [base EXCEPT !.ld = TRUE]
         [] r.type = "DTPOFF32" -> [base EXCEPT !.dtpoffSites = @ \cup {at}]
         [] OTHER -> base

PlanTls ==
    /\ phase = "tls"
    /\ LET refusal == TlsRefusal(Current, Table.flags)
       IN IF refusal = "none" THEN Proceed(TlsPlanned(Current), "types") ELSE Refuse(refusal)

(* Between the passes: one unsupported relocation refuses the table.       *)
Supported(r) == \/ r.type \in TlsTypes \cup {"64", "PLT32", "GOTPCREL"}
                \/ mode = "pie" /\ r.type = "PC32"
CheckTypes ==
    /\ phase = "types"
    /\ IF \A i \in DOMAIN Table.refs : Supported(Table.refs[i])
       THEN phase' = "rest" /\ UNCHANGED <<world, at, plan, words, slots, loader, error>>
       ELSE Refuse("RelocationUnsupported")

-------------------------------------------------------------------------------
(* Second pass, a name the image defines: default definitions go through   *)
(* the loader, protected ones are bound here.                              *)
Preemptible(d) == d.bind = "global" /\ d.kind \in {"object", "func"} /\ d.vis = "default"
Protected(d) == /\ d.bind = "global" /\ d.kind \in {"object", "func"}
                /\ d.vis = "protected" /\ ~d.abs
Bindable(d)  == Preemptible(d) \/ Protected(d)
Direct(r, d) == mode = "pie" /\ r.type = "PC32" /\ "alloc" \in Table.flags /\ ~d.abs

DefinedRefusal(r) ==
    LET d == Definition(r.sym) IN
    IF ~Bindable(d) THEN "PreemptibleRelativeTarget"
    ELSE CASE r.type = "GOTPCREL" \/ Direct(r, d) -> "none"
           [] r.type = "PLT32" /\ d.kind = "func" ->
                 IF Executable(Table.flags) THEN "none" ELSE "ExternalPltTargetNotExecutable"
           [] r.type = "64" -> IF Writable(Table.flags) THEN "none" ELSE "TargetNotWritable"
           [] OTHER -> "PreemptibleRelativeTarget"

DefinedPlanned(r) ==
    LET n == r.sym.name
        d == Definition(r.sym)
    IN CASE r.type = "GOTPCREL" -> IF Protected(d) THEN [plan EXCEPT !.relativeGot = @ \cup {n}]
                                   ELSE [plan EXCEPT !.got = @ \cup {n}]
         [] r.type = "PLT32" /\ Preemptible(d) -> [plan EXCEPT !.plt = @ \cup {n}]
         [] r.type = "64" /\ Preemptible(d) -> [plan EXCEPT !.sites = @ \cup {at}]
         [] OTHER -> plan

(* A name it imports.                                                      *)
Copies(r) == mode = "pie" /\ r.type = "PC32"
PltNotype(s) == s.kind = "notype" /\ mode = "pie"
ImportKind(r) == IF r.type = "PLT32" /\ PltNotype(r.sym) THEN "func" ELSE r.sym.kind
ImportTypes == {"object", "func"} \cup IF mode = "pie" THEN {"ifunc"} ELSE {}

ImportRefusal(r) ==
    LET s == r.sym
        n == s.name
    IN CASE ~(\/ s.bind = "global"
              \/ s.kind = "func"
              \/ s.kind = "object" /\ r.type # "PLT32") -> "ExternalImportUnsupportedBinding"
         [] s.vis # "default" -> "NondefaultVisibility"
         [] Copies(r) /\ ~(s.bind = "global" /\ s.kind = "object") -> "ExternalImportUnsupportedType"
         [] Copies(r) /\ n \in plan.noncopy \ plan.got -> "CopyRelocationMixedReference"
         [] /\ r.type = "PLT32"
            /\ s.kind # "func" /\ ~PltNotype(s)
            /\ ~(n = TlsGetAddr /\ s.kind = "notype") -> "ExternalPltUnsupportedType"
         [] r.type # "PLT32" /\ s.kind \notin ImportTypes -> "ExternalImportUnsupportedType"
         [] ~Copies(r) /\ r.type # "GOTPCREL" /\ n \in plan.copy -> "CopyRelocationMixedReference"
         [] TypesConflict(s, ImportKind(r)) -> "ConflictingImportSymbolType"
         [] r.type = "PLT32" /\ ~Executable(Table.flags) -> "ExternalPltTargetNotExecutable"
         [] r.type = "64" /\ ~Writable(Table.flags) -> "TargetNotWritable"
         [] OTHER -> "none"

ImportPlanned(r) ==
    LET n == r.sym.name
        recorded == [plan EXCEPT !.imports = Recorded(r.sym, ImportKind(r))]
        loose == [recorded EXCEPT !.noncopy = @ \cup {n}]
    IN CASE Copies(r) -> [recorded EXCEPT !.copy = @ \cup {n}, !.copySites = @ \cup {at}]
         [] r.type = "GOTPCREL" -> [loose EXCEPT !.got = @ \cup {n}]
         [] r.type = "PLT32" -> [loose EXCEPT !.plt = @ \cup {n}]
         [] OTHER -> [loose EXCEPT !.sites = @ \cup {at}]

PlanImport ==
    /\ phase = "rest"
    /\ LET r == Current
           then == IF at[2] < Len(objects[at[1]].tables) THEN "next" ELSE "symbols"
           refusal == IF ~Nonlocal(r.sym)
                      THEN IF r.type = "GOTPCREL" THEN "RelocationUnsupported" ELSE "none"
                      ELSE IF Unresolved(r.sym) THEN ImportRefusal(r) ELSE DefinedRefusal(r)
           new == IF ~Nonlocal(r.sym) THEN plan
                  ELSE IF Unresolved(r.sym) THEN ImportPlanned(r) ELSE DefinedPlanned(r)
       IN IF r.type \in TlsTypes THEN Proceed(plan, then)
          ELSE IF refusal = "none" THEN Proceed(new, then)
          ELSE Refuse(refusal)

NextTable ==
    /\ phase = "next"
    /\ phase' = "tls" /\ at' = <<at[1], at[2] + 1, 1>>
    /\ UNCHANGED <<world, plan, words, slots, loader, error>>

-------------------------------------------------------------------------------
(* After the tables of an object its symbols: an undefined one must have   *)
(* been planned for by now.                                                *)
UsesGot == plan.got # {} \/ plan.relativeGot # {} \/ plan.gd # {} \/ plan.ie # {}
             \/ plan.desc # {} \/ plan.ld
Imported(s) ==
    LET normalized == s.kind = "notype" /\ plan.imports[s.name].kind = "func"
    IN /\ s.name \in DOMAIN plan.imports
       /\ s.bind = "global" \/ s.kind \in {"object", "func"} \/ normalized
       /\ s.kind \in ImportTypes \/ normalized \/ (s.name = TlsGetAddr /\ s.kind = "notype")
SymbolRefusal(s) ==
    IF /\ s.vis # "default"
       /\ ~(s.vis = "protected" /\ s.bind = "global" /\ s.kind \in {"object", "func", "tls"}
            /\ s.def /\ ~s.abs)
    THEN "NondefaultVisibility"
    ELSE IF \/ ~Unresolved(s)
            \/ UsesGot /\ s.name = GotSymbol /\ s.bind = "global" /\ s.kind = "notype"
    THEN "none"
    ELSE IF s.kind = "tls"
    THEN IF s.name \in DOMAIN plan.imports /\ s.name \in plan.gd \cup plan.ie \cup plan.desc
         THEN "none" ELSE "TlsImportUnsupported"
    ELSE IF Imported(s) THEN "none" ELSE "UndefinedNonlocal"

Enter(o) == IF objects[o].tables = <<>> THEN "symbols" ELSE "tls"
AdmitSymbols ==
    /\ phase = "symbols"
    /\ \/ \E s \in objects[at[1]].symbols :
            Nonlocal(s) /\ SymbolRefusal(s) # "none" /\ Refuse(SymbolRefusal(s))
       \/ /\ \A s \in objects[at[1]].symbols : Nonlocal(s) => SymbolRefusal(s) = "none"
          /\ IF at[1] < Len(objects) THEN at' = <<at[1] + 1, 1, 1>> /\ phase' = Enter(at[1] + 1)
             ELSE UNCHANGED at /\ phase' = "plan"
          /\ UNCHANGED <<world, plan, words, slots, loader, error>>

(* The sequences of two thread-local models must be complete.              *)
FinishPlan ==
    /\ phase = "plan"
    /\ IF plan.ld # (plan.dtpoffSites # {}) THEN Refuse("IncompleteTlsLdSequence")
       ELSE IF plan.desc # plan.descCalls THEN Refuse("IncompleteTlsDescSequence")
       ELSE phase' = "collect" /\ UNCHANGED <<world, at, plan, words, slots, loader, error>>

(* validate_position_independent_inputs; which refusal comes first is left *)
(* open.                                                                   *)
PieRefusal(r) ==
    LET s == r.sym
        d == IF Nonlocal(s) /\ ~Unresolved(s) THEN Definition(s) ELSE s
    IN CASE r.type \notin PieTypes -> "PositionIndependentRelocation"
         [] r.type \in PcTypes /\ d.def /\ d.abs -> "PositionIndependentAbsoluteSymbol"
         [] r.type \in PcTypes /\ ~d.def /\ s.bind = "weak" -> "PositionIndependentUndefinedWeakSymbol"
         [] OTHER -> "none"
CheckPie ==
    /\ phase = "pie"
    /\ LET refusals == {PieRefusal(RefAt(objects, x)) : x \in SitesOf(objects)} \ {"none"} IN
       \/ \E e \in refusals : Refuse(e)
       \/ /\ refusals = {}
          /\ phase' = "collect" /\ UNCHANGED <<world, at, plan, words, slots, loader, error>>

PlanInit ==
    /\ \E f \in Families : world \in Worlds(f)
    /\ phase = IF Loaded THEN Enter(1) ELSE IF mode = "static_pie" THEN "pie" ELSE "collect"
    /\ at = <<1, 1, 1>>
    /\ plan = EmptyPlan
    /\ words = << >> /\ slots = << >> /\ loader = {} /\ error = "none"

PlanNext == \/ PlanTls \/ CheckTypes \/ PlanImport \/ NextTable
            \/ AdmitSymbols \/ FinishPlan \/ CheckPie
===============================================================================
