--------------------------- MODULE SymbolResolution ---------------------------
(***************************************************************************)
(* resolve_symbols_with_common: the non-local symbols of the linked        *)
(* objects, in input order, settle which definition each name is bound to; *)
(* then the commons that are left are laid out, in name order, in one      *)
(* memory-only section.                                                    *)
(***************************************************************************)
EXTENDS SymbolCandidates

CONSTANTS
    NameOrder,  \* the names in the order of the definitions' BTreeMap
    SizeLimit   \* sizes and offsets are below it (2^64)

ASSUME NameOrderAssumption ==
    /\ NameOrder \in Seq(Names)
    /\ \A n \in Names : \E k \in DOMAIN NameOrder : NameOrder[k] = n
    /\ \A j, k \in DOMAIN NameOrder : NameOrder[j] = NameOrder[k] => j = k
ASSUME SizeAssumption == SizeLimit \in Nat

VARIABLES
    stream,       \* the symbols, in the order the resolver reads them
    next,         \* the symbol it reads next
    definitions,  \* what each name is bound to
    placing,      \* the place in NameOrder of the name laid out next
    commonSize,   \* the size of the common section so far
    commonAlign,  \* its alignment
    phase,        \* "scan", "commons", "done" or "failed"
    error

resolveVars == <<stream, next, definitions, placing, commonSize, commonAlign,
                 phase, error>>

(* A definition: the symbol it comes from and, as in the ELF symbol, a     *)
(* value that is the alignment of a common and the offset of an allocated  *)
(* one.  What an allocated common came from is forgotten (source 0).       *)
Definition == [source : Nat, bind : {"global", "weak"},
               place : {"section", "common", "allocated"},
               size : Nat, value : Nat]

Begin(symbols) ==
    /\ stream = symbols
    /\ next = 1
    /\ definitions = <<>>
    /\ placing = 1 /\ commonSize = 0 /\ commonAlign = 1
    /\ phase = "scan"
    /\ error = "none"

Current == stream[next]
Scanning == phase = "scan" /\ next \in DOMAIN stream

Fail(reason) ==
    /\ phase' = "failed" /\ error' = reason
    /\ UNCHANGED <<stream, next, definitions, placing, commonSize, commonAlign>>

Advance(defs) ==
    /\ definitions' = defs
    /\ next' = next + 1
    /\ UNCHANGED <<stream, placing, commonSize, commonAlign, phase, error>>

Bind(n, d) == [m \in DOMAIN definitions \cup {n} |-> IF m = n THEN d ELSE definitions[m]]
Found == [source |-> next, bind |-> Current.bind, place |-> Current.place,
          size |-> Current.size, value |-> Current.value]

(* Locals, references and nameless symbols define nothing.                 *)
IgnoreSymbol ==
    /\ Scanning
    /\ \/ Current.bind = "local"
       \/ /\ Current.bind \in {"global", "weak"}
          /\ Current.name = NoName \/ Current.place = "undef"
    /\ Advance(definitions)

RejectSymbol ==
    /\ Scanning
    /\ \/ /\ Current.bind = "unique"
          /\ Fail("UnsupportedBinding")
       \/ /\ Defines(Current) /\ Current.place = "common" /\ Current.bind # "global"
          /\ Fail("UnsupportedCommonBinding")
       \/ /\ Defines(Current) /\ Current.place = "common" /\ Current.bind = "global"
          /\ ~PowerOfTwo(Current.value)
          /\ Fail("InvalidCommonAlignment")

Accepted == Scanning /\ Defines(Current) /\ ~Refused(Current)
Existing == definitions[Current.name]

DefineName ==
    /\ Accepted
    /\ Current.name \notin DOMAIN definitions
    /\ Advance(Bind(Current.name, Found))

(* Two tentative definitions: the larger size and the larger alignment,    *)
(* whichever symbol either comes from.                                     *)
MergeCommons ==
    /\ Accepted
    /\ Current.name \in DOMAIN definitions
    /\ Existing.place = "common" /\ Current.place = "common"
    /\ Advance(Bind(Current.name,
                    [Existing EXCEPT !.size  = Larger(@, Current.size),
                                     !.value = Larger(@, Current.value)]))

(* A strong definition replaces a common or a weak one, a common replaces  *)
(* a weak one; otherwise the first stays.                                  *)
OverridesAnyCommon(old, new) ==
    \/ old.place = "common" /\ new.place = "section"
    \/ old.place = "section" /\ old.bind = "weak" /\ new.bind = "global"
Overrides(old, new) ==
    \/ old.place = "common" /\ new.place = "section" /\ new.bind = "global"
    \/ old.place = "section" /\ old.bind = "weak" /\ new.place = "common"
    \/ old.place = "section" /\ new.place = "section"
         /\ old.bind = "weak" /\ new.bind = "global"

Conflicts(old, new) ==
    /\ old.place = "section" /\ new.place = "section"
    /\ old.bind = "global" /\ new.bind = "global"

OverrideName ==
    /\ Accepted
    /\ Current.name \in DOMAIN definitions
    /\ Overrides(Existing, Current)
    /\ Advance(Bind(Current.name, Found))

KeepName ==
    /\ Accepted
    /\ Current.name \in DOMAIN definitions
    /\ ~(Existing.place = "common" /\ Current.place = "common")
    /\ ~Overrides(Existing, Current) /\ ~Conflicts(Existing, Current)
    /\ Advance(definitions)

ConflictOnName ==
    /\ Accepted
    /\ Current.name \in DOMAIN definitions
    /\ Conflicts(Existing, Current)
    /\ Fail("MultipleStrongDefinitions")

EndScan ==
    /\ phase = "scan" /\ next > Len(stream)
    /\ phase' = "commons"
    /\ UNCHANGED <<stream, next, definitions, placing, commonSize, commonAlign, error>>

-----------------------------------------------------------------------------
Laying == phase = "commons" /\ placing <= Len(NameOrder)
Name   == NameOrder[placing]
IsCommon(n) == n \in DOMAIN definitions /\ definitions[n].place = "common"

AlignUpUnchecked(v, a) == v
AlignUp(v, a) == ((v + a - 1) \div a) * a

PassName ==
    /\ Laying /\ ~IsCommon(Name)
    /\ placing' = placing + 1
    /\ UNCHANGED <<stream, next, definitions, commonSize, commonAlign, phase, error>>

AllocateCommon ==
    /\ Laying /\ IsCommon(Name)
    /\ LET d == definitions[Name]
           offset == AlignUp(commonSize, d.value)
       IN IF commonSize + d.value - 1 >= SizeLimit THEN Fail("CommonAlignmentOverflow")
          ELSE IF offset + d.size >= SizeLimit THEN Fail("CommonSizeOverflow")
          ELSE /\ definitions' =
                    [definitions EXCEPT ![Name].source = 0, ![Name].place = "allocated",
                                        ![Name].value = offset]
               /\ commonSize' = offset + d.size
               /\ commonAlign' = Larger(commonAlign, d.value)
               /\ placing' = placing + 1
               /\ UNCHANGED <<stream, next, phase, error>>

EndResolve ==
    /\ phase = "commons" /\ placing > Len(NameOrder)
    /\ phase' = "done"
    /\ UNCHANGED <<stream, next, definitions, placing, commonSize, commonAlign, error>>

ResolveNext ==
    \/ IgnoreSymbol \/ RejectSymbol \/ DefineName \/ MergeCommons \/ OverrideName
    \/ KeepName \/ ConflictOnName \/ EndScan
    \/ PassName \/ AllocateCommon \/ EndResolve

ResolveInit == \E s \in Streams : Begin(s)
Settled == phase \in {"done", "failed"} /\ UNCHANGED resolveVars
ResolveSpec == ResolveInit /\ [][ResolveNext \/ Settled]_resolveVars

-----------------------------------------------------------------------------
ResolveErrors == {"none", "UnsupportedBinding", "UnsupportedCommonBinding",
                  "InvalidCommonAlignment", "MultipleStrongDefinitions",
                  "CommonAlignmentOverflow", "CommonSizeOverflow"}

(* Types.  The one type invariant of the module.                           *)
ResolveTypeOK ==
    /\ stream \in Seq(Candidate)
    /\ next \in Nat \ {0}
    /\ DOMAIN definitions \in SUBSET Names
    /\ definitions \in [DOMAIN definitions -> Definition]
    /\ placing \in Nat \ {0}
    /\ commonSize \in Nat
    /\ commonAlign \in Nat \ {0}
    /\ phase \in {"scan", "commons", "done", "failed"}
    /\ error \in ResolveErrors
    /\ phase = "failed" <=> error # "none"

(* The definitions of a name among the symbols read, by rank.              *)
Read(n)    == {i \in DOMAIN stream : i < next /\ Defines(stream[i]) /\ stream[i].name = n}
Strong(n)  == {i \in Read(n) : stream[i].place = "section" /\ stream[i].bind = "global"}
Commons(n) == {i \in Read(n) : stream[i].place = "common"}
Weak(n)    == {i \in Read(n) : stream[i].place = "section" /\ stream[i].bind = "weak"}

(* In every order of the symbols a name is bound by rank: to its strong    *)
(* definition if there is one, else to a common of the largest size and    *)
(* the largest alignment read, else to the weak definition read first.     *)
BoundByRank ==
    \A n \in Names :
      /\ n \in DOMAIN definitions <=> Read(n) # {}
      /\ Strong(n) # {} => /\ definitions[n].place = "section"
                           /\ definitions[n].source \in Strong(n)
      /\ (Strong(n) = {} /\ Commons(n) # {}) =>
            /\ definitions[n].place \in {"common", "allocated"}
            /\ definitions[n].size \in {stream[i].size : i \in Commons(n)}
            /\ \A i \in Commons(n) : stream[i].size <= definitions[n].size
            /\ definitions[n].place = "common" =>
                 /\ definitions[n].value \in {stream[i].value : i \in Commons(n)}
                 /\ \A i \in Commons(n) : stream[i].value <= definitions[n].value
      /\ (Strong(n) = {} /\ Commons(n) = {} /\ Weak(n) # {}) =>
            /\ definitions[n].place = "section"
            /\ definitions[n].source \in Weak(n)
            /\ \A i \in Weak(n) : definitions[n].source <= i

(* Two strong definitions of a name never get past the resolver.           *)
OneStrongDefinition ==
    \A n \in Names : \A i, j \in Strong(n) : i = j

(* The commons' storage: inside the section, aligned for every common that *)
(* asked for the name, the section's alignment included, and not shared.   *)
CommonsDoNotOverlap ==
    \A n \in DOMAIN definitions : definitions[n].place = "allocated" =>
      LET d == definitions[n] IN
      /\ d.value + d.size <= commonSize
      /\ \A i \in Commons(n) : d.value % stream[i].value = 0
                            /\ commonAlign % stream[i].value = 0
      /\ \A m \in DOMAIN definitions \ {n} : definitions[m].place = "allocated" =>
           \/ d.value + d.size <= definitions[m].value
           \/ definitions[m].value + definitions[m].size <= d.value
=============================================================================
