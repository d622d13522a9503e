------------------------------ MODULE LoaderImage ------------------------------
(***************************************************************************)
(* The image of a shared object or a dynamic PIE (link_loader_image): the  *)
(* lifecycle arrays moved to the tail, the synthetic tables placed by one  *)
(* of the layout policies, the COPY storage, the dynamic metadata and the  *)
(* interpreter's name, the segments and the RELRO interval; then what the  *)
(* dynamic loader and the program do with the image: relocate, seal, run   *)
(* the constructors, call through the PLT, run the destructors.            *)
(***************************************************************************)
EXTENDS Integers, Sequences, FiniteSets, FiniteSetsExt, SequencesExt, Relation

(* What a list has at some of its places, in its order.                    *)
Place(K, j)   == CHOOSE k \in K : Cardinality({m \in K : m <= k}) = j
Sublist(s, K) == [j \in 1 .. Cardinality(K) |-> s[Place(K, j)]]

(***************************************************************************)
(* .preinit_array, .init_array and .fini_array: where the sections go and  *)
(* which range DT_INIT_ARRAY and its siblings publish, and how a stable    *)
(* sort with that comparison orders them.                                  *)
(***************************************************************************)
CONSTANT DebugAssertions   \* whether the linker is built with debug assertions

(* What follows ".init_array" in a section's name: the number it spells,   *)
(* -1 when it spells none, and its place in byte order.  Base is nothing.  *)
Suffix  == [number : Nat \cup {-1}, text : Nat]
Base    == [number |-> -1, text |-> -1]
Kinds   == {"text", "data", "bss", "tls", "preinit", "init", "fini"}
Section == [kind : Kinds, perm : {"R", "RX", "RW"}, suffix : Suffix \cup {Base},
            size : Nat, align : Nat \ {0}]

ASSUME LifecycleAssumption == DebugAssertions \in BOOLEAN

Entries(inputs, kind) ==
    {i \in DOMAIN inputs : inputs[i].kind = kind /\ inputs[i].size # 0}

(* Ordering::Less of compare_lifecycle_priority.                           *)
BeforeByText(s, t) == s # Base /\ (t = Base \/ s.text < t.text)
Before(s, t) ==
    /\ s # Base
    /\ \/ t = Base
       \/ IF -1 \notin {s.number, t.number} /\ s.number # t.number
          THEN s.number < t.number
          ELSE s.text < t.text

(* sort_by promises a sorted result only for a total order, which Before   *)
(* is not when byte order puts a name between two numbers and these the    *)
(* other way round than their values do (10, 1a, 9); what every result has *)
(* is that no entry is smaller than its left neighbour, and that equal     *)
(* entries keep their order.                                               *)
SortOutcomes(inputs, kind) ==
    {p \in SetToSeqs(Entries(inputs, kind)) :
       /\ \A k \in 1 .. Len(p) - 1 : ~Before(inputs[p[k + 1]].suffix, inputs[p[k]].suffix)
       /\ \A k, m \in DOMAIN p :
            k < m /\ inputs[p[k]].suffix = inputs[p[m]].suffix => p[k] < p[m]}

TailOrders(inputs) ==
    {init \o fini : init \in SortOutcomes(inputs, "init"),
                    fini \in SortOutcomes(inputs, "fini")}

(* move_layout_tail_sections.  The ranks are inserted by the argument of a *)
(* debug_assert!, so a build without debug assertions inserts none.        *)
MoveTail(inputs, tail) ==
    LET all    == [i \in DOMAIN inputs |-> i]
        ranked == IF DebugAssertions THEN tail ELSE <<>>
    IN Sublist(all, DOMAIN inputs \ ToSet(ranked)) \o ranked

NoArray == [address |-> 0, size |-> 0]

(* The range of an array, or why there is none: collect_lifecycle_kind.    *)
Faulty(s) == s.perm # "RW" \/ s.size % 8 # 0
CollectSpan(inputs, addr, kind) ==
    LET ids == Entries(inputs, kind)
        low == Min({addr[i] : i \in ids})
    IN [error |-> "none",
        array |-> IF ids = {} THEN NoArray
                  ELSE [address |-> low,
                        size |-> Max({addr[i] + inputs[i].size : i \in ids}) - low]]
Collect(inputs, addr, kind) ==
    LET ids   == Entries(inputs, kind)
        Ends(i) == addr[i] + inputs[i].size
        low   == Min({addr[i] : i \in ids})
        first == Min({i \in ids : Faulty(inputs[i])})
        Failing(why) == [error |-> why, array |-> NoArray]
    IN IF ids = {} THEN [error |-> "none", array |-> NoArray]
       ELSE IF \E i \in ids : Faulty(inputs[i])
       THEN Failing(IF inputs[first].perm # "RW" THEN "DynamicLifecycleSectionFlags"
                    ELSE "DynamicLifecycleSectionSize")
       ELSE IF \E i \in ids : addr[i] # low /\ \A j \in ids : Ends(j) # addr[i]
       THEN Failing("DynamicLifecycleNonContiguous")
       ELSE [error |-> "none",
             array |-> [address |-> low, size |-> Max({Ends(i) : i \in ids}) - low]]

-----------------------------------------------------------------------------
(* The geometry of the tables the linker makes up (relocated_sections.rs): *)
(* the GOT with its ordinary and thread-local entries, the lazy PLT and    *)
(* its GOTPLT.  A request says how many entries of each use there are;     *)
(* offsets are in bytes.                                                   *)
Request == [got : Nat, ie : Nat, gd : Nat, ld : {0, 1}, desc : Nat, plt : Nat]

Word        == 8
Pair        == 16   \* TLS_GD_ENTRY_SIZE, TLS_LD_ENTRY_SIZE, TLS_DESC_ENTRY_SIZE
Plt0        == 16   \* PLT0_SIZE
PltEntry    == 16   \* PLT_ENTRY_SIZE
Reserved    == 24   \* PLT_GOT_RESERVED_SIZE

FixedGot(r) == Word * (r.got + r.ie)
GotSize(r)  == FixedGot(r) + Pair * (r.gd + r.ld + r.desc)

(* What each relocation of the GOT is for, and where its entry starts.     *)
Uses(r) == ({"got"}  \X (1 .. r.got))  \cup ({"ie"} \X (1 .. r.ie)) \cup
           ({"gd"}   \X (1 .. r.gd))   \cup ({"ld"} \X (1 .. r.ld)) \cup
           ({"desc"} \X (1 .. r.desc))
GotOffset(r, use) ==
    LET n == use[2] - 1
    IN CASE use[1] = "got"  -> Word * n
         [] use[1] = "ie"   -> Word * (r.got + n)
         [] use[1] = "gd"   -> FixedGot(r) + Pair * n
         [] use[1] = "ld"   -> FixedGot(r) + Pair * r.gd
         [] use[1] = "desc" -> FixedGot(r) + Pair * (r.gd + r.ld + n)
GotWords(use) == IF use[1] \in {"got", "ie"} THEN {0} ELSE {0, Word}

(* The lazy PLT: one header and one entry for each function; with IBT an   *)
(* entry is two, the one called and the one the slot first leads to.       *)
EntrySize(ibt) == IF ibt THEN 2 * PltEntry ELSE PltEntry
PltSize(r, ibt)  == IF r.plt = 0 THEN 0 ELSE Plt0 + EntrySize(ibt) * r.plt
PltGotSize(r)    == IF r.plt = 0 THEN 0 ELSE Reserved + Word * r.plt
StubOffset(ibt, n) == Plt0 + EntrySize(ibt) * (n - 1)
SlotOffset(n)      == Reserved + Word * (n - 1)
LazyOffsetOfPlain(ibt, n) == StubOffset(ibt, n) + 6
LazyOffset(ibt, n) == StubOffset(ibt, n) + (IF ibt THEN PltEntry ELSE 6)

(* Whose relocation the code at offset o of the PLT pushes before it goes  *)
(* to the resolver, 0 where no such sequence starts: after the six bytes   *)
(* of the jump, or with IBT in the second half, with or without its        *)
(* ENDBR64.                                                                *)
Pushes(r, ibt, o) ==
    LET at == {n \in 1 .. r.plt : o - StubOffset(ibt, n) \in IF ibt THEN {16, 20} ELSE {6}}
    IN IF at = {} THEN 0 ELSE CHOOSE n \in at : TRUE
StartsWithEndbr(ibt, o) == ibt /\ o >= Plt0 /\ (o - Plt0) % PltEntry = 0

-----------------------------------------------------------------------------
CONSTANTS
    Page,          \* the page size
    MetadataSize,  \* bytes of hash tables, symbols, relocations and .dynamic
    InterpSize,    \* bytes of the interpreter's path and its NUL
    NoteSize,      \* GNU_PROPERTY_NOTE_SIZE
    Links          \* the links that may be asked for

CopyAlignment == 16   \* DYNAMIC_COPY_ALIGNMENT

(* common is the size of COMMON, copies those of the objects to copy, and  *)
(* a hook is what the symbol given to -init or -fini turns out to be.      *)
Hooks == {"none", "function", "missing", "notype", "absolute", "unloaded", "data"}
Link  == [pie : BOOLEAN, bindNow : BOOLEAN, ibt : {"off", "plt", "property"},
          inputs : Seq(Section), common : Nat, copies : Seq(Nat \ {0}), need : Request,
          init : Hooks, fini : Hooks]

ASSUME ImageAssumption ==
    /\ Page \in Nat \ {0} /\ Page % Word = 0 /\ MetadataSize \in Nat \ {0}
    /\ InterpSize \in Nat \ {0} /\ NoteSize \in Nat \ {0}
    /\ \A l \in Links : l \in Link

VARIABLES
    link,      \* what is linked
    stage,     \* the step reached
    order,     \* the input sections in the order they are placed
    image,     \* the sections of the image, in the order they were added
    arrays,    \* the ranges of the lifecycle arrays
    dynamic,   \* the range of the dynamic metadata
    interp,    \* the address of the interpreter's name, 0 when there is none
    relro,     \* the RELRO interval
    mem,       \* what the words of the GOT and the GOTPLT hold
    ran,       \* the functions run by the loader, in order
    reached,   \* the calls made through the PLT: stub and function reached
    error      \* why the link, or the program, failed

imageVars == <<link, stage, order, image, arrays, dynamic, interp, relro, mem, ran,
               reached, error>>

AlignUp(v, a) == ((v + a - 1) \div a) * a

NoRange == [address |-> 0, size |-> 0]

Fail(why) ==
    /\ stage' = "failed" /\ error' = why
    /\ UNCHANGED <<link, order, image, arrays, dynamic, interp, relro, mem, ran, reached>>

-----------------------------------------------------------------------------
(* The layout policy link_loader_image asks the relocator for.             *)
UsesGot(l) == GotSize(l.need) # 0
GotRelro(l) == l.pie /\ UsesGot(l)
Isolated(l) == l.bindNow \/ GotRelro(l)
WantsIbt(l) == l.ibt # "off"
IbtPlt(l) == WantsIbt(l) /\ (l.bindNow \/ ~GotRelro(l))

(* A section to place: its first byte's address is still 0.                *)
Piece(what, n, perm, nobits, tls, size, align) ==
    [what |-> what, n |-> n, perm |-> perm, nobits |-> nobits, tls |-> tls,
     size |-> size, align |-> align, address |-> 0]
InputPiece(l, i) ==
    LET s == l.inputs[i]
    IN Piece("input", i, s.perm, s.kind = "bss", s.kind = "tls", s.size, s.align)
CommonPiece(l) ==
    IF l.common = 0 THEN <<>> ELSE <<Piece("common", 0, "RW", TRUE, FALSE, l.common, Word)>>
GotPiece(l) ==
    IF ~UsesGot(l) THEN <<>>
    ELSE IF Isolated(l)
    THEN <<Piece("got", 0, "RW", FALSE, FALSE, AlignUp(GotSize(l.need), Page), Page)>>
    ELSE <<Piece("got", 0, "RW", FALSE, FALSE, GotSize(l.need), Word)>>
PltPieces(l) ==
    IF l.need.plt = 0 THEN <<>>
    ELSE <<Piece("plt", 0, "RX", FALSE, FALSE, PltSize(l.need, IbtPlt(l)), PltEntry),
           IF l.bindNow
           THEN Piece("pltgot", 0, "RW", FALSE, FALSE, AlignUp(PltGotSize(l.need), Page), Page)
           ELSE Piece("pltgot", 0, "RW", FALSE, FALSE, PltGotSize(l.need), Word)>>

(* What is placed, in the order the layout is given it, and in the order   *)
(* it is placed in: the thread-local sections after the others, and with   *)
(* bind-now the GOTPLT and the GOT after those.                            *)
Pieces(l, ids) ==
    [k \in DOMAIN ids |-> InputPiece(l, ids[k])] \o CommonPiece(l)
        \o (IF Isolated(l) THEN PltPieces(l) \o GotPiece(l) ELSE GotPiece(l) \o PltPieces(l))
PostTls(l, p) == l.bindNow /\ p.what \in {"pltgot", "got"}
PlacementOrder(l, pieces) ==
    LET post == {k \in DOMAIN pieces : PostTls(l, pieces[k])}
        tls  == {k \in DOMAIN pieces : pieces[k].tls}
    IN Sublist(pieces, DOMAIN pieces \ (post \cup tls)) \o Sublist(pieces, tls) \o Sublist(pieces, post)

(* layout_sections_by_permissions_with_tail, from the first page on: a     *)
(* page of its own for a section whose permissions are not the last one's. *)
Placed(pieces) ==
    LET address[k \in DOMAIN pieces] ==
          LET p == pieces[k]
          IN IF k = 1 THEN AlignUp(Page, p.align)
             ELSE AlignUp(address[k - 1] + pieces[k - 1].size,
                          IF p.perm = pieces[k - 1].perm \/ p.align > Page THEN p.align ELSE Page)
    IN [k \in DOMAIN pieces |-> [pieces[k] EXCEPT !.address = address[k]]]

End(s) == s.address + s.size
ImageEnd == Max({End(s) : s \in ToSet(image)} \cup {0})
Named(what) == {s \in ToSet(image) : s.what = what}
AddressOf(what) == (CHOOSE s \in Named(what) : TRUE).address
RangeOf(what) == LET s == CHOOSE t \in Named(what) : TRUE
                 IN [address |-> s.address, size |-> s.size]
InputAddress == [i \in DOMAIN link.inputs |->
                   (CHOOSE s \in Named("input") : s.n = i).address]

-----------------------------------------------------------------------------
ImageInit ==
    /\ link \in Links
    /\ stage = "order"
    /\ order = <<>> /\ image = <<>>
    /\ arrays = [k \in {"preinit", "init", "fini"} |-> NoArray]
    /\ dynamic = NoRange /\ interp = 0 /\ relro = NoRange
    /\ mem = <<>> /\ ran = <<>> /\ reached = {}
    /\ error = "none"

(* reject_shared_preinit_arrays, loader_lifecycle_layout_tail_order and    *)
(* move_layout_tail_sections.                                              *)
OrderTail ==
    /\ stage = "order"
    /\ IF ~link.pie /\ \E i \in DOMAIN link.inputs : link.inputs[i].kind = "preinit"
       THEN Fail("SharedPreinitUnsupported")
       ELSE /\ \E tail \in TailOrders(link.inputs) : order' = MoveTail(link.inputs, tail)
            /\ stage' = "place"
            /\ UNCHANGED <<link, image, arrays, dynamic, interp, relro, mem, ran, reached, error>>

PlaceSections ==
    /\ stage = "place"
    /\ image' = Placed(PlacementOrder(link, Pieces(link, order)))
    /\ stage' = "copy"
    /\ UNCHANGED <<link, order, arrays, dynamic, interp, relro, mem, ran, reached, error>>

(* allocate_dynamic_pie_copy_storage: the objects one after the other, in  *)
(* one memory-only section behind everything that is placed.               *)
CopyOffsets(sizes) ==
    LET offset[k \in 1 .. Len(sizes) + 1] ==
          IF k = 1 THEN 0 ELSE AlignUp(offset[k - 1], CopyAlignment) + sizes[k - 1]
    IN [k \in DOMAIN sizes |-> AlignUp(offset[k], CopyAlignment)]
AllocateCopies ==
    /\ stage = "copy"
    /\ image' = IF link.copies = <<>> THEN image
                ELSE LET n == Len(link.copies)
                         size == CopyOffsets(link.copies)[n] + link.copies[n]
                     IN Append(image, [Piece("copy", 0, "RW", TRUE, FALSE, size, CopyAlignment)
                                         EXCEPT !.address = AlignUp(ImageEnd, CopyAlignment)])
    /\ stage' = "collect"
    /\ UNCHANGED <<link, order, arrays, dynamic, interp, relro, mem, ran, reached, error>>

(* resolve_dynamic_lifecycle_hook.                                         *)
HookError(hook) ==
    CASE hook \in {"none", "function"} -> "none"
      [] hook = "missing" -> "DynamicLifecycleHookMissing"
      [] hook = "notype"  -> "DynamicLifecycleHookType"
      [] hook \in {"absolute", "unloaded"} -> "DynamicLifecycleHookNotImageBacked"
      [] hook = "data"    -> "DynamicLifecycleHookNotExecutable"

(* collect_dynamic_pie_lifecycle and collect_shared_object_lifecycle.      *)
ArrayKinds == IF link.pie THEN <<"preinit", "init", "fini">> ELSE <<"init", "fini">>
CollectLifecycle ==
    /\ stage = "collect"
    /\ LET range(k) == Collect(link.inputs, InputAddress, k)
           checks == <<HookError(link.init), HookError(link.fini)>>
                       \o [k \in DOMAIN ArrayKinds |-> range(ArrayKinds[k]).error]
           failed == {k \in DOMAIN checks : checks[k] # "none"}
       IN IF failed # {} THEN Fail(checks[Min(failed)])
          ELSE /\ arrays' = [k \in DOMAIN arrays |->
                               IF k \in ToSet(ArrayKinds) THEN range(k).array ELSE NoArray]
               /\ stage' = "metadata"
               /\ UNCHANGED <<link, order, image, dynamic, interp, relro, mem, ran, reached,
                              error>>

-----------------------------------------------------------------------------
(* The regions the relocator isolated for RELRO: got_relro, plt_got_relro. *)
Regions ==
    (IF Isolated(link) /\ UsesGot(link) THEN {RangeOf("got")} ELSE {})
        \cup (IF link.bindNow /\ link.need.plt > 0 THEN {RangeOf("pltgot")} ELSE {})
RegionsStart == Min({r.address : r \in Regions})
RegionsEnd   == Max({r.address + r.size : r \in Regions})

(* Of a dynamic PIE: the protected tables are the tail of the image, and   *)
(* the metadata goes on where they end (coalesced_relro_start).            *)
CoalescedAnyway == link.pie /\ Regions # {}
Coalesced == link.pie /\ Regions # {} /\ RegionsEnd = ImageEnd
MetadataIsRelro == link.bindNow \/ (link.pie /\ (Regions = {} \/ Coalesced))

(* The interpreter's name goes before the metadata, or after it when the   *)
(* metadata goes on from the protected tables; the property note is last.  *)
PlaceMetadata ==
    /\ stage = "metadata"
    /\ LET before == link.pie /\ ~Coalesced
           floor  == IF before THEN AlignUp(ImageEnd, Page) + InterpSize ELSE ImageEnd
           at     == AlignUp(floor, Page)
           size   == IF MetadataIsRelro THEN AlignUp(MetadataSize, Page) ELSE MetadataSize
           name   == IF ~link.pie THEN 0
                     ELSE IF before THEN AlignUp(ImageEnd, Page) ELSE AlignUp(at + size, Page)
           last   == IF name > at THEN name + InterpSize ELSE at + size
           At(p, a) == <<[p EXCEPT !.address = a]>>
       IN /\ dynamic' = [address |-> at, size |-> size]
          /\ interp' = name
          /\ image' = image
               \o At(Piece("metadata", 0, "RW", FALSE, FALSE, size, Word), at)
               \o (IF link.pie THEN At(Piece("interp", 0, "R", FALSE, FALSE, InterpSize, 1), name)
                   ELSE <<>>)
               \o (IF link.ibt = "property"
                   THEN At(Piece("note", 0, "R", FALSE, FALSE, NoteSize, Word), AlignUp(last, Page))
                   ELSE <<>>)
          /\ relro' =
               IF link.bindNow
               THEN LET from == IF Regions = {} THEN at ELSE RegionsStart
                    IN [address |-> from, size |-> at + size - from]
               ELSE IF Coalesced THEN [address |-> RegionsStart, size |-> at + size - RegionsStart]
               ELSE IF GotRelro(link) THEN RangeOf("got")
               ELSE IF MetadataIsRelro THEN [address |-> at, size |-> size]
               ELSE NoRange
    /\ stage' = "write"
    /\ UNCHANGED <<link, order, arrays, mem, ran, reached, error>>

(* build_load_segments groups the sections by address, permissions and     *)
(* file data (module ImageLayout); the program-header mapper wants each    *)
(* range a header describes in the file data of one of them.               *)
Sized == {s \in ToSet(image) : s.size > 0}
Follows(t, s) == /\ s.address < t.address
                 /\ \A u \in Sized : u.address <= s.address \/ u.address >= t.address
Starts == {t \in Sized : \A s \in Sized :
             Follows(t, s) => s.perm # t.perm \/ (s.nobits /\ ~t.nobits)}
Segment(t) == {u \in Sized : /\ u.address >= t.address
                             /\ \A v \in Starts : v.address <= t.address \/ v.address > u.address}
InOneSegment(range) ==
    \E t \in Starts : /\ range.address >= t.address
                      /\ \E u \in Segment(t) : ~u.nobits /\ range.address + range.size <= End(u)

(* The words of the GOT and of the GOTPLT in the file: the GOT's are for   *)
(* the loader to fill, a slot leads to its lazy entry.                     *)
GotAt(use, w) == AddressOf("got") + GotOffset(link.need, use) + w
SlotAt(n)     == AddressOf("pltgot") + SlotOffset(n)
GotWordsAt    == IF UsesGot(link)
                 THEN {AddressOf("got") + Word * k : k \in 0 .. (GotSize(link.need) \div Word) - 1}
                 ELSE {}
SlotsAt       == IF link.need.plt = 0 THEN {} ELSE {SlotAt(n) : n \in 1 .. link.need.plt}
Empty      == <<"empty", 0, 0>>
Lazy(a)    == <<"lazy", a, 0>>
Function(n) == <<"function", n, 0>>
WriteImage ==
    /\ stage = "write"
    /\ IF relro # NoRange /\ ~InOneSegment(relro)
       THEN Fail("MetadataRangeOutsideLoadSegments")
       ELSE /\ mem' = [a \in GotWordsAt \cup SlotsAt |->
                         IF a \in GotWordsAt THEN Empty
                         ELSE LET n == CHOOSE m \in 1 .. link.need.plt : SlotAt(m) = a
                              IN Lazy(AddressOf("plt") + LazyOffset(IbtPlt(link), n))]
            /\ stage' = "load"
            /\ UNCHANGED <<link, order, image, arrays, dynamic, interp, relro, ran, reached, error>>

-----------------------------------------------------------------------------
(* The dynamic loader and the program.  The loader relocates the GOT and,  *)
(* bound now, every slot; it seals the pages wholly inside the RELRO       *)
(* interval and runs the arrays, those of the image's end backwards.       *)
Sealed(a) == /\ a >= (relro.address \div Page) * Page
             /\ a < ((relro.address + relro.size) \div Page) * Page

Load ==
    /\ stage = "load"
    /\ mem' = [a \in DOMAIN mem |->
                 LET here == {h \in Uses(link.need) \X {0, Word} :
                                h[2] \in GotWords(h[1]) /\ GotAt(h[1], h[2]) = a}
                     slots == {n \in 1 .. link.need.plt : SlotAt(n) = a}
                 IN IF here # {} THEN LET h == CHOOSE x \in here : TRUE
                                      IN <<h[1][1], h[1][2], h[2]>>
                    ELSE IF link.bindNow /\ slots # {} THEN Function(CHOOSE n \in slots : TRUE)
                    ELSE mem[a]]
    /\ stage' = "start"
    /\ UNCHANGED <<link, order, image, arrays, dynamic, interp, relro, ran, reached, error>>

(* The function whose address the word at a of the image holds: the k-th   *)
(* word of input section i, or padding.                                    *)
Padding    == <<0, 0>>
InitHook   == <<0, 1>>
FiniHook   == <<0, 2>>
PointerAt(a) ==
    LET held == {s \in Named("input") : a \in s.address .. End(s) - 1}
    IN IF held = {} THEN Padding
       ELSE LET s == CHOOSE t \in held : TRUE IN <<s.n, (a - s.address) \div Word + 1>>
Pointers(array) ==
    [k \in 1 .. array.size \div Word |-> PointerAt(array.address + Word * (k - 1))]

Hook(kind, pointer) == IF kind = "none" THEN <<>> ELSE <<pointer>>
RunConstructors ==
    /\ stage = "start"
    /\ ran' = Pointers(arrays["preinit"]) \o Hook(link.init, InitHook)
                \o Pointers(arrays["init"])
    /\ stage' = "running"
    /\ UNCHANGED <<link, order, image, arrays, dynamic, interp, relro, mem, reached, error>>

(* A call through entry n of the PLT: to what the slot holds, the first    *)
(* time to the resolver, which writes the slot its relocation names.       *)
Call(n) ==
    /\ stage = "running"
    /\ LET held == mem[SlotAt(n)]
           m == IF held[1] = "lazy"
                THEN Pushes(link.need, IbtPlt(link), held[2] - AddressOf("plt"))
                ELSE held[2]
       IN /\ reached' = reached \cup {<<n, m>>}
          /\ mem' = IF held[1] = "lazy" /\ m # 0 THEN [mem EXCEPT ![SlotAt(m)] = Function(m)]
                    ELSE mem
          /\ IF held[1] = "lazy" /\ m # 0 /\ Sealed(SlotAt(m))
             THEN stage' = "faulted" /\ error' = "write to a sealed page"
             ELSE UNCHANGED <<stage, error>>
    /\ UNCHANGED <<link, order, image, arrays, dynamic, interp, relro, ran>>

RunDestructors ==
    /\ stage = "running"
    /\ ran' = ran \o Reverse(Pointers(arrays["fini"])) \o Hook(link.fini, FiniHook)
    /\ stage' = "ended"
    /\ UNCHANGED <<link, order, image, arrays, dynamic, interp, relro, mem, reached, error>>

Stopped == stage \in {"failed", "faulted", "ended"} /\ UNCHANGED imageVars

ImageNext ==
    \/ OrderTail \/ PlaceSections \/ AllocateCopies \/ CollectLifecycle \/ PlaceMetadata
    \/ WriteImage \/ Load \/ RunConstructors
    \/ (\E n \in 1 .. link.need.plt : Call(n))
    \/ RunDestructors \/ Stopped

ImageSpec == ImageInit /\ [][ImageNext]_imageVars

-----------------------------------------------------------------------------
(* A program's initialisation and termination functions run in the order   *)
(* the arrays' section names ask for: two numbers by value, and by their   *)
(* digits when the values are equal; a name against a number, or against   *)
(* another name, by bytes, so that .099foo runs before .100 and .zed after *)
(* it; the plain section last; equal names in link order; the functions of *)
(* one section in their order; termination the other way round.  Where     *)
(* these rules contradict each other (10 before 1a, 1a before 9, 9 before  *)
(* 10), only the plain section's place, the order of equal names and that  *)
(* of one section's functions are left.                                    *)
Spells(s, t) == s.number # -1 /\ t.number # -1
Earlier(s, t) ==
    \/ Spells(s, t) /\ s.number < t.number
    \/ Spells(s, t) /\ s.number = t.number /\ s.text < t.text
    \/ Base \notin {s, t} /\ ~Spells(s, t) /\ s.text < t.text
Agreed(kind) ==
    IsTransitiveUnder(Earlier, {link.inputs[i].suffix : i \in Entries(link.inputs, kind)})
FunctionBefore(f, g) ==
    LET s == link.inputs[f[1]].suffix
        t == link.inputs[g[1]].suffix
    IN \/ s # Base /\ t = Base
       \/ Earlier(s, t) /\ Agreed(link.inputs[f[1]].kind)
       \/ s = t /\ f[1] < g[1]
       \/ f[1] = g[1] /\ f[2] < g[2]
KindOf(f) == IF f[1] = 0 THEN "none" ELSE link.inputs[f[1]].kind
ConstructorsRunByPriority ==
    \A j, k \in DOMAIN ran :
      j < k => /\ KindOf(ran[j]) = "init" /\ KindOf(ran[k]) = "init"
                     => ~FunctionBefore(ran[k], ran[j])
               /\ KindOf(ran[j]) = "fini" /\ KindOf(ran[k]) = "fini"
                     => ~FunctionBefore(ran[j], ran[k])

(* The published ranges hold exactly the pointers of the inputs' arrays: a *)
(* finished program has run each function once, and has called nothing     *)
(* that is data, padding or another array's.                               *)
Listed == UNION {{i} \X (1 .. link.inputs[i].size \div Word) :
                   i \in {j \in DOMAIN link.inputs :
                            link.inputs[j].kind \in {"preinit", "init", "fini"}}}
EveryFunctionRunsOnce ==
    stage = "ended" =>
      /\ ToSet(ran) \subseteq Listed \cup {InitHook, FiniHook}
      /\ \A f \in Listed : \E k \in DOMAIN ran :
            ran[k] = f /\ \A m \in DOMAIN ran : ran[m] = f => m = k

(* Relocations of different kinds do not share a word: when the program    *)
(* starts, and ever after, each entry of the GOT holds its own binding.    *)
(* A call through the PLT reaches the function it names, the first time    *)
(* through the resolver and later directly, and binding it never writes to *)
(* a page that is sealed.                                                  *)
EntriesReachTheirSymbols ==
    /\ stage \in {"start", "running", "ended"} =>
         \A use \in Uses(link.need) : \A w \in GotWords(use) :
           GotAt(use, w) \in DOMAIN mem /\ mem[GotAt(use, w)] = <<use[1], use[2], w>>
    /\ stage # "faulted" /\ \A c \in reached : c[1] = c[2]

(* What the loader is done with when it hands over is read-only and what   *)
(* the program or the lazy resolver still writes is not: the isolated GOT, *)
(* bound now the GOTPLT, and the metadata that goes on from them.  One     *)
(* kind of link fails for it: bound now, COPY storage parts the protected  *)
(* tables from the metadata, and no interval can hold both.                *)
MetadataIsSealed == link.bindNow \/ (link.pie /\ (~GotRelro(link) \/ dynamic.address = RegionsEnd))
StartupOnly(what) == \/ what = "got" /\ Isolated(link)
                     \/ what = "pltgot" /\ link.bindNow
                     \/ what = "metadata" /\ MetadataIsSealed
SealedIffStartupOnly ==
    /\ stage \in {"start", "running", "ended"} =>
         \A s \in {t \in ToSet(image) : t.perm = "RW"} :
           \A a \in s.address .. End(s) - 1 : Sealed(a) = StartupOnly(s.what)
    /\ error = "MetadataRangeOutsideLoadSegments" =>
         link.bindNow /\ link.copies # <<>> /\ Regions # {}

(* With -z ibt or -z ibtplt what an indirect branch through the PLT lands  *)
(* on, the entry called and the one its slot first leads to, is marked.    *)
LandingsAreMarked ==
    stage = "running" /\ WantsIbt(link) =>
      \A n \in 1 .. link.need.plt :
        LET held == mem[SlotAt(n)]
        IN /\ StartsWithEndbr(IbtPlt(link), StubOffset(IbtPlt(link), n))
           /\ held[1] = "lazy" => StartsWithEndbr(IbtPlt(link), held[2] - AddressOf("plt"))
===============================================================================
