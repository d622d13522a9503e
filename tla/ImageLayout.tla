------------------------------ MODULE ImageLayout ------------------------------
(***************************************************************************)
(* From allocatable sections to a loadable file, as a static link does it: *)
(* place the sections (permission_layout.rs), measure the TLS block        *)
(* (tls.rs), gather the placed sections into PT_LOAD segments              *)
(* (load_segments.rs), give the segments file offsets                      *)
(* (executable_writer.rs), lay the file out again around PT_TLS (tls.rs),  *)
(* and append the final program-header table (program_headers.rs).  The    *)
(* kernel then maps the file; what a program finds at an address is        *)
(* MappedByte.                                                             *)
(*                                                                         *)
(* A byte is a pair <<i, k>>: byte k of the i-th section, <<0, 0>> a zero  *)
(* byte, or a byte of the program-header table.                            *)
(***************************************************************************)
EXTENDS Integers, Sequences, FiniteSets, Functions, FiniteSetsExt

CONSTANTS
    Page,          \* the page size; DEFAULT_PAGE_ALIGNMENT
    EhdrSize,      \* bytes of the ELF header
    PhdrSize,      \* bytes of one program header
    Word,          \* the alignment of the program-header table
    AddressLimit,  \* addresses are below it (2^64)
    Bases,         \* image bases
    SectionLists   \* the lists of allocatable sections that may be linked

Perms   == {"R", "RX", "RW", "RWX"}
Section == [perm : Perms, nobits : BOOLEAN, tls : BOOLEAN,
            size : Nat, align : Nat]

(* No odd number but one divides a power of two.                           *)
PowerOfTwo(a) == a # 0 /\ \A d \in 1 .. a : (a % d = 0 /\ d % 2 = 1) => d = 1

(* The relocator hands over the user sections in input order, then COMMON  *)
(* (RW, nobits) and the GOT (RW), which here are sections like the others. *)
ASSUME LayoutAssumption ==
    /\ Page \in Nat /\ PowerOfTwo(Page) /\ EhdrSize \in Nat \ {0} /\ PhdrSize \in Nat \ {0}
    /\ Word \in Nat \ {0} /\ Page % Word = 0 /\ AddressLimit \in Nat /\ Bases \subseteq Nat
    /\ \A s \in SectionLists : s \in Seq(Section)

VARIABLES
    sections,   \* the allocatable sections, in input order
    entry,      \* the section whose first byte is the entry symbol
    stack,      \* whether the inputs ask for a PT_GNU_STACK header
    phase,      \* the stage of the pipeline
    addr,       \* addr[i]: the address given to section i
    cursor,     \* the end of what is placed
    previous,   \* the permissions of the section placed last
    tls,        \* the TLS block: base, filesz, memsz
    segments,   \* the PT_LOAD segments, by address
    file,       \* file[o]: the byte at offset o
    tlsOffset,  \* p_offset of PT_TLS
    phdrs,      \* the program-header table: offset, address, size
    error       \* the error the link ended with

layoutVars == <<sections, entry, stack, phase, addr, cursor, previous, tls,
                segments, file, tlsOffset, phdrs, error>>

Zero == <<0, 0>>
Void == [base |-> 0, filesz |-> 0, memsz |-> 0, size |-> 0, align |-> 1]
NoTable == [offset |-> 0, address |-> 0, size |-> 0]

AlignUp(v, a) == IF a <= 1 THEN v ELSE ((v + a - 1) \div a) * a

(* The first offset from low on that is congruent to an address.           *)
Congruent(low, address) == low + ((address - low) % Page)

End(i) == addr[i] + sections[i].size

LayoutInit ==
    /\ sections \in SectionLists
    /\ entry \in DOMAIN sections
    /\ stack \in BOOLEAN
    /\ phase = "place"
    /\ addr = <<>>
    /\ cursor \in Bases
    /\ previous = "none"
    /\ tls = Void
    /\ segments = <<>> /\ file = <<>>
    /\ tlsOffset = 0 /\ phdrs = NoTable
    /\ error = "none"

Fail(reason) ==
    /\ phase' = "failed" /\ error' = reason
    /\ UNCHANGED <<sections, entry, stack, addr, cursor, previous, tls, segments,
                   file, tlsOffset, phdrs>>

(* A section starts a page of its own when its permissions differ from     *)
(* those of the section placed before it.                                  *)
AlignmentIgnoringPermissions(s) == IF s.align = 0 THEN 1 ELSE s.align
Alignment(s) ==
    LET own == IF s.align = 0 THEN 1 ELSE s.align
    IN IF previous \in {"none", s.perm} THEN own
       ELSE IF own > Page THEN own ELSE Page

(* Regular sections first, then the SHF_TLS ones, each in input order.     *)
NextSection ==
    LET left    == DOMAIN sections \ DOMAIN addr
        regular == {i \in left : ~sections[i].tls}
    IN Min(IF regular # {} THEN regular ELSE left)

(* One turn of the loop of layout_sections_by_permissions_with_tail.       *)
PlaceSection ==
    /\ phase = "place" /\ DOMAIN addr # DOMAIN sections
    /\ LET i == NextSection
           s == sections[i]
           at == AlignUp(cursor, Alignment(s))
       IN IF s.align # 0 /\ ~PowerOfTwo(s.align) THEN Fail("InvalidSectionAlignment")
          ELSE IF s.perm = "RWX" THEN Fail("WritableExecutableSection")
          ELSE IF cursor + Alignment(s) - 1 >= AddressLimit THEN Fail("AlignmentOverflow")
          ELSE IF at + s.size >= AddressLimit THEN Fail("SectionEndOverflow")
          ELSE /\ addr' = [j \in DOMAIN addr \cup {i} |-> IF j = i THEN at ELSE addr[j]]
               /\ cursor' = at + s.size
               /\ previous' = s.perm
               /\ UNCHANGED <<sections, entry, stack, phase, tls, segments, file,
                              tlsOffset, phdrs, error>>

(* compute_static_tls_layout: the span of the SHF_TLS sections, which no   *)
(* other section may enter.                                                *)
TlsIds == {i \in DOMAIN sections : sections[i].tls}
Block ==
    LET base == Min({addr[i] : i \in TlsIds})
        filled == {i \in TlsIds : ~sections[i].nobits}
        memsz == Max({End(i) : i \in TlsIds}) - base
        align == Max({sections[i].align : i \in TlsIds} \cup {1})
    IN [base  |-> base,
        filesz |-> Max({End(i) : i \in filled} \cup {base}) - base,
        memsz |-> memsz, size |-> AlignUp(memsz, align), align |-> align]
(* Where the thread-local at an address is, from the thread pointer: the   *)
(* formula of TPOFF32 words and of the TLS GOT.                            *)
ThreadOffset(a) == a - tls.base - tls.size

MeasureTls ==
    /\ phase = "place" /\ DOMAIN addr = DOMAIN sections
    /\ IF TlsIds = {} THEN phase' = "build" /\ UNCHANGED <<tls, error>>
       ELSE IF \E i \in DOMAIN sections \ TlsIds :
                 sections[i].size # 0 /\ addr[i] \in Block.base .. Block.base + Block.memsz - 1
       THEN phase' = "failed" /\ error' = "NonTlsSectionInterleaves" /\ UNCHANGED tls
       ELSE phase' = "build" /\ tls' = Block /\ UNCHANGED error
    /\ UNCHANGED <<sections, entry, stack, addr, cursor, previous, segments, file,
                   tlsOffset, phdrs>>

-----------------------------------------------------------------------------
(* build_load_segments.  Empty sections are dropped, the others sorted by  *)
(* address; a segment ends where the permissions change and before file    *)
(* data that follows memory-only space.                                    *)
Present == {i \in DOMAIN sections : sections[i].size # 0}
Precedes(i, j) == addr[i] < addr[j] \/ (addr[i] = addr[j] /\ i < j)
ByAddress ==
    LET rank(i) == Cardinality({j \in Present : j = i \/ Precedes(j, i)})
    IN [k \in 1 .. Cardinality(Present) |-> CHOOSE i \in Present : rank(i) = k]

Overlapping(list) == \E k \in 1 .. Len(list) - 1 : addr[list[k + 1]] < End(list[k])

Split(a, b) == \/ sections[a].perm # sections[b].perm
               \/ sections[a].nobits /\ ~sections[b].nobits

(* A section's bytes at its address; padding and memory-only space is zero.*)
ImageByte(a) ==
    LET owners == {i \in DOMAIN sections : ~sections[i].nobits /\ a \in addr[i] .. End(i) - 1}
    IN IF owners = {} THEN Zero ELSE LET i == CHOOSE j \in owners : TRUE IN <<i, a - addr[i]>>

SegmentByLastSection(list, lo, hi) ==
    LET base == addr[list[lo]]
        last == list[hi]
        fileEnd == IF sections[last].nobits THEN base ELSE End(last)
    IN [perm |-> sections[list[lo]].perm, base |-> base, offset |-> 0,
        filesz |-> fileEnd - base, memsz |-> End(last) - base]
(* build_group, for the consecutive sections list[lo .. hi].               *)
Segment(list, lo, hi) ==
    LET base == addr[list[lo]]
        ids  == {list[k] : k \in lo .. hi}
        filled == {i \in ids : ~sections[i].nobits}
        fileEnd == Max({End(i) : i \in filled} \cup {base})
    IN [perm |-> sections[list[lo]].perm, base |-> base, offset |-> 0,
        filesz |-> fileEnd - base, memsz |-> Max({End(i) : i \in ids}) - base]

Grouped(list) ==
    LET first == {k \in DOMAIN list : k = 1 \/ Split(list[k - 1], list[k])}
        after(k) == Min({m \in first : m > k} \cup {Len(list) + 1}) - 1
        nth(n) == CHOOSE k \in first : Cardinality({m \in first : m <= k}) = n
    IN [n \in 1 .. Cardinality(first) |-> Segment(list, nth(n), after(nth(n)))]

BuildSegments ==
    /\ phase = "build"
    /\ IF Overlapping(ByAddress) THEN Fail("OverlappingSections")
       ELSE /\ segments' = Grouped(ByAddress)
            /\ phase' = "write"
            /\ UNCHANGED <<sections, entry, stack, addr, cursor, previous, tls, file,
                           tlsOffset, phdrs, error>>

-----------------------------------------------------------------------------
HeaderByte   == <<Len(sections) + 1, 0>>
TableByte(k) == <<Len(sections) + 2, k>>

MetadataEnd(count) == EhdrSize + PhdrSize * count
FileEnd(segs, low) == Max({s.offset + s.filesz : s \in Range(segs)} \cup {low})

(* The file: the headers, and each segment's image at its offset.          *)
Written(segs, count, size) ==
    [o \in 0 .. size - 1 |->
       IF o < MetadataEnd(count) THEN HeaderByte
       ELSE LET held == {s \in Range(segs) : o \in s.offset .. s.offset + s.filesz - 1}
            IN IF held = {} THEN Zero
               ELSE LET s == CHOOSE t \in held : TRUE IN ImageByte(s.base + o - s.offset)]

WithOffsets(segs, offsets) ==
    [k \in DOMAIN segs |-> [segs[k] EXCEPT !.offset = offsets[k]]]

(* write_elf64_x86_64_segments: each segment at the first offset after the *)
(* previous one that is congruent to its address.                          *)
PlainOffsets(segs) ==
    LET off[k \in 1 .. Len(segs)] ==
          Congruent(IF k = 1 THEN MetadataEnd(Len(segs))
                    ELSE off[k - 1] + segs[k - 1].filesz,
                    segs[k].base)
    IN off

(* The entry lies in the file image of an executable segment.              *)
EntryIsExecutable ==
    \E s \in Range(segments) : s.perm = "RX" /\ addr[entry] \in s.base .. s.base + s.filesz - 1

WriteSegments ==
    /\ phase = "write"
    /\ IF segments = <<>> THEN Fail("NoLoadSegments")
       ELSE IF ~EntryIsExecutable THEN Fail("EntryOutsideExecutableSegment")
       ELSE /\ segments' = WithOffsets(segments, PlainOffsets(segments))
            /\ file' = Written(segments', Len(segments),
                               FileEnd(segments', MetadataEnd(Len(segments))))
            /\ phase' = IF TlsIds = {} THEN "headers" ELSE "tls"
            /\ UNCHANGED <<sections, entry, stack, addr, cursor, previous, tls,
                           tlsOffset, phdrs, error>>

-----------------------------------------------------------------------------
(* inject_static_tls_program_header: the file is laid out again with room  *)
(* for one more header.  The segments that hold the TLS block keep in the  *)
(* file the distances they have in memory, so that one range of the file   *)
(* is the initial image of the block.                                      *)
HoldsTls(s) == /\ s.base + s.memsz > tls.base
               /\ s.base < tls.base + tls.memsz
TlsSegments == {k \in DOMAIN segments : HoldsTls(segments[k])}

(* The segments that hold the block leave no gap in it.                    *)
TlsCovered ==
    /\ TlsSegments # {}
    /\ \A a \in tls.base .. tls.base + tls.memsz - 1 :
         \E k \in TlsSegments : a \in segments[k].base .. segments[k].base + segments[k].memsz - 1

TlsOffsetsUnanchored ==
    LET off[k \in 1 .. Len(segments)] ==
          Congruent(IF k = 1 THEN MetadataEnd(Len(segments) + 1)
                    ELSE off[k - 1] + segments[k - 1].filesz,
                    segments[k].base)
    IN off
TlsOffsets ==
    LET first == Min(TlsSegments)
        off[k \in 1 .. Len(segments)] ==
          IF k \in TlsSegments \ {first}
          THEN off[first] + segments[k].base - segments[first].base
          ELSE Congruent(IF k = 1 THEN MetadataEnd(Len(segments) + 1)
                         ELSE off[k - 1] + segments[k - 1].filesz,
                         segments[k].base)
    IN off

TlsFits == \A k \in 2 .. Len(segments) :
             TlsOffsets[k - 1] + segments[k - 1].filesz <= TlsOffsets[k]

InjectTls ==
    /\ phase = "tls"
    /\ IF ~TlsCovered \/ ~TlsFits THEN Fail("TlsMemoryHasGap")
       ELSE /\ segments' = WithOffsets(segments, TlsOffsets)
            /\ LET first == segments'[Min(TlsSegments)]
                   at == first.offset + tls.base - first.base
                   end == FileEnd(segments', at + tls.filesz)
               IN /\ tlsOffset' = at
                  /\ file' = Written(segments', Len(segments) + 1, end)
            /\ phase' = "headers"
            /\ UNCHANGED <<sections, entry, stack, addr, cursor, previous, tls,
                           phdrs, error>>

-----------------------------------------------------------------------------
(* map_runtime_program_headers: the table moves behind the last segment,   *)
(* whose file and memory images both grow to take it in.                   *)
Floor(last) ==
    LET size == Cardinality(DOMAIN file) IN
    IF last.offset + last.memsz > size THEN last.offset + last.memsz ELSE size

(* PT_PHDR, the loads, PT_TLS if there is a block, PT_GNU_STACK if asked.  *)
HeaderCount == 1 + Len(segments) + (IF TlsIds = {} THEN 0 ELSE 1) + (IF stack THEN 1 ELSE 0)

AttachHeaders ==
    /\ phase = "headers"
    /\ LET last  == segments[Len(segments)]
           at    == AlignUp(Floor(last), Word)
           size  == PhdrSize * HeaderCount
           grown == at - last.offset + size
       IN /\ phdrs' = [offset |-> at, address |-> last.base + at - last.offset, size |-> size]
          /\ segments' = [segments EXCEPT ![Len(segments)].filesz = grown,
                                          ![Len(segments)].memsz = grown]
          /\ file' = [o \in 0 .. at + size - 1 |->
                        IF o >= at THEN TableByte(o - at)
                        ELSE IF o \in DOMAIN file THEN file[o] ELSE Zero]
    /\ phase' = "done"
    /\ UNCHANGED <<sections, entry, stack, addr, cursor, previous, tls, tlsOffset, error>>

LayoutNext ==
    \/ PlaceSection \/ MeasureTls \/ BuildSegments \/ WriteSegments
    \/ InjectTls \/ AttachHeaders

Halted == phase \in {"done", "failed"} /\ UNCHANGED layoutVars

LayoutSpec == LayoutInit /\ [][LayoutNext \/ Halted]_layoutVars

-----------------------------------------------------------------------------
(* The kernel (external).  PT_LOADs are mapped in table order, each over   *)
(* whole pages: the pages its file range touches show the file, the rest   *)
(* is anonymous.  A later mapping replaces an earlier one; what a segment  *)
(* has beyond its file range up to its memory size reads as zero.          *)
PageOf(a) == a \div Page
Mapped(s, a) == PageOf(a) \in PageOf(s.base) .. PageOf(s.base + s.memsz - 1)

ShownBy(s, a) ==
    LET o == s.offset + a - s.base IN
    IF s.filesz = 0 \/ (a >= s.base + s.filesz /\ s.memsz > s.filesz) THEN Zero
    ELSE IF o \in DOMAIN file THEN file[o] ELSE Zero

Mappers(a) == {k \in DOMAIN segments : Mapped(segments[k], a)}
MappedByte(a) == ShownBy(segments[Max(Mappers(a))], a)

-----------------------------------------------------------------------------
Done == phase = "done"
Bytes(i) == addr[i] .. End(i) - 1

(* No page is mapped with two permissions, and none belongs to two         *)
(* sections that differ in them: the kernel would give the whole page the  *)
(* permissions of the later segment.                                       *)
PagesHaveOneProtection ==
    Done =>
      /\ \A j, k \in DOMAIN segments :
           segments[j].perm # segments[k].perm =>
             PageOf(segments[j].base + segments[j].memsz - 1) < PageOf(segments[k].base)
             \/ PageOf(segments[k].base + segments[k].memsz - 1) < PageOf(segments[j].base)
      /\ \A i \in DOMAIN sections : \A a \in Bytes(i) :
           segments[Max(Mappers(a))].perm = sections[i].perm

(* What the kernel asks of the PT_LOADs: offsets congruent to addresses,   *)
(* ascending addresses without overlap, file ranges that are in the file   *)
(* and hold neither the headers nor one another, and one protection per    *)
(* page.                                                                   *)
LoadsAreWellFormed ==
    /\ PagesHaveOneProtection
    /\ Done => \A k \in DOMAIN segments :
         LET s == segments[k] IN
         /\ (s.offset - s.base) % Page = 0
         /\ s.filesz <= s.memsz /\ s.memsz > 0
         /\ s.offset >= MetadataEnd(Len(segments) + (IF TlsIds = {} THEN 0 ELSE 1))
         /\ s.filesz > 0 => s.offset + s.filesz - 1 \in DOMAIN file
         /\ k > 1 => /\ segments[k - 1].base + segments[k - 1].memsz <= s.base
                     /\ segments[k - 1].offset + segments[k - 1].filesz <= s.offset

(* A program finds every byte of a section with file data at the address   *)
(* the relocations were applied for, page sharing and rewriting included,  *)
(* and start-up code finds the program headers where PT_PHDR says, outside *)
(* every section, so that memory-only space cannot overwrite them.         *)
TableIsMapped ==
    phdrs.address % Word = 0 /\ \A k \in 0 .. phdrs.size - 1 :
      /\ MappedByte(phdrs.address + k) = TableByte(k)
      /\ \A i \in DOMAIN sections : phdrs.address + k \notin Bytes(i)
FileDataIsMapped ==
    Done => /\ TableIsMapped
            /\ \A i \in DOMAIN sections : ~sections[i].nobits =>
                  \A a \in Bytes(i) : MappedByte(a) = <<i, a - addr[i]>>

(* Memory-only space reads as zero, but for the part that shares its page  *)
(* with the beginning of the next segment (see NobitsReadAsZero).          *)
NobitsAreZeroOffSharedPages ==
    Done => \A i \in DOMAIN sections : sections[i].nobits =>
      \A a \in Bytes(i) : Cardinality(Mappers(a)) = 1 => MappedByte(a) = Zero

(* What the file is mapped to is what was linked.                          *)
MemoryIsAsLinked == FileDataIsMapped /\ NobitsAreZeroOffSharedPages

(* Commons and .bss are SHT_NOBITS: a program finds them zeroed.           *)
NobitsReadAsZero ==
    Done => \A i \in DOMAIN sections : sections[i].nobits =>
      \A a \in Bytes(i) : MappedByte(a) = Zero

(* A thread's start-up code copies the range PT_TLS names to where the     *)
(* block begins, rounded from the thread pointer by the header's fields.   *)
ThreadByte(o) ==
    LET d == o + AlignUp(tls.memsz, tls.align)
    IN IF d \in 0 .. tls.filesz - 1 /\ tlsOffset + d \in DOMAIN file THEN file[tlsOffset + d]
       ELSE Zero

(* At the offsets that relocations were given every thread finds .tdata as *)
(* linked and .tbss zeroed, below the thread pointer, although the block   *)
(* may be cut into several segments; and, if the block's address has the   *)
(* alignment of the block, each section aligned.  It need not have: then   *)
(* thread-locals that ask for more are misaligned.                         *)
TlsImageIsInitial ==
    (Done /\ TlsIds # {}) =>
      \A i \in TlsIds :
        /\ \A a \in Bytes(i) :
             ThreadByte(ThreadOffset(a)) = IF sections[i].nobits THEN Zero ELSE <<i, a - addr[i]>>
        /\ ThreadOffset(End(i)) <= 0
        /\ tls.base % tls.align = 0 /\ sections[i].align > 0 =>
             ThreadOffset(addr[i]) % sections[i].align = 0
=============================================================================
