------------------------------ MODULE TableReaders -------------------------------
(***************************************************************************)
(* How the tables of a shared object are read: the hash look-ups of        *)
(* mini-elf-gnu-hash-lookup and mini-elf-sysv-hash-lookup, the checks and  *)
(* symbol counts of dynamic_provider.rs, and the walks along the version   *)
(* records that dynamic_provider.rs and mini-elf-vercheck make.            *)
(*                                                                         *)
(* Symbol 0 is the null symbol; symbols[k] is symbol k.  A chain of        *)
(* version records is a function of the offsets at which records start.    *)
(***************************************************************************)
EXTENDS Integers, Sequences, FiniteSets, Functions, FiniteSetsExt, SequencesExt

CONSTANTS
    Hash,       \* name -> hash
    BloomBits,  \* the bits of a bloom word; 64
    BloomShift  \* 5

(* The symbols a DT_HASH chain runs through, 0 once it has ended.          *)
SysvChain(t, start) ==
    LET at[k \in 0 .. Len(t.symbols) + 1] ==
          IF k = 0 THEN start ELSE IF at[k - 1] = 0 THEN 0 ELSE t.sysv.chains[at[k - 1]]
    IN at

SysvLookup(t, name) ==
    LET at == SysvChain(t, t.sysv.buckets[Hash[name] % Cardinality(DOMAIN t.sysv.buckets)])
        hits == {k \in DOMAIN at : at[k] # 0 /\ t.symbols[at[k]].name = name}
    IN IF hits = {} THEN 0 ELSE at[Min(hits)]

(* validate_sysv_hash_table: in bounds, and without a cycle.               *)
SysvValid(t) ==
    /\ Range(t.sysv.buckets) \cup Range(t.sysv.chains) \subseteq 0 .. t.sysv.count - 1
    /\ \A b \in DOMAIN t.sysv.buckets :
         LET at == SysvChain(t, t.sysv.buckets[b]) IN at[Len(t.symbols) + 1] = 0

InBloom(t, name) == {Hash[name] % BloomBits, (Hash[name] \div 2 ^ BloomShift) % BloomBits}
                       \subseteq t.gnu.bloom

(* The last symbol of the chain a bucket starts: its lowest bit is set.    *)
GnuLast(t, start) == Min({k \in DOMAIN t.gnu.chains : k >= start /\ t.gnu.chains[k].last})

GnuLookup(t, name) ==
    LET start == t.gnu.buckets[Hash[name] % Cardinality(DOMAIN t.gnu.buckets)]
        hits == {k \in start .. GnuLast(t, start) : /\ t.gnu.chains[k].hash = Hash[name] \div 2
                                                    /\ t.symbols[k].name = name}
    IN IF ~InBloom(t, name) \/ start = 0 \/ hits = {} THEN 0 ELSE Min(hits)

(* validate_gnu_hash_metadata: how many symbols the chains prove there are. *)
GnuCount(t) ==
    LET starts == {t.gnu.buckets[b] : b \in DOMAIN t.gnu.buckets} \ {0}
    IN IF starts = {} THEN t.gnu.offset ELSE Max({GnuLast(t, s) : s \in starts}) + 1

-----------------------------------------------------------------------------
(* The records of a chain of count records: at each, the auxiliary records *)
(* that follow it.  A chain that ends early or late is not ok.             *)
Auxiliaries(area, record) ==
    LET walk[k \in 1 .. area[record].count] ==
          IF k = 1 THEN record + area[record].aux
          ELSE walk[k - 1] + area[walk[k - 1]].next
    IN walk

Records(area, count) ==
    LET walk[k \in 1 .. count] == IF k = 1 THEN 0 ELSE walk[k - 1] + area[walk[k - 1]].next
    IN walk

(* Only the last record of a chain has no next one.                        *)
Ends(area, walk) == \A k \in DOMAIN walk : area[walk[k]].next = 0 <=> k = Cardinality(DOMAIN walk)

ChainsOk(area, count) ==
    count > 0 => LET records == Records(area, count)
                 IN /\ Ends(area, records)
                    /\ \A k \in DOMAIN records : Ends(area, Auxiliaries(area, records[k]))

(* parse_version_definition_indices: the first auxiliary names the version. *)
DefinitionsRead(area, count) ==
    LET records == Records(area, count)
        Indices == {area[records[k]].index : k \in DOMAIN records}
    IN [i \in Indices |->
          LET k == CHOOSE k \in DOMAIN records : area[records[k]].index = i
          IN area[Auxiliaries(area, records[k])[1]].name]

(* mini-elf-vercheck: what each index means.                               *)
DefinitionSources(area, count) ==
    LET records == Records(area, count)
    IN {[index |-> area[records[k]].index, file |-> "",
         version |-> area[Auxiliaries(area, records[k])[1]].name] : k \in DOMAIN records}
RequirementSources(area, count) ==
    LET records == Records(area, count)
    IN UNION {LET aux == Auxiliaries(area, records[k])
              IN {[index |-> area[aux[j]].index, file |-> area[records[k]].file,
                   version |-> area[aux[j]].name] : j \in DOMAIN aux} : k \in DOMAIN records}
=============================================================================
