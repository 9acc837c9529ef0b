------------------------- MODULE RevisionMapperProofs -------------------------
(***************************************************************************)
(* Proofs about RevisionMapper, for any pairs recorded in any order, any   *)
(* failures and any kills.                                                 *)
(***************************************************************************)
EXTENDS RevisionMapper, FiniteSetTheorems, TLAPS

\* The two indexes are each other's inverse.
MutuallyInverse(m) ==
    /\ \A r \in DOMAIN m.byRevision :
          /\ r > 0
          /\ m.byRevision[r] \in DOMAIN m.byGitSha
          /\ m.byGitSha[m.byRevision[r]] = r
    /\ \A s \in DOMAIN m.byGitSha :
          /\ m.byGitSha[s] \in DOMAIN m.byRevision
          /\ m.byRevision[m.byGitSha[s]] = s

Clean(m) == m.duplicateRevisions = {} /\ m.duplicateShas = {}

\* The pair is taken and not refused.
Fresh(m, r, s) ==
    WellFormed(r, s) /\ r \notin DOMAIN m.byRevision /\ s \notin DOMAIN m.byGitSha

LEMMA PartialMapType ==
    ASSUME NEW f
    PROVE  f \in PartialMap <=> DOMAIN f \subseteq Revision /\ f \in [DOMAIN f -> FullSha]
BY DEF PartialMap

LEMMA IndexType ==
    ASSUME NEW f
    PROVE  f \in Index <=> DOMAIN f \subseteq FullSha /\ f \in [DOMAIN f -> Revision]
BY DEF Index

\* n is m with the pair taken, or m with the pair remembered as a duplicate.
Taken(m, r, s, n) ==
    /\ n \in MapperType
    /\ MutuallyInverse(n)
    /\ n.skipped = m.skipped
    /\ Clean(n) <=> Clean(m) /\ Fresh(m, r, s)
    /\ Fresh(m, r, s) => /\ DOMAIN n.byRevision = DOMAIN m.byRevision \cup {r}
                         /\ n.byRevision[r] = s
                         /\ \A q \in DOMAIN m.byRevision :
                               n.byRevision[q] = m.byRevision[q]
    /\ ~Fresh(m, r, s) => n.byRevision = m.byRevision /\ n.byGitSha = m.byGitSha

\* recordMapping takes a pair that is fresh, and remembers every other one as a
\* duplicate; the indexes stay each other's inverse.
LEMMA RecordMappingLemma ==
    ASSUME NEW m \in MapperType, MutuallyInverse(m), NEW r \in Revision,
           NEW s \in FullSha \cup ShortSha, NEW n, n = RecordMapping(m, r, s)
    PROVE  Taken(m, r, s, n)
<1>0. /\ DOMAIN m.byRevision \subseteq Revision
      /\ m.byRevision \in [DOMAIN m.byRevision -> FullSha]
      /\ DOMAIN m.byGitSha \subseteq FullSha
      /\ m.byGitSha \in [DOMAIN m.byGitSha -> Revision]
  BY PartialMapType, IndexType DEF MapperType
<1>1. CASE Fresh(m, r, s)
  <2> DEFINE R == Extended(m.byRevision, r, s)
             G == Extended(m.byGitSha, s, r)
  <2>1. n = [m EXCEPT !.byGitSha = G, !.byRevision = R]
    BY <1>1 DEF RecordMapping, Fresh
  <2>2. s \in FullSha /\ r > 0
    BY <1>1 DEF Fresh, WellFormed
  <2>3. /\ DOMAIN R = DOMAIN m.byRevision \cup {r}
        /\ DOMAIN R \subseteq Revision
        /\ R \in [DOMAIN R -> FullSha]
        /\ \A z \in DOMAIN m.byRevision \cup {r} :
              R[z] = IF z = r THEN s ELSE m.byRevision[z]
    BY <1>0, <2>2 DEF Extended
  <2>4. /\ DOMAIN G = DOMAIN m.byGitSha \cup {s}
        /\ DOMAIN G \subseteq FullSha
        /\ G \in [DOMAIN G -> Revision]
        /\ \A z \in DOMAIN m.byGitSha \cup {s} :
              G[z] = IF z = s THEN r ELSE m.byGitSha[z]
    BY <1>0, <2>2 DEF Extended
  <2> HIDE DEF R, G
  <2>5. R \in PartialMap /\ G \in Index
    BY <2>3, <2>4, PartialMapType, IndexType
  <2>6. /\ n.byRevision = R /\ n.byGitSha = G /\ n.skipped = m.skipped
        /\ n.duplicateRevisions = m.duplicateRevisions
        /\ n.duplicateShas = m.duplicateShas
        /\ n \in MapperType
    BY <2>1, <2>5 DEF MapperType
  <2>7. MutuallyInverse(n)
    BY <2>2, <2>3, <2>4, <2>6, <1>0, <1>1 DEF MutuallyInverse, Fresh
  <2>8. Clean(n) <=> Clean(m) /\ Fresh(m, r, s)
    BY <1>1, <2>6 DEF Clean
  <2>9. /\ DOMAIN n.byRevision = DOMAIN m.byRevision \cup {r}
        /\ n.byRevision[r] = s
        /\ \A q \in DOMAIN m.byRevision : n.byRevision[q] = m.byRevision[q]
    BY <1>1, <2>3, <2>6 DEF Fresh
  <2>10. QED BY <1>1, <2>6, <2>7, <2>8, <2>9 DEF Taken
<1>2. CASE ~Fresh(m, r, s)
  <2>1. CASE ~WellFormed(r, s) \/ r \in DOMAIN m.byRevision
    <3>1. n = [m EXCEPT !.duplicateRevisions = @ \cup {r}]
      BY <2>1 DEF RecordMapping
    <3>2. QED BY <3>1, <1>2 DEF MapperType, MutuallyInverse, Clean, Taken
  <2>2. CASE WellFormed(r, s) /\ r \notin DOMAIN m.byRevision
    <3>1. n = [m EXCEPT !.duplicateShas = @ \cup {s}]
      BY <2>2, <1>2 DEF RecordMapping, Fresh
    <3>2. s \in FullSha
      BY <2>2 DEF WellFormed
    <3>3. QED BY <3>1, <3>2, <1>2 DEF MapperType, MutuallyInverse, Clean, Taken
  <2>3. QED BY <2>1, <2>2
<1>3. QED BY <1>1, <1>2
-----------------------------------------------------------------------------
AllDifferent ==
    /\ \A i \in Given : WellFormed(calls[i][1], calls[i][2])
    /\ \A i, j \in Given :
          calls[i][1] = calls[j][1] \/ calls[i][2] = calls[j][2] => i = j

\* Nothing is in the map that was not recorded, and if nothing was refused everything
\* that was recorded is in it.
Faithful ==
    /\ Clean(mapper) <=> AllDifferent
    /\ \A r \in DOMAIN mapper.byRevision :
          \E i \in Given : calls[i] = <<r, mapper.byRevision[r]>>
    /\ Clean(mapper) => \A i \in Given :
          /\ calls[i][1] \in DOMAIN mapper.byRevision
          /\ mapper.byRevision[calls[i][1]] = calls[i][2]
    /\ IsFiniteSet(DOMAIN mapper.byRevision)

WholeDb(d) ==
    d.rows = Nothing \/ (d.tables = Tables /\ d.total = Cardinality(DOMAIN d.rows))

\* What generateMappingDatabase has written when it stands at statement step.
Writing ==
    /\ WholeDb(disk)
    /\ step <= Tables => work = disk
    /\ step \in 1 .. Tables => work.tables = step
    /\ step > Tables => work.tables = Tables
    /\ step \in 1 .. Tables + 1 => work.rows = Nothing
    /\ step \in 0 .. Tables + 1 => left = DOMAIN mapper.byRevision
    /\ step = Tables + 2 =>
          /\ work.total = Total
          /\ work.rows = [r \in DOMAIN mapper.byRevision \ left |-> mapper.byRevision[r]]
    /\ "database" \in told =>
          step = Closed /\ disk.rows = mapper.byRevision /\ disk.total = Total
    /\ "json" \in told => json.rows = mapper.byRevision /\ json.total = Total

IInv == TypeOK /\ MutuallyInverse(mapper) /\ Faithful /\ Writing

LEMMA Types ==
    /\ Revision \subseteq Int
    /\ \A c \in Call : c[1] \in Revision /\ c[2] \in FullSha \cup ShortSha
    /\ MaxCalls \in Nat /\ MaxFaults \in Nat
    /\ Tables = 3 /\ Closed = -1
BY RevisionMapperAssumption DEF Revision, Tables, Closed

LEMMA NothingType ==
    /\ Nothing \in PartialMap /\ Nothing \in Index
    /\ DOMAIN Nothing = {}
    /\ EmptyMap \in MapperType /\ MutuallyInverse(EmptyMap) /\ Clean(EmptyMap)
    /\ EmptyMap.byRevision = Nothing
    /\ IsFiniteSet({}) /\ Cardinality({}) = 0
<1>1. DOMAIN Nothing = {} /\ Nothing \in [{} -> FullSha] /\ Nothing \in [{} -> Revision]
  BY DEF Nothing
<1>2. Nothing \in PartialMap /\ Nothing \in Index
  BY <1>1, PartialMapType, IndexType
<1>3. EmptyMap \in MapperType
  BY <1>2 DEF EmptyMap, MapperType
<1>4. MutuallyInverse(EmptyMap) /\ Clean(EmptyMap) /\ EmptyMap.byRevision = Nothing
  BY <1>1 DEF EmptyMap, MutuallyInverse, Clean
<1>5. QED BY <1>1, <1>2, <1>3, <1>4, FS_EmptySet

LEMMA TotalType ==
    ASSUME IsFiniteSet(DOMAIN mapper.byRevision)
    PROVE  Total \in Nat
BY FS_CardinalityType DEF Total

LEMMA InitIInv == Init => IInv
<1> SUFFICES ASSUME Init PROVE IInv
  OBVIOUS
<1>1. TypeOK
  BY NothingType, Types DEF Init, TypeOK, NoMap, NewDb
<1>2. MutuallyInverse(mapper)
  BY NothingType DEF Init
<1>3. Faithful
  BY NothingType DEF Init, Faithful, AllDifferent, Given
<1>4. Writing
  BY NothingType, Types DEF Init, Writing, WholeDb, NoMap, NewDb
<1>5. QED BY <1>1, <1>2, <1>3, <1>4 DEF IInv

\* What recording a pair does to the history and the map together.
LEMMA RecordFaithful ==
    ASSUME IInv, NEW c \in Call, Record(c)
    PROVE  /\ mapper' \in MapperType
           /\ MutuallyInverse(mapper)'
           /\ Faithful'
<1> DEFINE m == mapper
           n == RecordMapping(mapper, c[1], c[2])
<1>0. /\ c[1] \in Revision /\ c[2] \in FullSha \cup ShortSha
      /\ m \in MapperType /\ MutuallyInverse(m) /\ calls \in Seq(Call)
  BY Types DEF IInv, TypeOK
<1>1. /\ n \in MapperType
      /\ MutuallyInverse(n)
      /\ n.skipped = m.skipped
      /\ Clean(n) <=> Clean(m) /\ Fresh(m, c[1], c[2])
      /\ Fresh(m, c[1], c[2]) =>
           /\ DOMAIN n.byRevision = DOMAIN m.byRevision \cup {c[1]}
           /\ n.byRevision[c[1]] = c[2]
           /\ \A q \in DOMAIN m.byRevision : n.byRevision[q] = m.byRevision[q]
      /\ ~Fresh(m, c[1], c[2]) =>
           n.byRevision = m.byRevision /\ n.byGitSha = m.byGitSha
  <2>1. Taken(m, c[1], c[2], n)
    BY <1>0, RecordMappingLemma
  <2>2. QED BY <2>1 DEF Taken
<1>2. mapper' = n /\ calls' = Append(calls, c)
  BY DEF Record
<1> DEFINE k == Len(calls) + 1
<1>3. /\ Given' = Given \cup {k} /\ k \notin Given
      /\ calls'[k] = c
      /\ \A i \in Given : calls'[i] = calls[i] /\ i # k
      /\ \A i \in Given : calls[i] \in Call
  BY <1>0, <1>2 DEF Given
<1> HIDE DEF n, k
<1>4. AllDifferent' <=> /\ AllDifferent
                        /\ WellFormed(c[1], c[2])
                        /\ \A i \in Given : calls[i][1] # c[1] /\ calls[i][2] # c[2]
  <2>1. ASSUME AllDifferent'
        PROVE  /\ AllDifferent
               /\ WellFormed(c[1], c[2])
               /\ \A i \in Given : calls[i][1] # c[1] /\ calls[i][2] # c[2]
    BY <2>1, <1>3 DEF AllDifferent
  <2>2. ASSUME AllDifferent, WellFormed(c[1], c[2]),
               \A i \in Given : calls[i][1] # c[1] /\ calls[i][2] # c[2]
        PROVE  AllDifferent'
    BY <2>2, <1>3 DEF AllDifferent
  <2>3. QED BY <2>1, <2>2
<1>5. Clean(m) => (Fresh(m, c[1], c[2]) <=>
                     /\ WellFormed(c[1], c[2])
                     /\ \A i \in Given : calls[i][1] # c[1] /\ calls[i][2] # c[2])
  <2> SUFFICES ASSUME Clean(m)
               PROVE  Fresh(m, c[1], c[2]) <=>
                        /\ WellFormed(c[1], c[2])
                        /\ \A i \in Given : calls[i][1] # c[1] /\ calls[i][2] # c[2]
    OBVIOUS
  <2>1. \A i \in Given : calls[i][1] \in DOMAIN m.byRevision
                         /\ m.byRevision[calls[i][1]] = calls[i][2]
    BY DEF IInv, Faithful
  <2>2. \A r \in DOMAIN m.byRevision :
           \E i \in Given : calls[i][1] = r /\ calls[i][2] = m.byRevision[r]
    <3>1. \A r \in DOMAIN m.byRevision : \E i \in Given : calls[i] = <<r, m.byRevision[r]>>
      BY DEF IInv, Faithful
    <3> SUFFICES ASSUME NEW r \in DOMAIN m.byRevision
                 PROVE  \E i \in Given : calls[i][1] = r /\ calls[i][2] = m.byRevision[r]
      OBVIOUS
    <3>2. PICK i \in Given : calls[i] = <<r, m.byRevision[r]>>
      BY <3>1
    <3> DEFINE pair == calls[i]
    <3>3. pair[1] = r /\ pair[2] = m.byRevision[r]
      BY <3>2
    <3>4. QED BY <3>3
  <2>3. (c[1] \in DOMAIN m.byRevision) <=> \E i \in Given : calls[i][1] = c[1]
    BY <2>1, <2>2
  <2>4. (c[2] \in DOMAIN m.byGitSha) <=> \E i \in Given : calls[i][2] = c[2]
    BY <2>1, <2>2, <1>0 DEF MutuallyInverse
  <2>5. QED BY <2>3, <2>4 DEF Fresh
<1>6. Clean(n) <=> AllDifferent'
  BY <1>1, <1>4, <1>5 DEF IInv, Faithful
<1>7. \A r \in DOMAIN n.byRevision : \E i \in Given' : calls'[i] = <<r, n.byRevision[r]>>
  <2> SUFFICES ASSUME NEW r \in DOMAIN n.byRevision
               PROVE  \E i \in Given' : calls'[i] = <<r, n.byRevision[r]>>
    OBVIOUS
  <2>1. CASE r \in DOMAIN m.byRevision
    <3>1. PICK i \in Given : calls[i] = <<r, m.byRevision[r]>>
      BY <2>1 DEF IInv, Faithful
    <3>2. n.byRevision[r] = m.byRevision[r]
      BY <2>1, <1>1
    <3>3. QED BY <3>1, <3>2, <1>3
  <2>2. CASE r \notin DOMAIN m.byRevision
    <3>1. r = c[1] /\ n.byRevision[r] = c[2]
      BY <2>2, <1>1
    <3>2. c = <<c[1], c[2]>>
      BY RevisionMapperAssumption
    <3>3. QED BY <3>1, <3>2, <1>3
  <2>3. QED BY <2>1, <2>2
<1>8. Clean(n) => \A i \in Given' : /\ calls'[i][1] \in DOMAIN n.byRevision
                                    /\ n.byRevision[calls'[i][1]] = calls'[i][2]
  BY <1>1, <1>3 DEF IInv, Faithful
<1>9. IsFiniteSet(DOMAIN n.byRevision)
  BY <1>1, FS_AddElement DEF IInv, Faithful
<1>10. QED BY <1>1, <1>2, <1>6, <1>7, <1>8, <1>9 DEF Faithful

\* Every step but recording and restarting leaves the history and the indexes alone;
\* skipping a revision only adds to the skipped ones.
LEMMA SameFaithful ==
    ASSUME IInv, calls' = calls, mapper' = mapper
    PROVE  mapper' \in MapperType /\ MutuallyInverse(mapper)' /\ Faithful'
BY DEF IInv, TypeOK, MutuallyInverse, Faithful, Clean, AllDifferent, Given

\* The rows are those of the map with one more inserted.
LEMMA ExtendedRows ==
    ASSUME NEW f, NEW D \in SUBSET DOMAIN f, NEW x \in DOMAIN f, NEW g, NEW h,
           g = [z \in D |-> f[z]], h = Extended(g, x, f[x])
    PROVE  h = [z \in D \cup {x} |-> f[z]]
BY DEF Extended

LEMMA SomeRows ==
    ASSUME NEW f \in PartialMap, NEW D \in SUBSET DOMAIN f
    PROVE  [z \in D |-> f[z]] \in PartialMap
<1>1. DOMAIN f \subseteq Revision /\ f \in [DOMAIN f -> FullSha]
  BY PartialMapType
<1> DEFINE g == [z \in D |-> f[z]]
<1>2. DOMAIN g \subseteq Revision /\ g \in [DOMAIN g -> FullSha]
  BY <1>1
<1> HIDE DEF g
<1>3. g \in PartialMap
  BY <1>2, PartialMapType
<1>4. QED BY <1>3 DEF g

LEMMA RecordStep == ASSUME IInv, NEW c \in Call, Record(c) PROVE IInv'
<1>1. mapper' \in MapperType /\ MutuallyInverse(mapper)' /\ Faithful'
  BY RecordFaithful
<1>2. TypeOK'
  <2>1. calls' \in Seq(Call)
    BY DEF Record, IInv, TypeOK
  <2>2. nCalls' \in 0 .. MaxCalls
    BY Types DEF Record, IInv, TypeOK
  <2>3. left' \subseteq DOMAIN (mapper.byRevision)'
    <3>1. \A r \in DOMAIN mapper.byRevision : r \in DOMAIN (mapper.byRevision)'
      <4>1. Taken(mapper, c[1], c[2], RecordMapping(mapper, c[1], c[2]))
        BY RecordMappingLemma, Types DEF IInv, TypeOK
      <4>2. QED BY <4>1 DEF Taken, Record
    <3>2. QED BY <3>1 DEF Record, IInv, TypeOK
  <2>4. QED BY <1>1, <2>1, <2>2, <2>3 DEF Record, IInv, TypeOK
<1>3. Writing'
  BY Types DEF Record, Idle, IInv, Writing, WholeDb
<1>4. QED BY <1>1, <1>2, <1>3 DEF IInv

LEMMA SkipStep == ASSUME IInv, NEW r \in Skip, SkipRevision(r) PROVE IInv'
<1>1. /\ mapper' \in MapperType
      /\ mapper'.byRevision = mapper.byRevision
      /\ mapper'.byGitSha = mapper.byGitSha
      /\ mapper'.duplicateRevisions = mapper.duplicateRevisions
      /\ mapper'.duplicateShas = mapper.duplicateShas
  BY DEF SkipRevision, RecordSkippedRevision, IInv, TypeOK, MapperType
<1>2. TypeOK'
  BY <1>1, Types DEF SkipRevision, IInv, TypeOK
<1>3. MutuallyInverse(mapper)'
  BY <1>1 DEF IInv, MutuallyInverse
<1>4. Faithful'
  <2>1. calls' = calls
    BY DEF SkipRevision
  <2>2. AllDifferent' <=> AllDifferent
    BY <2>1 DEF AllDifferent, Given
  <2>3. QED BY <1>1, <2>1, <2>2 DEF IInv, Faithful, Clean, Given
<1>5. Writing'
  BY <1>1, Types DEF SkipRevision, Idle, IInv, Writing, WholeDb
<1>6. QED BY <1>1, <1>2, <1>3, <1>4, <1>5 DEF IInv

LEMMA FileStep == ASSUME IInv, GenerateMappingFile \/ FailMappingFile PROVE IInv'
<1>1. mapper' = mapper /\ calls' = calls
  BY DEF GenerateMappingFile, FailMappingFile
<1>2. mapper' \in MapperType /\ MutuallyInverse(mapper)' /\ Faithful'
  BY <1>1, SameFaithful
<1>3. json' \in [total : Nat, rows : PartialMap]
  <2>1. Total \in Nat /\ mapper.byRevision \in PartialMap
    BY TotalType DEF IInv, Faithful, TypeOK, MapperType
  <2>2. QED BY <2>1, NothingType DEF GenerateMappingFile, FailMappingFile, NoMap,
                                    IInv, TypeOK
<1>4. TypeOK'
  <2>1. told' \subseteq {"json", "database"}
    BY DEF GenerateMappingFile, FailMappingFile, IInv, TypeOK
  <2>0. nFaults' \in 0 .. MaxFaults
    <3>1. nFaults \in 0 .. MaxFaults
      BY DEF IInv, TypeOK
    <3>2. nFaults' = nFaults \/ (nFaults < MaxFaults /\ nFaults' = nFaults + 1)
      BY DEF GenerateMappingFile, FailMappingFile
    <3>3. QED BY <3>1, <3>2, Types
  <2>2. UNCHANGED <<disk, work, step, left, calls, nCalls>>
    BY DEF GenerateMappingFile, FailMappingFile
  <2>3. QED BY <1>1, <1>2, <1>3, <2>0, <2>1, <2>2 DEF IInv, TypeOK
<1>5. Writing'
  <2>1. Total' = Total
    BY <1>1 DEF Total
  <2>2. QED BY <1>1, <2>1, Types DEF GenerateMappingFile, FailMappingFile, IInv,
                                     Writing, WholeDb, Idle
<1>6. QED BY <1>2, <1>4, <1>5 DEF IInv

LEMMA OpenStep == ASSUME IInv, NEW removed \in BOOLEAN, OpenDatabase(removed) PROVE IInv'
<1>1. mapper' = mapper /\ calls' = calls
  BY DEF OpenDatabase
<1>2. mapper' \in MapperType /\ MutuallyInverse(mapper)' /\ Faithful'
  BY <1>1, SameFaithful
<1>3. NewDb \in [tables : 0 .. Tables, total : Nat, rows : PartialMap]
  BY NothingType, Types DEF NewDb
<1>4. TypeOK'
  BY <1>1, <1>2, <1>3, Types DEF OpenDatabase, IInv, TypeOK
<1>5. Writing'
  <2>1. Total' = Total /\ WholeDb(NewDb)
    BY <1>1 DEF Total, WholeDb, NewDb
  <2>2. WholeDb(disk)'
    BY <2>1 DEF OpenDatabase, IInv, Writing, WholeDb
  <2>3. QED BY <1>1, <2>1, <2>2, Types DEF OpenDatabase, IInv, TypeOK, Writing, Idle
<1>6. QED BY <1>2, <1>4, <1>5 DEF IInv

LEMMA SchemaStep == ASSUME IInv, CreateTable \/ BeginTransaction PROVE IInv'
<1>1. mapper' = mapper /\ calls' = calls /\ Total' = Total
  BY DEF CreateTable, BeginTransaction, Executed, Total
<1>2. mapper' \in MapperType /\ MutuallyInverse(mapper)' /\ Faithful'
  BY <1>1, SameFaithful
<1>3. work' \in [tables : 0 .. Tables, total : Nat, rows : PartialMap]
  BY Types DEF CreateTable, BeginTransaction, IInv, TypeOK
<1>4. TypeOK'
  BY <1>1, <1>2, <1>3, Types DEF CreateTable, BeginTransaction, Executed, IInv, TypeOK
<1>5. Writing'
  <2>1. CASE CreateTable
    <3>1. work = disk /\ work.rows = Nothing /\ work.tables = step
      BY <2>1, Types DEF CreateTable, IInv, TypeOK, Writing, WholeDb
    <3>2. work'.rows = Nothing /\ work'.tables = step + 1 /\ step' = step + 1
          /\ disk' = work' /\ step + 1 \in 1 .. Tables
      BY <2>1, <3>1, Types DEF CreateTable, Executed, InTransaction, IInv, TypeOK
    <3>3. QED BY <1>1, <2>1, <3>1, <3>2, Types DEF CreateTable, Executed, IInv, TypeOK,
                                                   Writing, WholeDb
  <2>2. CASE BeginTransaction
    BY <1>1, <2>2, Types DEF BeginTransaction, Executed, InTransaction, IInv, TypeOK,
                             Writing, WholeDb
  <2>3. QED BY <2>1, <2>2
<1>6. QED BY <1>2, <1>4, <1>5 DEF IInv

LEMMA MetadataStep == ASSUME IInv, InsertMetadata PROVE IInv'
<1>1. mapper' = mapper /\ calls' = calls /\ Total' = Total
  BY DEF InsertMetadata, Executed, Total
<1>2. mapper' \in MapperType /\ MutuallyInverse(mapper)' /\ Faithful'
  BY <1>1, SameFaithful
<1>3. Total \in Nat
  BY TotalType DEF IInv, Faithful
<1>4. /\ work' \in [tables : 0 .. Tables, total : Nat, rows : PartialMap]
      /\ work'.total = Total /\ work'.rows = Nothing /\ work'.tables = Tables
      /\ step' = Tables + 2 /\ disk' = disk /\ left' = DOMAIN mapper.byRevision
  <2>1. step = Tables + 1 /\ work \in [tables : 0 .. Tables, total : Nat, rows : PartialMap]
    BY DEF InsertMetadata, IInv, TypeOK
  <2>2. work.tables = Tables /\ work.rows = Nothing /\ left = DOMAIN mapper.byRevision
    BY <2>1, Types DEF IInv, Writing
  <2>3. work' = [work EXCEPT !.total = Total] /\ step' = step + 1 /\ disk' = disk /\ left' = left
    BY <2>1, Types DEF InsertMetadata, Executed, InTransaction
  <2>4. QED BY <1>3, <2>1, <2>2, <2>3, Types
<1>5. TypeOK'
  BY <1>1, <1>2, <1>4, Types DEF InsertMetadata, Executed, IInv, TypeOK
<1>6. Writing'
  <2>1. Nothing = [r \in DOMAIN mapper'.byRevision \ left' |-> mapper'.byRevision[r]]
    BY <1>1, <1>4 DEF Nothing
  <2>2. QED BY <1>1, <1>4, <2>1, Types DEF InsertMetadata, Executed, IInv, Writing, WholeDb
<1>7. QED BY <1>2, <1>5, <1>6 DEF IInv

LEMMA RowStep == ASSUME IInv, NEW r \in left, InsertRow(r) PROVE IInv'
<1>1. mapper' = mapper /\ calls' = calls /\ Total' = Total
  BY DEF InsertRow, Executed, Total
<1>2. mapper' \in MapperType /\ MutuallyInverse(mapper)' /\ Faithful'
  BY <1>1, SameFaithful
<1> DEFINE f == mapper.byRevision
           D == DOMAIN f \ left
<1>3. f \in PartialMap /\ r \in DOMAIN f /\ D \in SUBSET DOMAIN f
  BY DEF IInv, TypeOK, MapperType
<1>4. work.rows = [z \in D |-> f[z]]
  BY DEF IInv, Writing, InsertRow
<1>5. work' = [work EXCEPT !.rows = Extended(work.rows, r, f[r])]
  BY DEF InsertRow
<1>6. DOMAIN f \ left' = D \cup {r}
  BY <1>3 DEF InsertRow
<1> HIDE DEF f, D
<1>7. Extended(work.rows, r, f[r]) = [z \in D \cup {r} |-> f[z]]
  BY <1>3, <1>4, ExtendedRows
<1>8. Extended(work.rows, r, f[r]) \in PartialMap
  BY <1>3, <1>7, SomeRows
<1>9. /\ work' \in [tables : 0 .. Tables, total : Nat, rows : PartialMap]
      /\ work'.total = work.total /\ work'.tables = work.tables
      /\ work'.rows = [z \in D \cup {r} |-> f[z]]
      /\ step' = step /\ disk' = disk /\ step = Tables + 2
  BY <1>5, <1>7, <1>8, Types DEF InsertRow, Executed, InTransaction, IInv, TypeOK
<1>10. TypeOK'
  BY <1>1, <1>2, <1>9, Types DEF InsertRow, Executed, IInv, TypeOK
<1>11. Writing'
  <2>1. work'.rows = [z \in DOMAIN mapper'.byRevision \ left' |-> mapper'.byRevision[z]]
    BY <1>1, <1>6, <1>9 DEF f
  <2>2. QED BY <1>1, <1>9, <2>1, Types DEF InsertRow, Executed, IInv, Writing, WholeDb
<1>12. QED BY <1>2, <1>10, <1>11 DEF IInv

LEMMA CommitStep == ASSUME IInv, Commit PROVE IInv'
<1>1. mapper' = mapper /\ calls' = calls /\ Total' = Total
  BY DEF Commit, Total
<1>2. mapper' \in MapperType /\ MutuallyInverse(mapper)' /\ Faithful'
  BY <1>1, SameFaithful
<1>3. TypeOK'
  BY <1>1, <1>2, Types DEF Commit, IInv, TypeOK
<1>4. Writing'
  <2>1. work.rows = mapper.byRevision
    <3>1. work.rows = [r \in DOMAIN mapper.byRevision |-> mapper.byRevision[r]]
      BY DEF Commit, IInv, Writing
    <3>2. mapper.byRevision \in PartialMap
      BY DEF IInv, TypeOK, MapperType
    <3>3. mapper.byRevision \in [DOMAIN mapper.byRevision -> FullSha]
      BY <3>2, PartialMapType
    <3>4. QED BY <3>1, <3>3
  <2>2. work.total = Total /\ work.tables = Tables
    BY Types DEF Commit, IInv, Writing
  <2>3. WholeDb(disk)'
    BY <2>1, <2>2 DEF Commit, WholeDb, Total
  <2>4. QED BY <1>1, <2>1, <2>2, <2>3, Types DEF Commit, IInv, Writing
<1>5. QED BY <1>2, <1>3, <1>4 DEF IInv

LEMMA FailStep == ASSUME IInv, FailDatabase PROVE IInv'
<1>1. mapper' = mapper /\ calls' = calls /\ Total' = Total
  BY DEF FailDatabase, Total
<1>2. mapper' \in MapperType /\ MutuallyInverse(mapper)' /\ Faithful'
  BY <1>1, SameFaithful
<1>3. TypeOK'
  BY <1>1, <1>2, Types DEF FailDatabase, IInv, TypeOK
<1>4. Writing'
  BY <1>1, Types DEF FailDatabase, Idle, IInv, Writing, WholeDb
<1>5. QED BY <1>2, <1>3, <1>4 DEF IInv

LEMMA RestartStep == ASSUME IInv, Restart PROVE IInv'
<1>1. /\ mapper' = EmptyMap /\ calls' = <<>> /\ told' = {}
      /\ left' = {} /\ step' = Closed /\ disk' = disk /\ work' = disk
      /\ json' = json /\ nCalls' = nCalls /\ nFaults' \in 0 .. MaxFaults
  BY Types DEF Restart, IInv, TypeOK
<1>2. TypeOK'
  BY <1>1, NothingType, Types DEF IInv, TypeOK
<1>3. MutuallyInverse(mapper)'
  BY <1>1, NothingType
<1>4. Faithful'
  BY <1>1, NothingType DEF Faithful, AllDifferent, Given
<1>5. Writing'
  BY <1>1, Types DEF IInv, Writing, WholeDb
<1>6. QED BY <1>2, <1>3, <1>4, <1>5 DEF IInv

LEMMA NextIInv == IInv /\ [Next]_vars => IInv'
<1> SUFFICES ASSUME IInv, [Next]_vars PROVE IInv'
  OBVIOUS
<1>1. CASE Next
  BY <1>1, RecordStep, SkipStep, FileStep, OpenStep, SchemaStep, MetadataStep, RowStep,
     CommitStep, FailStep, RestartStep DEF Next
<1>2. CASE UNCHANGED vars
  <2>1. mapper' \in MapperType /\ MutuallyInverse(mapper)' /\ Faithful'
    BY <1>2, SameFaithful DEF vars
  <2>2. TypeOK' /\ Writing'
    BY <1>2 DEF vars, IInv, TypeOK, Writing, WholeDb, Total
  <2>3. QED BY <2>1, <2>2 DEF IInv
<1>3. QED BY <1>1, <1>2

LEMMA Invariance == Spec => []IInv
BY InitIInv, NextIInv, PTL DEF Spec

LEMMA SameSize ==
    ASSUME IInv
    PROVE  Cardinality(DOMAIN mapper.byRevision) = Cardinality(DOMAIN mapper.byGitSha)
<1> DEFINE f == mapper.byRevision
           S == DOMAIN f
           T == DOMAIN mapper.byGitSha
<1>1. f \in PartialMap /\ IsFiniteSet(S) /\ MutuallyInverse(mapper)
  BY DEF IInv, TypeOK, MapperType, Faithful
<1>2. f \in [S -> T]
  <2>1. f \in [S -> FullSha]
    BY <1>1, PartialMapType
  <2>2. QED BY <2>1, <1>1 DEF MutuallyInverse
<1>3. \A a, b \in S : f[a] = f[b] => a = b
  BY <1>1 DEF MutuallyInverse
<1>4. \A t \in T : \E a \in S : f[a] = t
  BY <1>1 DEF MutuallyInverse
<1> HIDE DEF f, S, T
<1>5. f \in Bijection(S, T)
  BY <1>2, <1>3, <1>4 DEF Bijection, Injection, Surjection, IsInjective
<1>6. Cardinality(T) = Cardinality(S)
  BY <1>1, <1>5, FS_Bijection DEF ExistsBijection
<1>7. QED BY <1>6 DEF S, T, f

LEMMA IndexFinite == ASSUME IInv PROVE IsFiniteSet(DOMAIN mapper.byGitSha)
<1> DEFINE T == DOMAIN mapper.byGitSha
           S == DOMAIN mapper.byRevision
           g == mapper.byGitSha
<1>1. IsFiniteSet(S) /\ MutuallyInverse(mapper) /\ g \in Index
  BY DEF IInv, Faithful, TypeOK, MapperType
<1>2. g \in [T -> S]
  <2>1. g \in [T -> Revision]
    BY <1>1, IndexType
  <2>2. QED BY <2>1, <1>1 DEF MutuallyInverse
<1>3. \A a, b \in T : g[a] = g[b] => a = b
  BY <1>1 DEF MutuallyInverse
<1> HIDE DEF g, S, T
<1>4. g \in Injection(T, S)
  BY <1>2, <1>3 DEF Injection, IsInjective
<1>5. IsFiniteSet(T)
  BY <1>1, <1>4, FS_Injection
<1>6. QED BY <1>5 DEF T

LEMMA RangeUnion ==
    ASSUME NEW S, NEW r
    PROVE  r \in UNION {first .. last : first, last \in S} <=> \E a, b \in S : r \in a .. b
<1> DEFINE I == {first .. last : first, last \in S}
<1>1. ASSUME r \in UNION I PROVE \E a, b \in S : r \in a .. b
  <2>1. PICK i \in I : r \in i
    BY <1>1
  <2>2. PICK a, b \in S : i = a .. b
    OBVIOUS
  <2>3. QED BY <2>1, <2>2
<1>2. ASSUME NEW a \in S, NEW b \in S, r \in a .. b PROVE r \in UNION I
  <2>1. a .. b \in I
    OBVIOUS
  <2> HIDE DEF I
  <2>2. QED BY <2>1, <1>2
<1>3. QED BY <1>1, <1>2

LEMMA Verdict == IInv => OneToOneExact
<1> SUFFICES ASSUME IInv PROVE ValidateOneToOneMapping(mapper) <=> OneToOne
  BY DEF OneToOneExact
<1> DEFINE D == DOMAIN mapper.byRevision
<1>1. Clean(mapper) <=> AllDifferent
  BY DEF IInv, Faithful
<1>2. CASE ~Clean(mapper)
  BY <1>1, <1>2 DEF Clean, AllDifferent, ValidateOneToOneMapping, OneToOne
<1>3. CASE Clean(mapper)
  <2>1. \A i \in Given : calls[i][1] \in D
    BY <1>3 DEF IInv, Faithful
  <2>2. \A r \in D : \E i \in Given : calls[i][1] = r
    <3> SUFFICES ASSUME NEW r \in D PROVE \E i \in Given : calls[i][1] = r
      OBVIOUS
    <3>1. PICK i \in Given : calls[i] = <<r, mapper.byRevision[r]>>
      BY DEF IInv, Faithful
    <3> DEFINE pair == calls[i]
    <3>2. pair[1] = r
      BY <3>1
    <3>3. QED BY <3>2
  <2>3. (calls # <<>>) <=> (D # {})
    <3>1. calls \in Seq(Call)
      BY DEF IInv, TypeOK
    <3>2. (calls # <<>>) <=> (Given # {})
      <4>1. Given = 1 .. Len(calls) /\ Len(calls) \in Nat
        BY <3>1 DEF Given
      <4>2. (calls = <<>>) <=> (Len(calls) = 0)
        BY <3>1
      <4>3. QED BY <4>1, <4>2
    <3>3. QED BY <3>2, <2>1, <2>2
  <2>4. MissingRevisions(mapper) = {} <=>
          \A i, j \in Given : \A r \in calls[i][1] .. calls[j][1] :
             r \in mapper.skipped \/ \E k \in Given : calls[k][1] = r
    <3>1. MissingRevisions(mapper) = {} <=>
            \A a, b \in D : \A r \in a .. b : r \in mapper.skipped \/ r \in D
      <4>1. \A r : r \in MissingRevisions(mapper) <=>
                     /\ \E a, b \in D : r \in a .. b
                     /\ ~(r \in mapper.skipped \/ r \in D)
        BY RangeUnion DEF MissingRevisions
      <4>2. QED BY <4>1
    <3> HIDE DEF D
    <3>2. QED BY <3>1, <2>1, <2>2
  <2>5. Cardinality(D) = Cardinality(DOMAIN mapper.byGitSha)
    BY SameSize
  <2>6. QED BY <1>1, <1>3, <2>3, <2>4, <2>5
            DEF Clean, AllDifferent, ValidateOneToOneMapping, OneToOne
<1>4. QED BY <1>2, <1>3

LEMMA Lookup == IInv => LookupsExact
<1> SUFFICES ASSUME IInv, NEW query \in Query, NEW r \in Revision
             PROVE  FindSvnRevisionByGitCommit(mapper, query) = r /\ r # NoRevision <=>
                      /\ FindGitCommitBySvnRevision(mapper, r) # NoCommit
                      /\ \A q \in DOMAIN mapper.byRevision :
                            Begins(query, mapper.byRevision[q]) <=> q = r
  BY DEF LookupsExact
<1> DEFINE R == mapper.byRevision
           G == mapper.byGitSha
           found == {sha \in DOMAIN G : Begins(query, sha)}
<1>1. MutuallyInverse(mapper) /\ IsFiniteSet(DOMAIN R) /\ R \in PartialMap
  BY DEF IInv, Faithful, TypeOK, MapperType
<1>2. \A q \in DOMAIN R : q > 0 /\ R[q] \in DOMAIN G /\ G[R[q]] = q
  BY <1>1 DEF MutuallyInverse
<1>3. \A s \in DOMAIN G : G[s] \in DOMAIN R /\ R[G[s]] = s
  BY <1>1 DEF MutuallyInverse
<1>4. IsFiniteSet(found)
  <2>1. IsFiniteSet(DOMAIN G)
    BY IndexFinite
  <2>2. QED BY <2>1, FS_Subset
<1>5. Cardinality(found) = 1 <=> \E x : found = {x}
  BY <1>4, FS_Singleton
<1>6. (FindGitCommitBySvnRevision(mapper, r) # NoCommit) <=> (r \in DOMAIN R)
  <2>1. r \in DOMAIN R => R[r] # NoCommit
    <3>1. r \in DOMAIN R => R[r] \in FullSha
      BY <1>1, PartialMapType
    <3>2. \A sha \in FullSha : sha # NoCommit
      <4>1. \A a \in Digits7, c \in Digits33 : <<a, c>> # <<>>
        BY ONLY TRUE
      <4>2. \A sha \in Digits7 \X Digits33 : \E a \in Digits7, c \in Digits33 : sha = <<a, c>>
        BY ONLY TRUE
      <4>3. QED BY <4>1, <4>2 DEF FullSha, NoCommit
    <3>3. QED BY <3>1, <3>2
  <2>2. QED BY <2>1 DEF FindGitCommitBySvnRevision
<1> HIDE DEF R, G
<1>7. ASSUME FindSvnRevisionByGitCommit(mapper, query) = r, r # NoRevision
      PROVE  r \in DOMAIN R /\ \A q \in DOMAIN R : Begins(query, R[q]) <=> q = r
  <2>1. Cardinality(found) = 1 /\ r = G[CHOOSE sha \in found : TRUE]
    BY <1>7 DEF FindSvnRevisionByGitCommit, G
  <2>2. PICK x : found = {x}
    BY <2>1, <1>5
  <2>3. r = G[x] /\ x \in DOMAIN G
    BY <2>1, <2>2
  <2>4. QED BY <2>2, <2>3, <1>2, <1>3
<1>8. ASSUME r \in DOMAIN R, \A q \in DOMAIN R : Begins(query, R[q]) <=> q = r
      PROVE  FindSvnRevisionByGitCommit(mapper, query) = r /\ r # NoRevision
  <2>1. found = {R[r]}
    BY <1>8, <1>2, <1>3
  <2>2. Cardinality(found) = 1
    BY <2>1, <1>5
  <2>3. FindSvnRevisionByGitCommit(mapper, query) = G[R[r]]
    BY <2>1, <2>2 DEF FindSvnRevisionByGitCommit, G
  <2>4. r # NoRevision
    BY <1>8, <1>2 DEF NoRevision
  <2>5. QED BY <2>3, <2>4, <1>8, <1>2
<1>9. QED BY <1>6, <1>7, <1>8 DEF R

LEMMA Artifacts == IInv => ArtifactsWhole
BY Types DEF IInv, Writing, WholeDb, ArtifactsWhole

\* The mapper of src/src/revision_mapper.cpp and its two files always have their types.
THEOREM TypeCorrect == Spec => []TypeOK
BY Invariance, PTL DEF IInv

\* validateOneToOneMapping passes exactly when what was recorded is one to one and
\* without holes, whatever is recorded in whatever order.
THEOREM VerdictExact == Spec => []OneToOneExact
BY Invariance, Verdict, PTL

\* findSvnRevisionByGitCommit never answers an ambiguous or unknown name, and its
\* answers are inverse to those of findGitCommitBySvnRevision.
THEOREM LookupsAreExact == Spec => []LookupsExact
BY Invariance, Lookup, PTL

\* A kill or a failed statement of generateMappingDatabase never leaves part of the
\* rows, and a file reported as written holds the whole map.
THEOREM ArtifactsAreWhole == Spec => []ArtifactsWhole
BY Invariance, Artifacts, PTL
=============================================================================
