---------------------------- MODULE RevisionMapper ----------------------------
(***************************************************************************)
(* One RevisionMapper of svn2git-validate at work: pairs are recorded, the *)
(* map is written to a JSON file and, statement by statement, to an SQLite *)
(* database (src/src/revision_mapper.cpp).  Any statement may fail and the *)
(* program may be killed at any point; the files stay and a later run      *)
(* writes them again with a mapper of its own.                             *)
(***************************************************************************)
EXTENDS RevisionMap, Sequences

CONSTANTS
    Call,         \* what may be recorded: <<revision, sha>>
    Skip,         \* the revisions that may be recorded as skipped
    Query,        \* the names that may be asked for
    MaxCalls,     \* bound: records, of all runs together
    MaxFaults     \* bound: failures and kills

ASSUME RevisionMapperAssumption ==
    /\ Call \subseteq Int \X (FullSha \cup ShortSha)
    /\ Skip \subseteq Nat
    /\ Query \subseteq FullSha \cup ShortSha
    /\ MaxCalls \in Nat
    /\ MaxFaults \in Nat

NoMap  == [total |-> 0, rows |-> Nothing]
NewDb  == [tables |-> 0, total |-> 0, rows |-> Nothing]

VARIABLES
    mapper,       \* the RevisionMapper of this run
    json,         \* the JSON file: its total_mappings and the rows that are readable
    disk,         \* the database as another program sees it
    work,         \* the database as this connection sees it
    step,         \* statements of generateMappingDatabase done, Closed if not in it
    left,         \* the revisions whose row is still to be inserted
    told,         \* the files generated with success since the last record
    calls,        \* what this run recorded; kept for the properties
    nCalls,       \* records of all runs
    nFaults       \* failures and kills

vars == <<mapper, json, disk, work, step, left, told, calls, nCalls, nFaults>>

Closed == -1
Tables == 3       \* CREATE TABLE metadata, CREATE TABLE mappings, CREATE INDEX

Init ==
    /\ mapper = EmptyMap
    /\ json = NoMap
    /\ disk = NewDb /\ work = NewDb
    /\ step = Closed /\ left = {}
    /\ told = {}
    /\ calls = <<>>
    /\ nCalls = 0 /\ nFaults = 0

Idle == step = Closed

Record(c) ==
    /\ Idle /\ nCalls < MaxCalls
    /\ mapper' = RecordMapping(mapper, c[1], c[2])
    /\ calls' = Append(calls, c)
    /\ told' = {}
    /\ nCalls' = nCalls + 1
    /\ UNCHANGED <<json, disk, work, step, left, nFaults>>

SkipRevision(r) ==
    /\ Idle /\ nCalls < MaxCalls
    /\ mapper' = RecordSkippedRevision(mapper, r)
    /\ told' = {}
    /\ nCalls' = nCalls + 1
    /\ UNCHANGED <<json, disk, work, step, left, calls, nFaults>>

Total == Cardinality(DOMAIN mapper.byRevision)

\* The file is opened truncated, then written in one go.
GenerateMappingFile ==
    /\ Idle
    /\ json' = [total |-> Total, rows |-> mapper.byRevision]
    /\ told' = told \cup {"json"}
    /\ UNCHANGED <<mapper, disk, work, step, left, calls, nCalls, nFaults>>

\* It cannot be opened and stays as it was, or the disk is full.
FailMappingFile ==
    /\ Idle /\ nFaults < MaxFaults
    /\ json' \in {json, NoMap}
    /\ told' = told \ {"json"}
    /\ nFaults' = nFaults + 1
    /\ UNCHANGED <<mapper, disk, work, step, left, calls, nCalls>>

\* std::remove, whose result nobody looks at, then sqlite3_open.
OpenDatabase(removed) ==
    /\ Idle
    /\ removed \/ nFaults < MaxFaults
    /\ work' = IF removed THEN NewDb ELSE disk
    /\ disk' = work'
    /\ step' = 0
    /\ left' = DOMAIN mapper.byRevision
    /\ told' = told \ {"database"}
    /\ nFaults' = IF removed THEN nFaults ELSE nFaults + 1
    /\ UNCHANGED <<mapper, json, calls, nCalls>>

\* Mutant: BEGIN TRANSACTION is forgotten, every statement commits on its own.
InNoTransaction(n) == FALSE

\* The statements up to BEGIN TRANSACTION, and COMMIT, take effect at once.
InTransaction(n) == n \in {Tables + 1, Tables + 2}

Executed(n) ==
    /\ step' = n
    /\ disk' = IF InTransaction(n) THEN disk ELSE work'
    /\ UNCHANGED <<mapper, json, told, calls, nCalls, nFaults>>

\* CREATE fails on what exists: an old database that could not be removed.
CreateTable ==
    /\ step \in 0 .. Tables - 1
    /\ work.tables = step
    /\ work' = [work EXCEPT !.tables = @ + 1]
    /\ Executed(step + 1)
    /\ UNCHANGED left

BeginTransaction ==
    /\ step = Tables
    /\ UNCHANGED <<work, left>>
    /\ Executed(step + 1)

InsertMetadata ==
    /\ step = Tables + 1
    /\ work' = [work EXCEPT !.total = Total]
    /\ Executed(step + 1)
    /\ UNCHANGED left

\* Revision by revision; the column of the names is UNIQUE.
InsertRow(r) ==
    /\ step = Tables + 2
    /\ r \in left /\ \A q \in left : r <= q
    /\ \A q \in DOMAIN work.rows : work.rows[q] # mapper.byRevision[r]
    /\ work' = [work EXCEPT !.rows = Extended(@, r, mapper.byRevision[r])]
    /\ left' = left \ {r}
    /\ Executed(step)

Commit ==
    /\ step = Tables + 2 /\ left = {}
    /\ disk' = work
    /\ step' = Closed
    /\ told' = told \cup {"database"}
    /\ UNCHANGED <<mapper, json, work, left, calls, nCalls, nFaults>>

\* A statement fails: the connection is closed and the transaction rolled back.
FailDatabase ==
    /\ ~Idle
    /\ nFaults < MaxFaults \/ (step < Tables /\ work.tables # step)
    /\ step' = Closed /\ left' = {}
    /\ work' = disk
    /\ nFaults' = IF nFaults < MaxFaults THEN nFaults + 1 ELSE nFaults
    /\ UNCHANGED <<mapper, json, disk, told, calls, nCalls>>

\* The run ends, in the middle of a transaction if it is killed; the next one
\* starts with an empty mapper.
Restart ==
    /\ Idle \/ nFaults < MaxFaults
    /\ nCalls > 0
    /\ mapper' = EmptyMap
    /\ calls' = <<>>
    /\ step' = Closed /\ left' = {}
    /\ work' = disk
    /\ told' = {}
    /\ nFaults' = IF Idle THEN nFaults ELSE nFaults + 1
    /\ UNCHANGED <<json, disk, nCalls>>

Next ==
    \/ \E c \in Call : Record(c)
    \/ \E r \in Skip : SkipRevision(r)
    \/ GenerateMappingFile
    \/ FailMappingFile
    \/ \E removed \in BOOLEAN : OpenDatabase(removed)
    \/ CreateTable
    \/ BeginTransaction
    \/ InsertMetadata
    \/ \E r \in left : InsertRow(r)
    \/ Commit
    \/ FailDatabase
    \/ Restart

Spec == Init /\ [][Next]_vars
-----------------------------------------------------------------------------
Revision == {c[1] : c \in Call}
PartialMap == UNION {[D -> FullSha] : D \in SUBSET Revision}
Index == UNION {[D -> Revision] : D \in SUBSET FullSha}
MapperType ==
    [byRevision : PartialMap, byGitSha : Index, skipped : SUBSET Skip,
     duplicateRevisions : SUBSET Revision, duplicateShas : SUBSET FullSha]

\* Everything has its type.
TypeOK ==
    /\ mapper \in MapperType
    /\ json \in [total : Nat, rows : PartialMap]
    /\ {disk, work} \subseteq [tables : 0 .. Tables, total : Nat, rows : PartialMap]
    /\ step \in Closed .. Tables + 2
    /\ left \subseteq DOMAIN mapper.byRevision
    /\ told \subseteq {"json", "database"}
    /\ calls \in Seq(Call)
    /\ nCalls \in 0 .. MaxCalls
    /\ nFaults \in 0 .. MaxFaults

Given == DOMAIN calls

\* What the header promises of a map: every pair recorded is well-formed, no two of
\* them share the revision or the commit, and between the first and the last
\* revision nothing is unaccounted for.
OneToOne ==
    /\ calls # <<>>
    /\ \A i \in Given : WellFormed(calls[i][1], calls[i][2])
    /\ \A i, j \in Given :
          calls[i][1] = calls[j][1] \/ calls[i][2] = calls[j][2] => i = j
    /\ \A i, j \in Given : \A r \in calls[i][1] .. calls[j][1] :
          r \in mapper.skipped \/ \E k \in Given : calls[k][1] = r

\* validateOneToOneMapping, which sees the map and not the calls that made it, passes
\* exactly if everything recorded is a one-to-one map without holes: nothing that
\* recordMapping refused or dropped goes unnoticed.
OneToOneExact == ValidateOneToOneMapping(mapper) <=> OneToOne

\* findSvnRevisionByGitCommit, which looks through the index by name, answers a full
\* or an abbreviated name with the one revision mapped to such a commit, and with
\* none if there is no such revision or there are several; and each answer leads
\* back to the name through findGitCommitBySvnRevision.
LookupsExact ==
    \A query \in Query : \A r \in Revision :
        FindSvnRevisionByGitCommit(mapper, query) = r /\ r # NoRevision <=>
          /\ FindGitCommitBySvnRevision(mapper, r) # NoCommit
          /\ \A q \in DOMAIN mapper.byRevision :
                Begins(query, mapper.byRevision[q]) <=> q = r

\* Whatever fails and wherever generateMappingDatabase is killed, a reader of the
\* database finds no rows or all of them, as many as its metadata says; and a file
\* that was generated with success holds the whole map.
ArtifactsWhole ==
    /\ disk.rows = Nothing \/ disk.total = Cardinality(DOMAIN disk.rows)
    /\ "database" \in told => disk.rows = mapper.byRevision /\ disk.total = Total
    /\ "json" \in told => json.rows = mapper.byRevision /\ json.total = Total
=============================================================================
