----------------------------- MODULE RevisionMap -----------------------------
(***************************************************************************)
(* The map between Subversion revisions and Git commits that               *)
(* svn2git-validate builds for auditors: class RevisionMapper of           *)
(* src/src/revision_mapper.cpp, its state as a record and its operations   *)
(* as operators.  The name of a commit is the pair of its first seven      *)
(* digits and the rest; a pair with an empty rest is an abbreviated name.  *)
(* Authors, timestamps and messages are left out.                          *)
(***************************************************************************)
EXTENDS Integers, FiniteSets

CONSTANTS
    Digits7,  \* first seven digits of the name of a commit
    Digits33  \* the thirty-three digits behind them

NoRest == "abbreviated"

ASSUME RevisionMapAssumption == NoRest \notin Digits33

FullSha  == Digits7 \X Digits33
ShortSha == Digits7 \X {NoRest}

Nothing == [x \in {} |-> x]

EmptyMap ==
    [byRevision |-> Nothing,           \* m_byRevision
     byGitSha |-> Nothing,             \* m_byGitSha
     duplicateRevisions |-> {},        \* m_duplicateRevisions, as a set
     duplicateShas |-> {},             \* m_duplicateShas, as a set
     skipped |-> {}]                   \* the keys of m_skipped

Extended(f, x, y) == [z \in DOMAIN f \cup {x} |-> IF z = x THEN y ELSE f[z]]

\* isHexSha and the length of 40, with the check of the revision.
WellFormed(revision, sha) == revision > 0 /\ sha \in FullSha

\* Mutant: a malformed pair is refused and not remembered.
RecordMappingForgetful(m, revision, sha) ==
    IF ~WellFormed(revision, sha) THEN m
    ELSE IF revision \in DOMAIN m.byRevision
      THEN [m EXCEPT !.duplicateRevisions = @ \cup {revision}]
    ELSE IF sha \in DOMAIN m.byGitSha THEN [m EXCEPT !.duplicateShas = @ \cup {sha}]
    ELSE [m EXCEPT !.byGitSha = Extended(@, sha, revision),
                   !.byRevision = Extended(@, revision, sha)]

\* Mutant: an abbreviated name is taken for a name.
RecordMappingShort(m, revision, sha) ==
    IF revision <= 0 \/ revision \in DOMAIN m.byRevision
      THEN [m EXCEPT !.duplicateRevisions = @ \cup {revision}]
    ELSE IF sha \in DOMAIN m.byGitSha THEN [m EXCEPT !.duplicateShas = @ \cup {sha}]
    ELSE [m EXCEPT !.byGitSha = Extended(@, sha, revision),
                   !.byRevision = Extended(@, revision, sha)]

\* Mutant: a commit of two revisions is not noticed.
RecordMappingManyToOne(m, revision, sha) ==
    IF ~WellFormed(revision, sha) \/ revision \in DOMAIN m.byRevision
      THEN [m EXCEPT !.duplicateRevisions = @ \cup {revision}]
    ELSE [m EXCEPT !.byGitSha = Extended(@, sha, revision),
                   !.byRevision = Extended(@, revision, sha)]

RecordMapping(m, revision, sha) ==
    IF ~WellFormed(revision, sha) \/ revision \in DOMAIN m.byRevision
      THEN [m EXCEPT !.duplicateRevisions = @ \cup {revision}]
    ELSE IF sha \in DOMAIN m.byGitSha THEN [m EXCEPT !.duplicateShas = @ \cup {sha}]
    ELSE [m EXCEPT !.byGitSha = Extended(@, sha, revision),
                   !.byRevision = Extended(@, revision, sha)]

RecordSkippedRevision(m, revision) == [m EXCEPT !.skipped = @ \cup {revision}]

\* The revisions between the first and the last mapped one that nothing accounts for.
MissingRevisions(m) ==
    (UNION {first .. last : first, last \in DOMAIN m.byRevision})
      \ (DOMAIN m.byRevision \cup m.skipped)

ValidateOneToOneMapping(m) ==
    /\ m.duplicateRevisions = {}
    /\ m.duplicateShas = {}
    /\ MissingRevisions(m) = {}
    /\ Cardinality(DOMAIN m.byRevision) = Cardinality(DOMAIN m.byGitSha)
    /\ DOMAIN m.byRevision # {}

NoCommit == <<>>
NoRevision == -1

FindGitCommitBySvnRevision(m, revision) ==
    IF revision \in DOMAIN m.byRevision THEN m.byRevision[revision] ELSE NoCommit

\* A query is a full name or one of seven digits; a shorter one is refused.
Begins(query, sha) == query = sha \/ query = <<sha[1], NoRest>>

FindSvnRevisionByGitCommit(m, query) ==
    LET found == {sha \in DOMAIN m.byGitSha : Begins(query, sha)}
    IN  IF Cardinality(found) = 1 THEN m.byGitSha[CHOOSE sha \in found : TRUE]
        ELSE NoRevision
=============================================================================
