----------------------------- MODULE AuthorsFile -----------------------------
(***************************************************************************)
(* The authors file as svn2git-validate reads and writes it: class         *)
(* AuthorValidator of src/src/author_validator.cpp.  Of an identity it     *)
(* matters whether its address is valid, invalid or, with the name, empty. *)
(***************************************************************************)
EXTENDS Sequences, SequencesExt, FiniteSets

CONSTANT User         \* user names of Subversion

Identity == {"valid", "invalid", "empty"}

\* A line that is neither blank nor a comment.
AuthorsLine == [user : User, identity : Identity \cup {"malformed"}]

IsMapping(line) == line.identity # "malformed"

\* first entry wins
Mappings(lines) ==
    [u \in {lines[i].user : i \in {j \in DOMAIN lines : IsMapping(lines[j])}} |->
        lines[SelectInSeq(lines, LAMBDA l : l.user = u /\ IsMapping(l))].identity]

Duplicates(lines) ==
    {u \in User : \E i, j \in DOMAIN lines :
                     /\ i < j /\ lines[i].user = u /\ lines[j].user = u
                     /\ IsMapping(lines[i]) /\ IsMapping(lines[j])}

\* loadAuthorsFile: the map and the codes of what is reported on the way.
LoadAuthorsFile(file) ==
    IF ~file.readable THEN [mappings |-> [u \in {} |-> "empty"], reports |-> {"FileAccess"}]
    ELSE LET mappings == Mappings(file.lines)
         IN  [mappings |-> mappings,
              reports |->
                {code \in {"Malformed", "Duplicate", "InvalidEmail"} :
                   \/ code = "Malformed" /\ \E i \in DOMAIN file.lines : ~IsMapping(file.lines[i])
                   \/ code = "Duplicate" /\ Duplicates(file.lines) # {}
                   \/ code = "InvalidEmail" /\ \E u \in DOMAIN mappings : mappings[u] # "valid"}]

IdentityOf(mappings, u) == IF u \in DOMAIN mappings THEN mappings[u] ELSE "empty"

\* validateCoverage for the authors of the history; none is a failure of its own, of
\* which extractSVNAuthors has reported the cause before the file is opened.
ValidateCoverage(file, authors) ==
    LET loaded == LoadAuthorsFile(file)
        missing == {u \in authors : IdentityOf(loaded.mappings, u) = "empty"}
        invalid == {u \in authors : IdentityOf(loaded.mappings, u) = "invalid"}
    IN  IF authors = {} THEN [ok |-> FALSE, reported |-> TRUE]
        ELSE [ok |-> missing = {} /\ invalid = {} /\ "Duplicate" \notin loaded.reports,
              reported |-> loaded.reports # {} \/ missing # {}]

\* autoMapAuthors: one line for every author; the address of a placeholder is
\* user@localhost, which has no dot and is not valid until somebody reviews it.
AutoMapAuthors(file, authors) ==
    LET mappings == LoadAuthorsFile(file).mappings
    IN  [i \in 1 .. Cardinality(authors) |->
           LET u == SetToSeq(authors)[i]
           IN  [user |-> u,
                identity |-> IF IdentityOf(mappings, u) = "valid" THEN "valid" ELSE "invalid"]]

\* validateAuthorsFile of ConfigValidator: any report is a finding, and so is no mapping.
AuthorsFilePasses(file) ==
    LET loaded == LoadAuthorsFile(file)
    IN  loaded.reports = {} /\ DOMAIN loaded.mappings # {}
=============================================================================
