--------------------------- MODULE GitFastImport ---------------------------
(***************************************************************************)
(* What one `git fast-import --force --import-marks --export-marks`        *)
(* process does with the commands the converter writes to it.  git is not  *)
(* part of this repository: the operators are modelled from the commands   *)
(* src/src/repository.cpp writes and the answers it relies on.             *)
(*                                                                         *)
(* A commit stands for its first-parent history, a sequence of commit      *)
(* descriptions, so that two commits are equal exactly when git would give *)
(* them one object.  A ref holds a history; <<>> is a ref with no commit.  *)
(*                                                                         *)
(*   fi    the running process: tab (its in-memory branch table), del (the *)
(*         branches reset to the null id), backup, mark, blob, tag, dead   *)
(*   disk  what survives the process: ref, backup, mark, blob, tag         *)
(***************************************************************************)
EXTENDS Naturals, Sequences

CONSTANTS
    Branch,      \* the branches of the repository
    CommitMark,  \* the commit marks in use, 1 .. n
    FileMark,    \* the blob marks in use, just below maxMark
    Null         \* "not there": a ref, a mark or a table entry that is absent

EmptyDisk == [ref    |-> [b \in Branch |-> Null],
              backup |-> {},
              mark   |-> [m \in CommitMark |-> Null],
              blob   |-> [m \in FileMark |-> Null],
              tag    |-> [b \in Branch |-> Null]]

\* A process just started: the table is empty, the marks are imported.
Started(disk) == [tab    |-> [b \in Branch |-> Null],
                  del    |-> {},
                  backup |-> {},
                  mark   |-> disk.mark,
                  blob   |-> disk.blob,
                  tag    |-> [b \in Branch |-> Null],
                  dead   |-> FALSE]

Die(fi) == [fi EXCEPT !.dead = TRUE]

\* "reset b / from :m"
ResetToMark(fi, b, m) ==
    IF fi.mark[m] = Null THEN Die(fi)
    ELSE [fi EXCEPT !.tab[b] = fi.mark[m]]

\* "reset b / from 0000...": the branch is unborn and its ref is to be removed.
ResetToNull(fi, b) == [fi EXCEPT !.tab[b] = <<>>, !.del = @ \cup {b}]

\* What "from refs/heads/b" names: the table first, then the refs on disk.
RefTip(fi, disk, b) == IF fi.tab[b] # Null THEN fi.tab[b] ELSE disk.ref[b]

\* "reset b / from refs/heads/src"
ResetToRef(fi, disk, b, src) ==
    IF b = src \/ RefTip(fi, disk, src) = Null THEN Die(fi)
    ELSE [fi EXCEPT !.tab[b] = RefTip(fi, disk, src)]

\* "reset <backup ref of b at r> / from refs/heads/b"
Backup(fi, disk, b, r) ==
    IF RefTip(fi, disk, b) = Null THEN Die(fi)
    ELSE [fi EXCEPT !.backup =
            {k \in @ : <<k.branch, k.rev>> # <<b, r>>}
              \cup {[branch |-> b, rev |-> r, tip |-> RefTip(fi, disk, b)]}]

\* "commit b / mark :m" without a "from": the parent is the table's entry, a
\* branch the table does not hold starts a history of its own.
Commit(fi, b, m, c) ==
    LET parent == IF fi.tab[b] = Null THEN <<>> ELSE fi.tab[b]
        new    == Append(parent, c)
    IN  [fi EXCEPT !.tab[b] = new, !.mark[m] = new]

\* "blob / mark :m"
Blob(fi, m, data) == [fi EXCEPT !.blob[m] = data]

\* "tag b / from b" for every b of tags: an unborn or unknown ref is fatal.
Tag(fi, disk, tags) ==
    IF \E b \in tags : RefTip(fi, disk, b) \in {Null, <<>>} THEN Die(fi)
    ELSE [fi EXCEPT !.tag = [b \in Branch |->
            IF b \in tags THEN RefTip(fi, disk, b) ELSE @[b]]]

Unborn(fi, b) == fi.tab[b] = <<>> /\ b \in fi.del

\* A ref the process has nothing to say about: not loaded, or set from nothing.
Untouched(fi, b) == fi.tab[b] = Null \/ (fi.tab[b] = <<>> /\ b \notin fi.del)

\* "checkpoint", and the end of input: refs, tags and marks reach the disk.  An
\* annotated tag lives under the name of its branch (refs/tags/...), so writing
\* the branch puts the bare commit back and deleting it removes the tag.
Dump(fi, disk) ==
    [ref    |-> [b \in Branch |->
                   CASE Untouched(fi, b) -> disk.ref[b]
                     [] Unborn(fi, b)    -> Null
                     [] OTHER            -> fi.tab[b]],
     backup |-> fi.backup \cup
                  {k \in disk.backup : ~ \E n \in fi.backup :
                      <<n.branch, n.rev>> = <<k.branch, k.rev>>},
     mark   |-> fi.mark,
     blob   |-> fi.blob,
     tag    |-> [b \in Branch |->
                   CASE fi.tag[b] # Null -> fi.tag[b]
                     [] fi.tag[b] = Null /\ Untouched(fi, b) -> disk.tag[b]
                     [] OTHER            -> Null]]
=============================================================================
