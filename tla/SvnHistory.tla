----------------------------- MODULE SvnHistory -----------------------------
(***************************************************************************)
(* What one Subversion revision asks of one git repository, once           *)
(* src/src/svn.cpp has matched its paths against the rules: copies,        *)
(* deletions and changes of branches; and the git history such a revision  *)
(* should leave behind.                                                    *)
(*                                                                         *)
(* `tips` is a sequence: tips[r][b] is the history of branch b as of       *)
(* revision r, <<>> when b has no commit.                                  *)
(***************************************************************************)
EXTENDS Integers, Sequences, SequencesExt

CONSTANTS
    Branch,       \* the branches of the repository
    Null,         \* no merge source
    MaxOps,       \* bound: operations in one revision
    ManyToOne,    \* several SVN paths may be mapped to one branch
    EmptySources  \* a copy may name a revision its source had no commit at

ASSUME SvnHistoryAssumption ==
    /\ Null \notin Branch
    /\ MaxOps \in Nat
    /\ ManyToOne \in BOOLEAN
    /\ EmptySources \in BOOLEAN

NoTips == [b \in Branch |-> <<>>]

\* The tips once revision r is exported; revision 0 is the empty repository.
TipsAt(tips, r) == IF r = 0 THEN NoTips ELSE tips[r]

\* A copy of `from` at revision `at` to `branch` (createBranch), a deletion of
\* `branch` (deleteBranch), a changed file in it, with the branch the file was
\* copied from if there is one (addFile, noteCopyFromBranch), a removed file.
Op == [kind : {"copy", "delete", "change", "remove"}, branch : Branch,
       from : Branch \cup {Null}, at : Nat]

Ops(tips) ==
    LET next    == Len(tips) + 1
        present == {b \in Branch : TipsAt(tips, next - 1)[b] # <<>>}
        points  == {p \in Branch \X (1 .. next - 1) : tips[p[2]][p[1]] # <<>>}
        sources == IF EmptySources THEN Branch \X (1 .. next - 1) ELSE points
        op(kind, b, p) == [kind |-> kind, branch |-> b, from |-> p[1], at |-> p[2]]
        nowhere == <<Null, 0>>
    IN  {op("copy", b, p) : b \in Branch, p \in sources}
          \cup {op("delete", b, nowhere) : b \in present}
          \cup {op("remove", b, nowhere) : b \in present}
          \cup {op("change", b, p) : b \in Branch, p \in points \cup {nowhere}}

\* One SVN path behind a branch: a revision that deletes it does nothing else to it.
\* Copies and changes may come in any number and order: the walk of svn.cpp may meet a
\* path below a copied directory, and then again in the list of changes.
OnePath(ops) ==
    \A i, j \in DOMAIN ops :
        (i # j /\ ops[i].branch = ops[j].branch) => "delete" \notin {ops[i].kind, ops[j].kind}

\* What the next revision may ask for.  Revisions that ask nothing of this repository
\* leave no trace in it and are not counted.
Revisions(tips) ==
    {s \in BoundedSeq({o \in Ops(tips) : o.kind # "change" \/ o.from # o.branch}, MaxOps) :
        s # <<>> /\ (ManyToOne \/ OnePath(s))}

OfKind(ops, b, kinds) ==
    {i \in DOMAIN ops : ops[i].branch = b /\ ops[i].kind \in kinds}

HeadOf(history) == LET c == history[Len(history)] IN <<c.branch, c.rev>>

(***************************************************************************)
(* The history of b after revision Len(tips) + 1 does `ops`: a copy starts *)
(* it from its source and wins over a deletion of the same branch, and the *)
(* changes make one commit on top.                                         *)
(***************************************************************************)
TipAfter(tips, ops, b) ==
    LET r       == Len(tips) + 1
        copies  == OfKind(ops, b, {"copy"})
        changes == OfKind(ops, b, {"change", "remove"})
        source  == ops[CHOOSE i \in copies : \A j \in copies : j <= i]
        base    == IF copies # {} THEN TipsAt(tips, source.at)[source.from]
                   ELSE IF OfKind(ops, b, {"delete"}) # {} THEN <<>>
                   ELSE TipsAt(tips, r - 1)[b]
        merged  == {tips[ops[i].at][ops[i].from] :
                       i \in {k \in changes : ops[k].from # Null}}
        commit  == [branch |-> b, rev |-> r,
                    files  |-> {<<b, r>> : i \in OfKind(ops, b, {"change"})},
                    merges |-> {HeadOf(h) : h \in merged \ {base}}]
    IN  IF changes = {} THEN base ELSE Append(base, commit)

TipsAfter(tips, ops) == [b \in Branch |-> TipAfter(tips, ops, b)]

\* Revision r left nothing of what b held before it: b was deleted or restarted
\* somewhere else, and its old commits are on no branch of that name any more.
Abandoned(tips, b, r) ==
    LET old == TipsAt(tips, r - 1)[b] IN
    old # <<>> /\ ~ IsPrefix(old, tips[r][b])
=============================================================================
