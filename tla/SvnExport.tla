----------------------------- MODULE SvnExport -----------------------------
(***************************************************************************)
(* The export of one Subversion revision (src/src/svn.cpp): the walk over  *)
(* its changed paths, the match rules, and what is asked of the git        *)
(* repositories, which are taken as src/src/repository.cpp answers.  How   *)
(* those write to fast-import is the subject of module Repository.         *)
(*                                                                         *)
(* Abstracted: a rule's regular expression is a sequence of names, "*" for *)
(* ([^/]+), and ends in a slash; contents, modes and properties of files;  *)
(* authors and log messages; the options --empty-dirs, --svn-ignore,       *)
(* --propcheck and --dry-run; annotated tags; rules that hold for some     *)
(* revisions only; more than one rules file.                               *)
(***************************************************************************)
EXTENDS SvnRepository, FiniteSets

CONSTANTS
    Rules,         \* the match rules, in their order
    Repositories,  \* a function from the names of the `create repository` stanzas
    Imports,       \* bound: the trees revision 1 may bring
    MaxRev,        \* bound: revisions
    MaxEdits,      \* bound: edits in one revision
    MaxTotalEdits  \* bound: edits after revision 1

\* A tree: what is in it lies in directories.
IsTree(tree) ==
    /\ DOMAIN tree \subseteq Path
    /\ \A p \in DOMAIN tree :
          /\ tree[p] = Dir => p \in DirPath
          /\ \A n \in 1 .. Len(p) - 1 : IsDir(tree, SubSeq(p, 1, n))

ASSUME SvnExportAssumption ==
    /\ DOMAIN Rules = 1 .. Len(Rules) /\ Len(Rules) \in Nat
    /\ \A i \in DOMAIN Rules :
          /\ Rules[i].action \in {"export", "ignore", "recurse"}
          /\ Rules[i].pattern \in Seq(PathName \cup {"*"}) \ {<<>>}
          /\ Rules[i].group \in 0 .. Len(Rules[i].pattern)
    /\ \A n \in DOMAIN Repositories :
           Repositories[n].forwardTo \in DOMAIN Repositories \cup {""}
    /\ \A t \in Imports : IsTree(t)
    /\ {MaxRev, MaxEdits, MaxTotalEdits} \subseteq Nat

-----------------------------------------------------------------------------
(* Rules and repositories *)

NoRule == [pattern |-> <<>>, action |-> "none", repository |-> "", branch |-> "",
           group |-> 0, prefix |-> <<>>]

\* rx.indexIn(current) == 0; a directory's name ends in a slash.
Matches(rule, p, isDir) ==
    /\ Len(rule.pattern) < Len(p) + (IF isDir THEN 1 ELSE 0)
    /\ \A i \in DOMAIN rule.pattern : rule.pattern[i] \in {"*", p[i]}

\* The first rule that matches and whose action is not masked.
FirstMatch(p, isDir, masked) ==
    LET hits == {i \in DOMAIN Rules :
                    Rules[i].action # masked /\ Matches(Rules[i], p, isDir)}
    IN  IF hits = {} THEN NoRule ELSE Rules[CHOOSE i \in hits : \A j \in hits : i <= j]

\* The same for all paths there may be, which TLC evaluates once.
FirstMatches ==
    [p \in Path |-> [isDir \in BOOLEAN |-> [masked \in {"none", "ignore"} |->
        FirstMatch(p, isDir, masked)]]]

\* findMatchRule; what was copied may be gone from where the walk looks for it.
FindMatchRule(p, isDir, masked) ==
    IF p \in Path THEN FirstMatches[p][isDir][masked] ELSE FirstMatch(p, isDir, masked)

\* getEffectiveRepository()->getName(), through one level of forwarding.
Effective(name) ==
    IF name \notin DOMAIN Repositories \/ Repositories[name].forwardTo = "" THEN name
    ELSE Repositories[name].forwardTo

\* createRepository: the prefix is that of a ForwardingRepository; the constructor of
\* FastImportRepository takes rule.forwardTo for it, which is empty.
PrefixOf(name) ==
    IF Repositories[name].forwardTo = "" THEN <<>> ELSE Repositories[name].prefix

HasPrefix(name) == PrefixOf(name) # <<>>

\* splitPathName
Split(rule, p) ==
    [repository |-> rule.repository,
     effective  |-> Effective(rule.repository),
     branch     |-> <<rule.branch, IF rule.group = 0 THEN "" ELSE p[rule.group]>>,
     svnprefix  |-> SubSeq(p, 1, Len(rule.pattern)),
     path       |-> rule.prefix \o SubSeq(p, Len(rule.pattern) + 1, Len(p))]

\* The git branches the rules can name, with their repositories.
Branches ==
    UNION {{<<Split(Rules[i], p).effective, Split(Rules[i], p).branch>> :
               p \in {p \in DirPath : Matches(Rules[i], p, TRUE)}} :
           i \in {i \in DOMAIN Rules : Rules[i].action = "export"}}

VARIABLES
    \* Subversion: the trees of its revisions, and the commit that is being made
    svn, tree, changes, edits,
    \* the converter: what it does, the paths still to be looked at, the queues of the
    \* repositories, the open transactions, the commits of each branch
    phase, work, deletedBranches, resetBranches, transactions, branches,
    git,           \* git[k]: whether the ref of k exists, and its files
    svn_branches,  \* --svn-branches
    flawed         \* a revision did what the code is known not to follow (properties)

source == <<svn, tree, changes, edits>>
queues == <<deletedBranches, resetBranches, transactions, branches>>
vars   == <<source, phase, work, queues, git, svn_branches, flawed>>

revnum == Len(svn)

\* wasDir
WasDir(at, p) == at \in DOMAIN svn /\ IsDir(svn[at], p)

Init ==
    /\ svn = <<>>
    /\ tree \in Imports
    /\ changes = [p \in DOMAIN tree |-> [kind |-> "add", from |-> NoPath, at |-> 0]]
    /\ edits = [revision |-> 0, total |-> 0]
    /\ phase = "edit"
    /\ work = <<>>
    /\ deletedBranches = <<>>
    /\ resetBranches = <<>>
    /\ transactions = {}
    /\ branches = [k \in Branches |-> <<>>]
    /\ git = [k \in Branches |-> [there |-> FALSE, files |-> {}]]
    /\ svn_branches \in BOOLEAN
    /\ flawed = FALSE

-----------------------------------------------------------------------------
(* Subversion: somebody edits and commits *)

Edit ==
    /\ phase = "edit"
    /\ svn # <<>> /\ revnum < MaxRev
    /\ edits.revision < MaxEdits
    /\ edits.total < MaxTotalEdits
    /\ edits' = [revision |-> edits.revision + 1, total |-> edits.total + 1]
    /\ \E e \in Edits(svn, tree) :
          /\ tree' = EditedTree(svn, tree, e)
          /\ changes' = EditedChanges(changes, tree, e)
    /\ UNCHANGED <<svn, phase, work, queues, git, svn_branches, flawed>>

\* What the git branch k should hold at revision r: the files whose first rule exports
\* them to k, under the prefix the rules ask for.
Wanted(k, r) ==
    UNION {LET rule == FindMatchRule(p, FALSE, "none")
               to   == Split(rule, p)
           IN  IF rule.action # "export" \/ <<to.effective, to.branch>> # k THEN {}
               ELSE {<<Repositories[rule.repository].prefix \o to.path, svn[r][p]>>} :
           p \in Files(svn[r])}

\* A directory no rule exports was deleted and made anew in one revision.
ReplacesParent(new) ==
    \E p \in DOMAIN changes :
        /\ changes[p].kind = "replace" /\ IsDir(new, p) /\ WasDir(revnum, p)
        /\ FindMatchRule(p, TRUE, "none").action # "export"

\* The directory p is all of a branch.
IsBranch(p) ==
    LET rule == FindMatchRule(p, TRUE, "none") IN
    rule.action = "export" /\ Len(p) = Len(rule.pattern)

\* The whole branches that were copied, alone or with a directory above them.
CopiedBranches ==
    UNION {{[from |-> q, to |-> Moved(q, changes[p].from, p), at |-> changes[p].at] :
               q \in {q \in Subtree(svn[changes[p].at], changes[p].from) : IsBranch(q)}} :
           p \in {p \in DOMAIN changes : changes[p].from # NoPath}}

\* A whole branch was copied that had no file.
CopiesEmptyBranch ==
    \E c \in CopiedBranches :
        LET s == Split(FindMatchRule(c.from, TRUE, "none"), c.from)
        IN  Wanted(<<s.effective, s.branch>>, c.at) = {}

\* A whole branch was copied to or from a repository that puts a prefix before its files.
CopiesAcrossPrefixes ==
    \E c \in CopiedBranches :
        /\ IsBranch(c.to)
        /\ PrefixOf(FindMatchRule(c.from, TRUE, "none").repository)
             # PrefixOf(FindMatchRule(c.to, TRUE, "none").repository)

\* The commit; prepareTransactions lists its paths in the order of their names.
Publish ==
    /\ phase = "edit"
    /\ svn = <<>> \/ edits.revision > 0
    /\ svn' = Append(svn, tree)
    /\ LET paths == Listed(DOMAIN changes) IN
       work' = [i \in DOMAIN paths |->
                  LET p == paths[i]
                      c == changes[p]
                  IN  [path |-> p, kind |-> c.kind, from |-> c.from, at |-> c.at,
                       dir |-> IsDir(tree, p) \/ (c.kind = "delete" /\ WasDir(revnum, p)),
                       entry |-> TRUE]]
    /\ edits' = [edits EXCEPT !.revision = 0]
    /\ phase' = "walk"
    /\ flawed' = (flawed \/ ReplacesParent(tree) \/ CopiesEmptyBranch \/ CopiesAcrossPrefixes)
    /\ UNCHANGED <<tree, changes, queues, git, svn_branches>>

-----------------------------------------------------------------------------
(* One path of the walk: exportEntry, exportDispatch, recurse *)

RuleFor(it) == FindMatchRule(it.path, it.dir, "none")

\* A directory made or its properties changed: git has no directories.
IsMkdir(it) == it.entry /\ it.dir /\ it.kind \in {"add", "modify"} /\ it.from = NoPath

KnownRepository(it) == RuleFor(it).repository \in DOMAIN Repositories

\* No rule, and no reason to look inside (auto-recursing).
Unmatched(it) ==
    /\ RuleFor(it) = NoRule
    /\ ~ (it.dir /\ (it.from # NoPath \/ it.kind = "delete" \/ ~ it.entry))

\* Mutant: exportEntry does not ask what was there before.
CannotContinueAtAll(it) == ~ IsMkdir(it) /\ Unmatched(it) /\ it.entry /\ it.kind # "delete"

\* exportEntry, not recurse, insists that a path matches a rule.
CannotContinue(it) ==
    /\ ~ IsMkdir(it)
    /\ \/ /\ Unmatched(it) /\ it.entry
          /\ it.kind # "delete" /\ ~ WasDir(revnum - 1, it.path)
       \/ /\ RuleFor(it).action = "export" /\ ~ KnownRepository(it)
          /\ it.kind # "delete"

Skips(it) ==
    \/ IsMkdir(it)
    \/ RuleFor(it).action = "ignore"
    \/ Unmatched(it) /\ ~ CannotContinue(it)

Recurses(it) ==
    /\ ~ IsMkdir(it)
    /\ \/ RuleFor(it).action = "recurse"
       \/ RuleFor(it) = NoRule /\ ~ Unmatched(it)
       \/ RuleFor(it).action = "export" /\ ~ KnownRepository(it) /\ it.kind = "delete"

Exports(it) == ~ IsMkdir(it) /\ RuleFor(it).action = "export" /\ KnownRepository(it)

\* Mutant: a deletion is looked up in the revision that made it.
RootAfter(it) == svn[revnum]

\* fs_root of recurse: what a deletion removed is in the revision before.
RootOf(it) == IF it.kind = "delete" THEN svn[revnum - 1] ELSE svn[revnum]

\* "is in the change-list, deferring to that one"
Defers(p) == p \in DOMAIN changes /\ changes[p].kind = "add"

\* recurse: the entries of a directory, each with the change of the directory.
Children(it) ==
    LET root == RootOf(it)
        names == Listed({q \in Entries(root, it.path) : ~ Defers(q)})
    IN  IF ~ IsDir(root, it.path) THEN <<>>
        ELSE [i \in DOMAIN names |->
                [path |-> names[i], kind |-> it.kind, at |-> it.at, entry |-> FALSE,
                 from |-> IF it.from = NoPath THEN NoPath
                          ELSE Append(it.from, Last(names[i])),
                 dir  |-> IsDir(root, names[i])]]

Skip ==
    /\ phase = "walk" /\ work # <<>> /\ Skips(Head(work))
    /\ work' = Tail(work)
    /\ UNCHANGED <<source, phase, queues, git, svn_branches, flawed>>

Recurse ==
    /\ phase = "walk" /\ work # <<>> /\ Recurses(Head(work))
    /\ work' = Children(Head(work)) \o Tail(work)
    /\ UNCHANGED <<source, phase, queues, git, svn_branches, flawed>>

\* "did not match any rules; cannot continue"
Fail ==
    /\ phase = "walk" /\ work # <<>> /\ CannotContinue(Head(work))
    /\ phase' = "failed"
    /\ UNCHANGED <<source, work, queues, git, svn_branches, flawed>>

-----------------------------------------------------------------------------
(* exportInternal *)

Target(it) == Split(RuleFor(it), it.path)

\* current == svnprefix && path.isEmpty()
IsWholeBranch(it) == it.dir /\ it.path = Target(it).svnprefix /\ Target(it).path = <<>>

\* The rule of what was copied; a copy no rule knows the source of is none.
SourceRule(it) ==
    IF it.from = NoPath THEN NoRule
    ELSE FindMatchRule(it.from, WasDir(it.at, it.from), "ignore")

IsCopy(it) == SourceRule(it) # NoRule

Source(it) == Split(SourceRule(it), it.from)

BranchKey(split) == <<split.effective, split.branch>>

IsBranchDeletion(it) ==
    it.kind = "delete" /\ IsWholeBranch(it) /\ ~ HasPrefix(Target(it).repository)

IsBranchCopy(it) ==
    /\ IsCopy(it) /\ IsWholeBranch(it)
    /\ WasDir(it.at, it.from) /\ it.from = Source(it).svnprefix
    /\ Source(it).effective = Target(it).effective
    /\ Source(it).path = Target(it).path

\* The commits of k; none if there is no such branch.
CommitsOf(k) == IF k \in Branches THEN branches[k] ELSE <<>>

\* Mutant: std::lower_bound in place of upper_bound.
CommitBefore(k, at) ==
    LET before == {i \in DOMAIN CommitsOf(k) : branches[k][i].rev < at} IN
    IF before = {} THEN [rev |-> 0, has |-> FALSE, files |-> {}]
    ELSE branches[k][CHOOSE i \in before : \A j \in before : j <= i]

\* The last commit of k no later than revision `at`; created.commits in Repository.
CommitAt(k, at) ==
    LET before == {i \in DOMAIN CommitsOf(k) : branches[k][i].rev <= at} IN
    IF before = {} THEN [rev |-> 0, has |-> FALSE, files |-> {}]
    ELSE branches[k][CHOOSE i \in before : \A j \in before : j <= i]

Committed(k, has, files) ==
    [branches EXCEPT ![k] = Append(@, [rev |-> revnum, has |-> has, files |-> files])]

DeleteBranch ==
    /\ phase = "walk" /\ work # <<>>
    /\ LET it == Head(work) k == BranchKey(Target(it)) IN
        /\ Exports(it) /\ IsBranchDeletion(it)
        /\ deletedBranches' = Append(deletedBranches, k)
        /\ branches' = Committed(k, FALSE, {})
    /\ work' = Tail(work)
    /\ UNCHANGED <<source, phase, resetBranches, transactions, git, svn_branches, flawed>>

\* Mutant: transactions are kept under the directory that matched.
TransactionOfDirectory(it) ==
    [key |-> <<Target(it).repository, Target(it).svnprefix>>,
     deleted |-> {}, modified |-> {}, merges |-> {}]

\* Mutant: every path opens a transaction of its own.
TransactionOfItsOwn(it) ==
    [key |-> <<Target(it).repository, Target(it).branch>>,
     deleted |-> {}, modified |-> {}, merges |-> {}]

\* The open transaction of an item's branch, or a new one; kept under the names of the
\* repository and the branch.
TransactionOf(it) ==
    LET key  == <<Target(it).repository, Target(it).branch>>
        open == {t \in transactions : t.key = key}
    IN  IF open # {} THEN CHOOSE t \in open : TRUE
        ELSE [key |-> key, deleted |-> {}, modified |-> {}, merges |-> {}]

\* deleteFile and addFile of the transaction, which put the repository's prefix first.
Changed(txn, deleted, modified) ==
    LET prefix == PrefixOf(txn.key[1])
        new    == {<<prefix \o f[1], f[2]>> : f \in modified}
    IN  [txn EXCEPT
           !.deleted  = @ \cup {prefix \o p : p \in deleted},
           !.modified = {f \in @ : \A g \in new : g[1] # f[1]} \cup new]

\* recursiveDumpDir: the files below a directory, but for those in directories that are
\* ignored or belong to another repository.
Dumped(it) ==
    {q \in Files(svn[revnum]) \cap Subtree(svn[revnum], it.path) :
        \A i \in Len(it.path) + 1 .. Len(q) - 1 :
            LET rule == FindMatchRule(SubSeq(q, 1, i), TRUE, "none") IN
            rule.action = "export" /\ rule.repository = Target(it).repository}

\* The files an item writes, under their names in the branch.
Written(it) ==
    LET to(q) == Moved(q, it.path, Target(it).path) IN
    {<<to(q), svn[revnum][q]>> : q \in
        IF ~ it.dir THEN {it.path} ELSE IF it.from # NoPath THEN Dumped(it) ELSE {}}

\* A copy of a whole branch: createBranch; with --svn-branches its files are dumped too.
CreateBranch ==
    /\ phase = "walk" /\ work # <<>>
    /\ LET it   == Head(work)
           k    == BranchKey(Target(it))
           from == BranchKey(Source(it))
           mark == CommitAt(from, it.at)
           txn  == TransactionOf(it)
       IN  /\ Exports(it) /\ ~ IsBranchDeletion(it) /\ IsBranchCopy(it)
           /\ IF CommitsOf(from) = <<>>
              THEN phase' = "failed" /\ UNCHANGED <<queues, work>>
              ELSE /\ resetBranches' = Append(resetBranches,
                        [branch |-> k, from |-> from, has |-> mark.has, files |-> mark.files])
                   /\ branches' = Committed(k, mark.has, mark.files)
                   /\ transactions' =
                        IF ~ svn_branches THEN transactions
                        ELSE (transactions \ {txn})
                                \cup {Changed(txn, {Target(it).path}, Written(it))}
                   /\ work' = Tail(work)
                   /\ UNCHANGED <<deletedBranches, phase>>
    /\ UNCHANGED <<source, git, svn_branches, flawed>>

\* Everything else is a change of some files of a branch.
ChangeFiles ==
    /\ phase = "walk" /\ work # <<>>
    /\ LET it      == Head(work)
           txn     == TransactionOf(it)
           from    == BranchKey(Source(it))
           mark    == CommitAt(from, it.at)
           noted   == /\ IsCopy(it) /\ from # BranchKey(Target(it))
                      /\ Source(it).effective = Target(it).effective
           deletes == \/ it.kind = "delete"
                      \/ it.kind = "replace" /\ ~ IsCopy(it)
                      \/ it.dir /\ it.from # NoPath
           new     == Changed(txn, IF deletes THEN {Target(it).path} ELSE {},
                              IF it.kind = "delete" THEN {} ELSE Written(it))
       IN  /\ Exports(it) /\ ~ IsBranchDeletion(it) /\ ~ IsBranchCopy(it)
           /\ transactions' = (transactions \ {txn}) \cup
                  {[new EXCEPT !.merges =
                      IF noted /\ mark.has THEN @ \cup {<<from, mark.rev>>} ELSE @]}
    /\ work' = Tail(work)
    /\ UNCHANGED <<source, phase, deletedBranches, resetBranches, branches, git,
                   svn_branches, flawed>>

-----------------------------------------------------------------------------
(* SvnRevision::commit *)

\* Mutant: everything is committed to the default branch.
KeyOfDefault(txn) == <<Effective(txn.key[1]), <<"master", "">>>>

\* The branch a transaction commits to.
KeyOf(txn) == <<Effective(txn.key[1]), txn.key[2]>>

\* Transaction::commit writes the deletions, then the modifications; a file takes the
\* place of a directory and the other way round.
Applied(files, txn) ==
    {f \in files : /\ \A d \in txn.deleted : ~ IsPrefix(d, f[1])
                   /\ \A m \in txn.modified : ~ IsPrefix(m[1], f[1]) /\ ~ IsPrefix(f[1], m[1])}
      \cup txn.modified

Deleted(refs) ==
    [k \in Branches |-> IF k \in Range(deletedBranches) THEN [there |-> FALSE, files |-> {}]
                        ELSE refs[k]]

\* The resets, one after the other; one without a mark takes what its source has by now.
Reset(refs, cmd) ==
    [refs EXCEPT ![cmd.branch] =
        IF cmd.has THEN [there |-> TRUE, files |-> cmd.files] ELSE refs[cmd.from]]

WithCommit(refs, txn) ==
    [refs EXCEPT ![KeyOf(txn)] = [there |-> TRUE, files |-> Applied(@.files, txn)]]

\* The refs once the deletions and all resets are written.
AfterQueues ==
    LET after[n \in 0 .. Len(resetBranches)] ==
          IF n = 0 THEN Deleted(git) ELSE Reset(after[n - 1], resetBranches[n])
    IN  after[Len(resetBranches)]

\* The refs `refs` once all transactions are committed.
AfterTransactions(refs) ==
    LET txns == SetToSeq(transactions)
        after[n \in 0 .. Cardinality(transactions)] ==
          IF n = 0 THEN refs ELSE WithCommit(after[n - 1], txns[n])
    IN  after[Cardinality(transactions)]

\* The queues of all repositories are written, then the transactions commit.
Commit ==
    /\ phase = "walk" /\ work = <<>>
    /\ LET reset == AfterQueues
           new   == AfterTransactions(reset)
       IN  IF \E i \in DOMAIN resetBranches : ~ reset[resetBranches[i].branch].there
           THEN phase' = "failed" /\ UNCHANGED <<git, queues, changes>>
           ELSE /\ git' = new
                /\ branches' = [k \in Branches |->
                      branches[k] \o
                        [i \in 1 .. Cardinality({t \in transactions : KeyOf(t) = k}) |->
                            [rev |-> revnum, has |-> TRUE, files |-> new[k].files]]]
                /\ deletedBranches' = <<>>
                /\ resetBranches' = <<>>
                /\ transactions' = {}
                /\ changes' = <<>>
                /\ phase' = "edit"
    /\ UNCHANGED <<svn, tree, edits, work, svn_branches, flawed>>

Next ==
    \/ Edit
    \/ Publish
    \/ Skip
    \/ Recurse
    \/ Fail
    \/ DeleteBranch
    \/ CreateBranch
    \/ ChangeFiles
    \/ Commit

Spec == Init /\ [][Next]_vars

-----------------------------------------------------------------------------
(* Properties *)

TypeOK ==
    /\ \A r \in DOMAIN svn : DOMAIN svn[r] \subseteq Path
    /\ DOMAIN changes \subseteq Path
    /\ phase \in {"edit", "walk", "failed"}
    /\ \A i \in DOMAIN work : work[i].path \in Path /\ work[i].kind \in {"add", "modify", "replace", "delete"}
    /\ Range(deletedBranches) \subseteq Branches
    /\ \A t \in transactions : KeyOf(t) \in Branches
    /\ DOMAIN git = Branches /\ DOMAIN branches = Branches

\* A revision is exported, and nobody has begun another one.
AtRest == phase = "edit" /\ svn # <<>> /\ edits.revision = 0

\* After every revision each git branch holds exactly the files the rules map to it,
\* with the contents they have in Subversion (README.md, --verify-content).
GitHoldsSvn ==
    AtRest => \A k \in Branches : git[k].files = Wanted(k, revnum)

\* A branch whose directory is gone from Subversion has no files in git any more: a
\* deletion reaches all branches below the path that is deleted (recurse).
GoneIsGone ==
    AtRest =>
        \A k \in Branches :
            (\A p \in DOMAIN svn[revnum] :
                LET rule == FindMatchRule(p, TRUE, "none") IN
                rule.action = "export" => BranchKey(Split(rule, p)) # k)
            => git[k].files = {}

\* So it does unless a revision has replaced a directory above branches, copied a branch
\* without files or copied one to or from a prefix (exportEntry, createBranch); whatever
\* else is copied, deleted, replaced and changed in one revision, in whatever order the
\* names come.
TreeExact == ~ flawed => GitHoldsSvn

\* The same of every past revision: a later copy finds the commit it starts from, and
\* finds none only where there were no files (markFrom).
PointsExact ==
    ~ flawed /\ AtRest =>
        \A k \in Branches, r \in 1 .. revnum :
            CommitAt(k, r).files = Wanted(k, r)

\* The conversion stops only for a file no rule matches, or for a copy of a branch that
\* has no files yet (exportEntry, createBranch).
FailureExplained ==
    phase = "failed" =>
        \/ CopiesEmptyBranch
        \/ \E p \in Files(svn[revnum]) : FindMatchRule(p, FALSE, "none") = NoRule

\* The branch the files in directory d belong to.
KeyAt(d) == BranchKey(Target([path |-> d, dir |-> TRUE]))

\* Each branch has one directory behind it.
OneDirectory ==
    \A d, e \in DirPath : IsBranch(d) /\ IsBranch(e) /\ KeyAt(d) = KeyAt(e) => d = e

\* What a revision asks of a repository is what module Repository takes for granted
\* (OnePath of SvnHistory): a branch that is deleted is not mentioned otherwise, a branch
\* has one transaction, and merges are commits of other branches of the same repository.
AsksProperly ==
    /\ \A i, j \in DOMAIN deletedBranches : deletedBranches[i] = deletedBranches[j] => i = j
    /\ \A k \in Range(deletedBranches) :
          /\ \A i \in DOMAIN resetBranches : resetBranches[i].branch # k
          /\ \A t \in transactions : KeyOf(t) # k
    /\ \A t, u \in transactions : KeyOf(t) = KeyOf(u) => t = u
    /\ \A t \in transactions : \A m \in t.merges :
          /\ m[1] # KeyOf(t) /\ m[1][1] = KeyOf(t)[1]
          /\ \E i \in DOMAIN branches[m[1]] :
                branches[m[1]][i].has /\ branches[m[1]][i].rev = m[2]

\* A branch gets a commit, a reset or a deletion only from a revision that changed
\* something at, below or above its own directory.
OthersUntouched ==
    [][\A k \in Branches : branches'[k] # branches[k] =>
          \E p \in DOMAIN changes, d \in DirPath :
              /\ IsPrefix(d, p) \/ IsPrefix(p, d)
              /\ IsBranch(d) /\ KeyAt(d) = k]_vars
=============================================================================
