----------------------------- MODULE Repository -----------------------------
(***************************************************************************)
(* FastImportRepository and its Transaction (src/src/repository.cpp): how  *)
(* the operations svn.cpp asks for become commands of one git fast-import  *)
(* process, how that process is stopped and started again, and how a later *)
(* run of the converter picks up from the log and the marks file.          *)
(*                                                                         *)
(* The converter is one thread.  What it has written to fast-import is     *)
(* taken as executed: fast-import only ever lags behind by a suffix of the *)
(* commands, the converter never reads an answer, and a crash that loses   *)
(* such a suffix leaves what a crash before writing it leaves.             *)
(*                                                                         *)
(* Abstracted: file names and contents (a file is named by its branch and  *)
(* revision), authors, dates and log messages, the notes of                *)
(* --add-metadata-notes, --dry-run and --create-dump.                      *)
(***************************************************************************)
EXTENDS SvnHistory, FiniteSets

CONSTANTS
    DefaultBranch,   \* git's init.defaultBranch
    RuleBranches,    \* the branches named in the repository's block of the rules
    TagBranch,       \* the branches under refs/tags/, all with `annotated true`
    Conflicts,       \* pairs <<a, b>> where one name is a directory of the other
    CommitInterval,  \* --commit-interval
    maxMark,         \* the bound of the mark space: ULONG_MAX in the code
    MaxRev,          \* bound: revisions
    MaxTotalOps,     \* bound: operations over all revisions
    MaxCommitMark,   \* bound: commit marks in use
    MaxFiles,        \* bound: file marks in use
    MaxEvict,        \* bound: evictions from the process cache
    EvictPhases,     \* where an eviction is considered: between revisions ("idle"), between
                     \* operations ("prepare"), between commits of one revision ("commit")
    MaxFinish,       \* bound: runs that come to their end and are followed by another
    MaxCrash,        \* bound: crashes
    CrashKinds       \* a subset of {"interrupt", "kill"}

ASSUME RepositoryAssumption ==
    /\ DefaultBranch \in Branch /\ RuleBranches \subseteq Branch
    /\ TagBranch \subseteq Branch
    /\ Conflicts \subseteq Branch \X Branch
    /\ CommitInterval \in Nat \ {0}
    /\ {maxMark, MaxRev, MaxTotalOps, MaxCommitMark, MaxFiles, MaxEvict, MaxFinish, MaxCrash} \subseteq Nat
    /\ MaxCommitMark + 1 < maxMark - MaxFiles - 1
    /\ EvictPhases \subseteq {"idle", "prepare", "commit"}
    /\ CrashKinds \subseteq {"interrupt", "kill"}

CommitMark == 1 .. MaxCommitMark
FileMark   == (maxMark - MaxFiles) .. (maxMark - 1)

Git == INSTANCE GitFastImport

VARIABLES
    \* the converter's memory
    branches, last_commit_mark, next_file_mark, commitCount,
    outstandingTransactions, transactions, deletedBranches, resetBranches,
    annotatedTags, processHasStarted,
    \* the driver: how many lines of the log are read, where the export of revisions is
    pos, phase, rev, todo, queue,
    \* the fast-import process, the disk, the log and the annotated-tags file
    fi, disk, log, tagsFile,
    \* the SVN repository: the operations of the revisions seen so far, and the
    \* histories they call for (a history variable, read by properties only)
    svn, tips,
    \* how often each bounded event has happened
    events

memory  == <<branches, last_commit_mark, next_file_mark, commitCount,
             outstandingTransactions, transactions, deletedBranches, resetBranches,
             annotatedTags>>
marking == <<last_commit_mark, next_file_mark>>
driver  == <<phase, rev, todo, queue>>
stored  == <<disk, log, tagsFile>>
history == <<svn, tips>>
vars    == <<memory, processHasStarted, pos, driver, fi, stored, history, events>>

-----------------------------------------------------------------------------
(* Branches and marks *)

\* QHash<QString, Branch>: `known` tells whether the key is in the hash.
EmptyBranch(known, created) ==
    [known |-> known, created |-> created, commits |-> <<>>, marks |-> <<>>]

LastOf(seq) == IF seq = <<>> THEN 0 ELSE seq[Len(seq)]

\* br.created && !br.marks.isEmpty() && br.marks.last()
HasTip(br) == br.created # 0 /\ LastOf(br.marks) # 0

\* The branches of the rules and the default branch count as created by revision 1.
InitialBranches ==
    [b \in Branch |-> IF b \in RuleBranches \cup {DefaultBranch} THEN EmptyBranch(TRUE, 1)
                      ELSE EmptyBranch(FALSE, 0)]

\* Mutant: the mark noted is not the mark written.
ExtendedOffByOne(br, revnum, mark, created) ==
    [known |-> TRUE, created |-> created,
     commits |-> Append(br.commits, revnum), marks |-> Append(br.marks, mark - 1)]

\* br.commits.append(revnum); br.marks.append(mark)
Extended(br, revnum, mark, created) ==
    [known |-> TRUE, created |-> created,
     commits |-> Append(br.commits, revnum), marks |-> Append(br.marks, mark)]

\* Mutant: std::lower_bound in place of upper_bound.
MarkFromEarlier(brs, from, at) ==
    LET br     == brs[from]
        before == {i \in DOMAIN br.commits : br.commits[i] < at}
    IN  IF br.created = 0 \/ br.commits = <<>> THEN -1
        ELSE IF before = {} THEN 0
        ELSE br.marks[CHOOSE i \in before : \A j \in before : j <= i]

\* The mark of `from` at revision `at`: 0 when its first commit is later, -1
\* when it does not exist.
MarkFrom(brs, from, at) ==
    LET br     == brs[from]
        before == {i \in DOMAIN br.commits : br.commits[i] <= at}
    IN  IF br.created = 0 \/ br.commits = <<>> THEN -1
        ELSE IF before = {} THEN 0
        ELSE br.marks[CHOOSE i \in before : \A j \in before : j <= i]

\* Looking a name up with branches[...] leaves an entry behind.
LookedUp(brs, b) == [brs EXCEPT ![b].known = TRUE]

-----------------------------------------------------------------------------
(* The process *)

\* Mutant: a new process is not told where the branches were.
ReloadedNothing(f, brs) == f

\* reloadBranches: every branch with a last mark is reset to it.
Reloaded(f, brs) ==
    LET last(b) == LastOf(brs[b].marks)
        loaded  == {b \in Branch : last(b) # 0}
    IN  IF \E b \in loaded : f.mark[last(b)] = Null THEN Git!Die(f)
        ELSE [f EXCEPT !.tab = [b \in Branch |->
                 IF b \in loaded THEN f.mark[last(b)] ELSE @[b]]]

\* startFastImport: a no-op while the process runs.
Running(brs) == IF processHasStarted THEN fi ELSE Reloaded(Git!Started(disk), brs)

\* Mutant: the process is killed rather than waited for.
ClosedAtOnce(f, started) == disk

\* closeFastImport: the process reads all it was sent, writes refs and marks and ends.
Closed(f, started) == IF started THEN Git!Dump(f, disk) ELSE disk

-----------------------------------------------------------------------------
(* A run begins, with an empty repository or with what earlier runs left *)

\* lastValidMark: the end of the gapless run of marks 1, 2, ... in the file.
LastValidMark(d) ==
    CHOOSE n \in 0 .. MaxCommitMark :
        /\ \A m \in 1 .. n : d.mark[m] # Null
        /\ n < MaxCommitMark => d.mark[n + 1] = Null

\* Mutant: a line one mark too far is taken for exported.
UnknownTooFar(line) == line.mark > LastValidMark(disk) + 1

\* "unknown commit mark found: rewinding"
Unknown(line) == line.mark > LastValidMark(disk)

\* A branch, one more of its lines read.
Restored(br, line) ==
    Extended(br, line.rev, line.mark,
             IF ~ HasTip(br) \/ line.mark = 0 THEN line.rev ELSE br.created)

\* Mutant: commit marks start over in every run.
HighestMarkForgotten(mark) == last_commit_mark

HighestMark(mark) == IF last_commit_mark < mark THEN mark ELSE last_commit_mark

\* Mutant: the last revision of the log is exported once more.
ResumeAgain(lines, keep) ==
    CASE keep < Len(lines) -> lines[keep + 1].rev
      [] keep = Len(lines) /\ lines # <<>> -> lines[keep].rev
      [] OTHER -> 1

\* What setupIncremental returns, and main takes for the first revision to export.
ResumeRevision(lines, keep) ==
    CASE keep < Len(lines) -> lines[keep + 1].rev
      [] keep = Len(lines) /\ lines # <<>> -> lines[keep].rev + 1
      [] OTHER -> 1

\* Mutant: the log is not cut.
NotTruncated(lines, keep) == lines

\* logfile.resize(pos)
Truncated(lines, keep) == SubSeq(lines, 1, keep)

\* Mutant: the annotated tags of earlier runs are forgotten.
TagsForgotten(file) == {}

RestoredAnnotatedTags(file) == file

Init ==
    /\ branches = InitialBranches
    /\ last_commit_mark = 0
    /\ next_file_mark = maxMark - 1
    /\ commitCount = 0
    /\ outstandingTransactions = 0
    /\ transactions = {}
    /\ deletedBranches = <<>>
    /\ resetBranches = <<>>
    /\ annotatedTags = {}
    /\ processHasStarted = FALSE
    /\ pos = 0
    /\ todo = <<>>
    /\ queue = <<>>
    /\ fi = Git!Started(Git!EmptyDisk)
    /\ phase = "idle"
    /\ rev = 1
    /\ disk = Git!EmptyDisk
    /\ log = <<>>
    /\ tagsFile = {}
    /\ svn = <<>>
    /\ tips = <<>>
    /\ events = [evict |-> 0, finish |-> 0, crash |-> 0]

\* setupIncremental reads the log, a line at a time, as long as it knows the marks.
RestoreLine ==
    /\ phase = "down"
    /\ pos < Len(log)
    /\ LET line == log[pos + 1] IN
        /\ ~ Unknown(line)
        /\ branches' = [branches EXCEPT ![line.branch] = Restored(@, line)]
        /\ last_commit_mark' = HighestMark(line.mark)
    /\ pos' = pos + 1
    /\ UNCHANGED <<next_file_mark, commitCount, outstandingTransactions, transactions,
                   deletedBranches, resetBranches, annotatedTags, processHasStarted,
                   driver, fi, stored, history, events>>

\* At the end of the log, or at a mark that is not in the marks file, it cuts the log and
\* returns; restoreAnnotatedTags; min_rev.
StartExport ==
    /\ phase = "down"
    /\ pos < Len(log) => Unknown(log[pos + 1])
    /\ log' = Truncated(log, pos)
    /\ rev' = ResumeRevision(log, pos)
    /\ annotatedTags' = RestoredAnnotatedTags(tagsFile)
    /\ phase' = "idle"
    /\ pos' = 0
    /\ UNCHANGED <<branches, marking, commitCount, outstandingTransactions, transactions,
                   deletedBranches, resetBranches, processHasStarted, todo, queue, fi,
                   disk, tagsFile, history, events>>

-----------------------------------------------------------------------------
(* One revision: exportRevision, prepareTransactions, commit *)

\* A revision already seen by an earlier run asks for the same operations again.
BeginRevision ==
    /\ phase = "idle"
    /\ rev <= MaxRev
    /\ IF rev <= Len(svn)
       THEN todo' = svn[rev] /\ UNCHANGED history
       ELSE /\ Len(FlattenSeq(svn)) < MaxTotalOps
            /\ \E ops \in Revisions(tips) :
                   /\ Len(FlattenSeq(svn)) + Len(ops) <= MaxTotalOps
                   /\ todo' = ops
                   /\ svn' = Append(svn, ops)
                   /\ tips' = Append(tips, TipsAfter(tips, ops))
    /\ phase' = "prepare"
    /\ UNCHANGED <<memory, processHasStarted, rev, queue, fi, stored, pos, events>>

\* Mutant: the test for a branch reset twice in one revision is upside down.
NeedsBackupInverted(br) == HasTip(br) /\ br.created = rev

\* The branch had commits, from before this revision.
NeedsBackup(br) == HasTip(br) /\ br.created # rev

\* resetBranch: the command is queued, and before it the backup of a branch that
\* had commits before this revision.
ResetBranch(b, mark, resetTo, brs) ==
    LET br  == brs[b]
        cmd == [branch |-> b, rev |-> rev, mark |-> mark, to |-> resetTo,
                backup |-> NeedsBackup(br)]
    IN  /\ branches' = [brs EXCEPT ![b] = Extended(br, rev, mark, rev)]
        /\ IF resetTo = Null
           THEN deletedBranches' = Append(deletedBranches, cmd) /\ UNCHANGED resetBranches
           ELSE resetBranches' = Append(resetBranches, cmd) /\ UNCHANGED deletedBranches

\* rule.annotate: createAnnotatedTag (an existing entry is replaced).
Annotated(b) == IF b \in TagBranch THEN annotatedTags \cup {b} ELSE annotatedTags

NextIs(kinds) == phase = "prepare" /\ todo # <<>> /\ Head(todo).kind \in kinds

CreateBranch ==
    /\ NextIs({"copy"})
    /\ LET op   == Head(todo)
           brs  == LookedUp(branches, op.from)
           mark == MarkFrom(branches, op.from, op.at)
       IN  IF mark = -1
           THEN /\ phase' = "failed"
                /\ branches' = brs
                /\ UNCHANGED <<resetBranches, deletedBranches, annotatedTags, todo>>
           ELSE /\ ResetBranch(op.branch, mark, op.from, brs)
                /\ annotatedTags' = Annotated(op.branch)
                /\ todo' = Tail(todo)
                /\ UNCHANGED phase
    /\ UNCHANGED <<marking, commitCount, outstandingTransactions, transactions,
                   processHasStarted, rev, queue, fi, stored, history, pos, events>>

DeleteBranch ==
    /\ NextIs({"delete"})
    /\ ResetBranch(Head(todo).branch, 0, Null, branches)
    /\ todo' = Tail(todo)
    /\ UNCHANGED <<marking, commitCount, outstandingTransactions, transactions,
                   annotatedTags, processHasStarted, phase, rev, queue, fi, stored,
                   history, pos, events>>

\* Mutant: every file opens a transaction of its own.
TransactionOfItsOwn(b) == [branch |-> b, merges |-> {}, files |-> {}]

\* The open transaction of a branch, or a new one.
TransactionOf(b) ==
    LET open == {t \in transactions : t.branch = b} IN
    IF open # {} THEN CHOOSE t \in open : TRUE
    ELSE [branch |-> b, merges |-> {}, files |-> {}]

\* A changed or removed file: newTransaction for the first one of its branch, which
\* may send a checkpoint; noteCopyFromBranch; addFile, which sends the blob at once.
ChangeFile ==
    /\ NextIs({"change", "remove"})
    /\ LET op     == Head(todo)
           b      == op.branch
           txn    == TransactionOf(b)
           isNew  == txn \notin transactions
           flush  == isNew /\ (commitCount + 1) % CommitInterval = 0
           noted  == op.from # Null
           mark   == IF noted THEN MarkFrom(branches, op.from, op.at) ELSE 0
           blob   == op.kind = "change"
           file   == next_file_mark
           new    == [txn EXCEPT !.merges = IF mark > 0 THEN @ \cup {mark} ELSE @,
                                 !.files  = IF blob THEN @ \cup {file} ELSE @]
           f      == Running(branches)
       IN  /\ transactions' = (transactions \ {txn}) \cup {new}
           /\ outstandingTransactions' = outstandingTransactions + (IF isNew THEN 1 ELSE 0)
           /\ commitCount' = (commitCount + (IF isNew THEN 1 ELSE 0)) % CommitInterval
           /\ branches' = IF noted THEN LookedUp(branches, op.from) ELSE branches
           /\ annotatedTags' = Annotated(b)
           /\ processHasStarted' = (processHasStarted \/ flush \/ blob)
           /\ disk' = IF flush /\ ~ f.dead THEN Git!Dump(f, disk) ELSE disk
           /\ IF blob
              THEN /\ file > last_commit_mark + 1
                   /\ file \in FileMark
                   /\ next_file_mark' = file - 1
                   /\ fi' = Git!Blob(f, file, <<b, rev>>)
              ELSE /\ fi' = IF flush THEN f ELSE fi
                   /\ UNCHANGED next_file_mark
    /\ todo' = Tail(todo)
    /\ UNCHANGED <<last_commit_mark, deletedBranches, resetBranches, phase, rev, queue,
                   log, tagsFile, history, pos, events>>

\* FastImportRepository::commit: the deletions, then the resets, go to fast-import;
\* the annotated tags of branches deleted and not reset again are dropped.
Flush ==
    /\ phase = "prepare"
    /\ todo = <<>>
    /\ phase' = "commit"
    /\ queue' = deletedBranches \o resetBranches
    /\ deletedBranches' = <<>>
    /\ resetBranches' = <<>>
    /\ annotatedTags' = annotatedTags \
           {b \in TagBranch : /\ \E i \in DOMAIN deletedBranches : deletedBranches[i].branch = b
                              /\ \A i \in DOMAIN resetBranches : resetBranches[i].branch # b}
    /\ IF queue' = <<>> THEN UNCHANGED <<fi, processHasStarted>>
       ELSE fi' = Running(branches) /\ processHasStarted' = TRUE
    /\ UNCHANGED <<branches, marking, commitCount, outstandingTransactions, transactions,
                   rev, todo, stored, history, pos, events>>

\* One queued command, its backup first.  Its progress line is logged.
WriteReset ==
    /\ phase = "commit"
    /\ queue # <<>>
    /\ ~ fi.dead
    /\ LET cmd == Head(queue)
           b   == cmd.branch
           f   == IF cmd.backup THEN Git!Backup(fi, disk, b, cmd.rev) ELSE fi
           g   == CASE f.dead -> f
                    [] ~ f.dead /\ cmd.to = Null -> Git!ResetToNull(f, b)
                    [] ~ f.dead /\ cmd.to # Null /\ cmd.mark # 0 ->
                           Git!ResetToMark(f, b, cmd.mark)
                    [] OTHER -> Git!ResetToRef(f, disk, b, cmd.to)
       IN  /\ fi' = g
           /\ log' = IF g.dead THEN log
                     ELSE Append(log, [rev |-> cmd.rev, branch |-> b, mark |-> cmd.mark])
    /\ queue' = Tail(queue)
    /\ UNCHANGED <<memory, processHasStarted, phase, rev, todo, disk, tagsFile, history,
                   pos, events>>

\* A branch name that is a directory of this one, or the other way round.
InConflict(b) ==
    \E c \in Branch : branches[c].known /\ (<<b, c>> \in Conflicts \/ <<c, b>> \in Conflicts)

\* Transaction::commit and, when it succeeds, the transaction's end.
CommitTransaction(txn) ==
    /\ phase = "commit"
    /\ queue = <<>>
    /\ ~ fi.dead
    /\ IF InConflict(txn.branch)
       THEN /\ phase' = "failed"
            /\ UNCHANGED <<branches, marking, outstandingTransactions, transactions,
                           processHasStarted, fi, log>>
       ELSE LET b       == txn.branch
                br      == branches[b]
                mark    == last_commit_mark + 1
                parent  == IF HasTip(br) THEN LastOf(br.marks) ELSE 0
                created == IF HasTip(br) THEN br.created ELSE rev
                f       == Running(branches)
                merges  == txn.merges \ {parent}
                lost    == {m \in merges : f.mark[m] = Null}
                commit  == [branch |-> b, rev |-> rev,
                            files  |-> {f.blob[m] : m \in txn.files},
                            merges |-> {HeadOf(f.mark[m]) : m \in merges \ lost}]
                g       == IF f.dead \/ lost # {} THEN Git!Die(f)
                           ELSE Git!Commit(f, b, mark, commit)
            IN  /\ mark \in CommitMark
                /\ mark < next_file_mark - 1
                /\ last_commit_mark' = mark
                /\ branches' = [branches EXCEPT ![b] = Extended(br, rev, mark, created)]
                /\ fi' = g
                /\ processHasStarted' = TRUE
                /\ log' = IF g.dead THEN log
                          ELSE Append(log, [rev |-> rev, branch |-> b, mark |-> mark])
                /\ transactions' = transactions \ {txn}
                /\ outstandingTransactions' = outstandingTransactions - 1
                /\ next_file_mark' = IF outstandingTransactions = 1 THEN maxMark - 1
                                     ELSE next_file_mark
                /\ UNCHANGED phase
    /\ UNCHANGED <<commitCount, deletedBranches, resetBranches, annotatedTags, rev, todo,
                   queue, disk, tagsFile, history, pos, events>>

EndRevision ==
    /\ phase = "commit"
    /\ queue = <<>>
    /\ transactions = {}
    /\ ~ fi.dead
    /\ phase' = "idle"
    /\ rev' = rev + 1
    /\ UNCHANGED <<memory, processHasStarted, todo, queue, fi, stored, history, pos, events>>

-----------------------------------------------------------------------------
(* The process cache, crashes and the end of a run *)

\* closeFastImport by the process cache, to make room for another repository: between
\* two operations on this one.
Evict ==
    /\ phase \in EvictPhases
    /\ processHasStarted
    /\ ~ fi.dead
    /\ queue = <<>>
    /\ events.evict < MaxEvict
    /\ events' = [events EXCEPT !.evict = @ + 1]
    /\ disk' = Closed(fi, TRUE)
    /\ processHasStarted' = FALSE
    /\ fi' = Git!Started(Git!EmptyDisk)
    /\ UNCHANGED <<memory, pos, driver, log, tagsFile, history>>

\* Nothing of the converter is left (rev is kept, for properties to speak of).
Gone ==
    /\ branches' = InitialBranches
    /\ last_commit_mark' = 0
    /\ next_file_mark' = maxMark - 1
    /\ commitCount' = 0
    /\ outstandingTransactions' = 0
    /\ transactions' = {}
    /\ deletedBranches' = <<>>
    /\ resetBranches' = <<>>
    /\ annotatedTags' = {}
    /\ processHasStarted' = FALSE
    /\ todo' = <<>>
    /\ queue' = <<>>
    /\ fi' = Git!Started(Git!EmptyDisk)
    /\ phase' = "down"
    /\ UNCHANGED rev

\* The converter dies: alone ("kill"), and fast-import reads what it was sent to the
\* end; or with it ("interrupt", Ctrl-C), and only what a checkpoint wrote remains.
Crash(kind) ==
    /\ phase \in {"idle", "prepare", "commit"}
    /\ ~ fi.dead
    /\ events.crash < MaxCrash
    /\ events' = [events EXCEPT !.crash = @ + 1]
    /\ disk' = IF kind = "kill" THEN Closed(fi, processHasStarted) ELSE disk
    /\ Gone
    /\ UNCHANGED <<pos, log, tagsFile, history>>

\* The youngest revision is exported, or the export failed: finalizeTags for the
\* annotated tags, if there are any, and the destructor, with its assertion.
Finish ==
    /\ phase \in {"idle", "failed"}
    /\ ~ fi.dead
    /\ events.finish < MaxFinish
    /\ events' = [events EXCEPT !.finish = @ + 1]
    /\ LET f == IF annotatedTags = {} THEN fi
                ELSE Git!Tag(Running(branches), disk, annotatedTags)
           started == processHasStarted \/ annotatedTags # {}
       IN  /\ tagsFile' = IF annotatedTags = {} THEN tagsFile ELSE annotatedTags
           /\ IF f.dead
              THEN /\ fi' = f
                   /\ phase' = "dead"
                   /\ processHasStarted' = started
                   /\ UNCHANGED <<memory, rev, todo, queue, disk>>
              ELSE /\ disk' = Closed(f, started)
                   /\ IF outstandingTransactions = 0 THEN Gone
                      ELSE /\ phase' = "asserted"
                           /\ processHasStarted' = FALSE
                           /\ fi' = Git!Started(Git!EmptyDisk)
                           /\ UNCHANGED <<memory, rev, todo, queue>>
    /\ UNCHANGED <<pos, log, history>>

-----------------------------------------------------------------------------
Next ==
    \/ RestoreLine
    \/ StartExport
    \/ BeginRevision
    \/ CreateBranch
    \/ DeleteBranch
    \/ ChangeFile
    \/ Flush
    \/ WriteReset
    \/ \E txn \in transactions : CommitTransaction(txn)
    \/ EndRevision
    \/ Evict
    \/ \E kind \in CrashKinds : Crash(kind)
    \/ Finish

Spec == Init /\ [][Next]_vars

-----------------------------------------------------------------------------
(* What the properties below are stated with *)

\* The tip the repository has for b: the process's, else the one on disk.
GitTip(b) ==
    LET tip == IF processHasStarted THEN Git!RefTip(fi, disk, b) ELSE disk.ref[b]
    IN  IF tip = Null THEN <<>> ELSE tip

MarkTable == IF processHasStarted THEN fi.mark ELSE disk.mark

-----------------------------------------------------------------------------
(* Properties *)

\* The types of the converter's own variables.
TypeOK ==
    /\ branches \in [Branch -> [known : BOOLEAN, created : Nat,
                                commits : Seq(Nat), marks : Seq(Nat)]]
    /\ last_commit_mark \in 0 .. MaxCommitMark
    /\ next_file_mark \in (maxMark - MaxFiles - 1) .. (maxMark - 1)
    /\ pos \in 0 .. Len(log)
    /\ commitCount \in 0 .. CommitInterval - 1
    /\ outstandingTransactions \in Nat
    /\ \A t \in transactions : t.branch \in Branch
    /\ annotatedTags \subseteq TagBranch
    /\ tagsFile \subseteq TagBranch
    /\ processHasStarted \in BOOLEAN
    /\ phase \in {"idle", "prepare", "commit", "failed", "asserted", "down", "dead"}
    /\ rev \in 1 .. MaxRev + 1

\* fast-import accepts everything it is sent: no mark, branch or ref the converter
\* names is unknown to the process of the moment (startFastImport's qFatal, "has been
\* started once and crashed?", never fires).  The one exception ends the converter: the
\* last annotated tag of the file is never taken out of it (finalizeTags saves no empty
\* list), and a later run tags a branch that an earlier one deleted.
NeverFatal ==
    fi.dead => /\ phase = "dead"
               /\ \E b \in annotatedTags : TipsAt(tips, rev - 1)[b] = <<>>

\* At every revision boundary each branch of the repository, on disk or in the
\* process, has exactly the history Subversion calls for, whatever evictions and
\* restarts came between: parents, files and merges included.
ExportExact ==
    phase = "idle" => \A b \in Branch : GitTip(b) = TipsAt(tips, rev - 1)[b]

\* markFrom answers for every branch and every past revision with the mark of the
\* commit that was the branch's tip then, and with no mark if it had none: a later
\* copy starts where Subversion says (createBranch, noteCopyFromBranch).
PointsExact ==
    phase = "idle" =>
        \A b \in Branch, r \in 1 .. rev - 1 :
            LET m == MarkFrom(branches, b, r) IN
            IF m > 0 THEN MarkTable[m] = tips[r][b] ELSE tips[r][b] = <<>>

\* "is branching but no exported commits exist in repository creating an empty branch"
\* (createBranch): a branch copied from where its source had no commit yet is empty, if
\* nothing else is done to it in that revision.
EmptyCopyIsEmpty ==
    phase = "idle" /\ rev > 1 =>
        \A b \in Branch :
            LET of(kinds) == OfKind(svn[rev - 1], b, kinds)
            IN  /\ of({"copy"}) # {} /\ of({"delete", "change", "remove"}) = {}
                /\ \A i \in of({"copy"}) :
                      TipsAt(tips, svn[rev - 1][i].at)[svn[rev - 1][i].from] = <<>>
                => GitTip(b) = <<>>

BackedUp(b, r) ==
    \E k \in fi.backup \cup disk.backup :
        k.branch = b /\ k.rev = r /\ k.tip = TipsAt(tips, r - 1)[b]

\* A branch that is deleted keeps its old commits under a backup ref (resetBranch).
DeletedHistoryKept ==
    phase = "idle" =>
        \A b \in Branch, r \in 1 .. rev - 1 :
            Abandoned(tips, b, r) /\ tips[r][b] = <<>> => BackedUp(b, r)

\* So does a branch that is started again from elsewhere: "backing up branch" of
\* resetBranch names the commits the branch had.
HistoryKept ==
    phase = "idle" =>
        \A b \in Branch, r \in 1 .. rev - 1 : Abandoned(tips, b, r) => BackedUp(b, r)

\* Once a run has ended, every annotated tag sits on its branch's tip, and no tag is
\* left of a branch that was deleted (createAnnotatedTag, commit, finalizeTags).
TagsExact ==
    phase = "down" =>
        \A b \in TagBranch :
            LET tip == TipsAt(tips, rev - 1)[b]
            IN  disk.tag[b] = (IF tip = <<>> THEN Null ELSE tip)

\* "Removing annotated tag": the converter remembers no annotated tag of a branch that is
\* deleted, in the run that deleted it and in those that follow (restoreAnnotatedTags).
TagsHaveBranches ==
    phase = "idle" => \A b \in annotatedTags : TipsAt(tips, rev - 1)[b] # <<>>

\* The log lists revisions in order, across crashes, rewinds and repeated revisions:
\* the warning "revision numbers are not monotonic" of setupIncremental never fires.
LogMonotonic == \A i, j \in DOMAIN log : i < j => log[i].rev <= log[j].rev

\* No revision is committed twice on one line of history, however often it had to be
\* exported again after a crash.
NoCommitTwice ==
    \A b \in Branch : \A i, j \in DOMAIN GitTip(b) :
        i < j => GitTip(b)[i].rev < GitTip(b)[j].rev

\* outstandingTransactions counts the open transactions, one for each branch at most, and
\* none is open between revisions: the file marks are all free again then, and the
\* destructor's assertion holds for a run that exported every revision it began.
OutstandingExact ==
    /\ outstandingTransactions = Cardinality(transactions)
    /\ \A t, u \in transactions : t.branch = u.branch => t = u
    /\ phase \in {"idle", "down"} =>
           outstandingTransactions = 0 /\ next_file_mark = maxMark - 1

\* In a running process every branch with a last mark stands where Subversion says.
LiveTipsExact ==
    phase = "idle" /\ processHasStarted =>
        \A b \in Branch : HasTip(branches[b]) =>
            fi.tab[b] = TipsAt(tips, rev - 1)[b]

\* Revision r left all its lines in the log: one for each reset of a branch and, with a
\* mark of its own, one for each branch it changed.
Accounted(r) ==
    \A b \in Branch :
        LET lines == {i \in DOMAIN log : log[i].rev = r /\ log[i].branch = b}
            new   == {i \in lines : \A j \in 1 .. i - 1 : log[j].mark < log[i].mark}
        IN  /\ Cardinality(lines \ new) >= Cardinality(OfKind(svn[r], b, {"copy", "delete"}))
            /\ OfKind(svn[r], b, {"change", "remove"}) # {} => new # {}

\* A run that resumes after a crash knows every past tip, provided the log holds whole
\* revisions only: setupIncremental skips, rewinds and repeats nothing it should not.
ResumeExact ==
    (\A r \in 1 .. rev - 1 : Accounted(r)) => PointsExact /\ LiveTipsExact

\* The abstract specification: one atomic export per revision.
Abstract == INSTANCE BranchHistory WITH
    seen <- SubSeq(tips, 1, rev - 1),
    git  <- [b \in Branch |-> IF phase \in {"idle", "down"} THEN GitTip(b)
                              ELSE TipsAt(tips, rev - 1)[b]]

\* Revision by revision the repository changes as the abstract export does; the steps
\* of one revision, evictions and whole runs in between change nothing one can see.
ImplementsBranchHistory == Abstract!Spec
=============================================================================
