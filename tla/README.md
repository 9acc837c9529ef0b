# A TLA+ verification of svn2git

svn2git turns a Subversion repository into git repositories. This directory holds
TLA+ modules of its converter, TLC configurations that model-check them on small
instances, and proofs for TLAPS. Paths below are relative to the top of the
repository (`src/src/repository.cpp` and so on). `tlc -config X.cfg M` checks a run
of `PROJECT.json`, `tlapm M.tla` checks the proofs of a module.

## 1. The system

There are two programs.

**The converter** (`svn-all-fast-export`, Qt) reads revision after revision of a local
Subversion repository, matches the changed paths against rules, and writes commands to
one `git fast-import` process for each target repository.

| component | source | state | operations |
|---|---|---|---|
| FastImportRepository and Transaction | `repository.cpp` | branches with their commits and marks, queued deletions and resets, open transactions, mark counters, annotated tags; on disk the repository, `log-<name>`, `marks-<name>`, `annotatedTags-<name>` | setupIncremental, createBranch, deleteBranch, newTransaction, addFile, deleteFile, noteCopyFromBranch, commit (of the repository and of a transaction), createAnnotatedTag, finalizeTags, startFastImport, closeFastImport, reloadBranches |
| ForwardingRepository | `repository.cpp:154-250` | a prefix and a target | passes everything on, transactions put the prefix first |
| ProcessCache | `repository.cpp:252-275` | the repositories with a process, by last use | touch, remove |
| the resume loop | `main.cpp:222-276` | cutoff, min_rev, resume_from | asks every repository for setupIncremental, starts over, restores logs, fails or decides where to begin |
| the export loop | `main.cpp:297-316` | the current revision | exportRevision, finalizeTags |
| SvnRevision | `svn.cpp` | one revision's changed paths, its open transactions | prepareTransactions, exportEntry, exportDispatch, exportInternal, recurse, recursiveDumpDir, commit |
| rules, statistics | `ruleparser.cpp` | the parsed rules | parsing, matching |
| command line, identity map, revisions file | `main.cpp`, `CommandLineParser.cpp` | options, tables | parsing |

They interact by calls on one thread: the export loop calls SvnRevision, which calls the
repositories; every call of a repository that writes may make ProcessCache close the
process of another repository. fast-import is a process of its own, which reads commands
from a pipe and never answers anything the converter reads except its `progress` lines,
which become the log.

**The validator** (`svn2git-validate`) checks a conversion: `svn_to_git_app.cpp` calls
RulesValidator, AuthorValidator, SVNValidator, GitValidator, ContentValidator and
RevisionMapper one after another, writes an audit log, reports and a traceability map
(AuditLogger, ErrorReporter), and may push to GitLab.

| component | source | state | operations |
|---|---|---|---|
| the application | `svn_to_git_app.cpp` | options, success, the reports of this run and of earlier ones | the phases of main, one for each option, in a fixed order; discoverLayout, generateTraceability, pushToGitLab |
| RulesValidator | `rules_validator.cpp` | the rules read, the files visited, errors | parseFile, analyze, validate, firstMatch, dryRun, resolveTarget |
| ConfigValidator | `config_validator.cpp` | findings | validateAuthorsFile, validateRulesFile, validateAll |
| AuthorValidator | `author_validator.cpp` | - | loadAuthorsFile, extractSVNAuthors, validateCoverage, autoMapAuthors |
| SVNValidator | `svn_validator.cpp` | - | listChildren, countCommits, generatePreMigrationReport |
| ContentValidator, GitValidator | `content_validator.cpp`, `git_validator.cpp` | the content report | standardLayoutMappings, mapWithRules, verify; validateRepositoryIntegrity |
| RevisionMapper | `revision_mapper.cpp` | two indexes, skipped revisions, duplicates; a JSON file and a database | recordMapping, recordSkippedRevision, the look-ups, validateOneToOneMapping, generateMappingFile, generateMappingDatabase |
| AuditLogger, ErrorReporter, CommandRunner | `audit_logger.cpp`, `error_reporter.cpp`, `command_runner.cpp` | events, outcome; errors | setOutcome, generateAuditTrail; report, generateReport; run |

It has one thread too. Everything it learns of the world it learns from the output and exit
code of `svn` and `git`, each of which may fail at each call; and it runs again and again in
a directory that holds what earlier runs left.

### What is hard about it

* The state of a conversion is in four places that are written at different times: the
  converter's memory, the memory of fast-import, the marks file, which fast-import writes
  at a checkpoint or at its end, and the log. After a crash the next run rebuilds the
  first from the last two.
* A fast-import process is closed and started again at nearly any point, when there are
  more repositories than `ProcessCache` allows. The new process knows only the marks file
  and what reloadBranches tells it.
* Commands are queued and written in another order than they were asked for: all
  deletions, all resets, all commits of a revision.
* Copies in Subversion are by path and revision, branches in git by commit: markFrom finds
  the commit by binary search in what the branch has been through, including resets,
  deletions and restarts.
* One Subversion revision may copy, delete, replace and change paths above, at and below
  branches; the walk of `svn.cpp` meets some of them twice.
* Several repositories have logs of different lengths, and one cutoff for all.
* Two programs read the same rules files with two parsers, and what one of them finds good the
  other has to load and to understand alike.
* The validator's exit code, its reports and its push rest on dozens of outside calls. A call
  that fails must not make something look right that was not looked at, and a report of an
  earlier run must not be taken for one of this run.

The hazards of this kind, each at its line, are listed in `PROJECT.json`, with the
properties that speak of them.

### What makes each component correct

* Repository: after each revision every branch has exactly the history Subversion calls
  for; a later copy starts at the right commit; commits that leave a branch stay under a
  backup ref; tags are on their branches; no revision is committed twice after a crash, and
  none is skipped.
* ProcessCache: never more processes than the limit, none forgotten, no false alarm, and
  no crash unnoticed.
* The resume loop: it ends, drops nothing that is not exported again, and starts no
  repository with a revision it already has.
* SvnRevision: after each revision the files of every git branch are those the rules map to
  it; it stops only where it must.
* Rules: reading ends whatever includes whatever; what validation accepts the converter loads,
  as the same rules, and sends every path where the validator expects it.
* RevisionMapper: the one-to-one verdict is exact, a look-up is never wrong, an artifact is
  whole or is not said to be there.
* The application: exit code 0 means that everything that was asked for holds of the world, 1
  that something does not or could not be found out; the records say the same as the code; only
  a sound repository is pushed, and no tag before its branches.

## 2. The modules

| module | models | lines |
|---|---|---|
| `GitFastImport` | git fast-import and the git repository, as the converter uses them (external) | `repository.cpp` uses |
| `SvnHistory` | what a revision may ask of one repository; the histories it calls for | `svn.cpp` |
| `BranchHistory` | the abstract specification of one repository: an atomic export for each revision | - |
| `Repository` | FastImportRepository and Transaction, across runs and crashes | `repository.cpp`, `main.cpp` |
| `ProcessCache` | all repositories and their processes | `repository.cpp:252-275, 572-605, 944-973` |
| `Incremental` | the resume loop over several repositories | `main.cpp:222-276`, `repository.cpp:458-570` |
| `SvnRepository` | Subversion: trees, edits, the list of changed paths (external) | `svn.cpp` uses |
| `SvnExport` | the walk over one revision, rules, forwarding, what is written | `svn.cpp` |
| `RuleLines` | what a line of the rules means to the converter and to the validator; analyze; matching and resolving | `ruleparser.cpp`, `rules_validator.cpp`, `svn.cpp:190-215` |
| `RulesFiles` | rules files with includes, read by the validator and then by the converter | `ruleparser.cpp:125-326`, `rules_validator.cpp:87-317` |
| `RevisionMap` | the mapper's operations on its two indexes | `revision_mapper.cpp` |
| `RevisionMapper` | calls in any order, the JSON file, the database statement by statement, failures and kills | `revision_mapper.cpp` |
| `AuthorsFile` | the authors file, coverage, auto-mapping | `author_validator.cpp`, `config_validator.cpp` |
| `ContentCheck` | directories to refs, sampling, the comparison of one ref | `content_validator.cpp` |
| `ValidateApp` | `svn2git-validate`, run after run | `svn_to_git_app.cpp` and what it calls |
| `RepositoryProofs` | types, the log, the counter of transactions; no revision is committed twice, whatever crashes (theorems) | - |
| `RepositoryExportProofs` | the exactness of an export without crashes and its refinement (theorems) | - |
| `SvnExportProofs` | the export of a revision touches what the revision is about and asks properly (theorems) | - |
| `RulesFilesProofs` | what the validator accepts the converter loads, and both resolve alike (theorems) | - |
| `ProcessCacheProofs`, `IncrementalProofs`, `RevisionMapperProofs`, `ValidateAppProofs` | theorems | - |
| `MCRepository`, `MCProcessCache`, `MCIncremental`, `MCSvnExport`, `MCRulesFiles`, `MCRevisionMapper`, `MCValidateApp` | constants and symmetry for TLC | - |

How they fit: `SvnExport` decides what a revision asks of the repositories and takes them
to do it in one step; `SvnHistory` is what it may ask, in terms of branches; `Repository`
does it, with processes and crashes. That `SvnExport` asks only for what `SvnHistory`
allows is the invariant `AsksProperly`: a branch that is deleted is not mentioned
otherwise, each branch has one transaction, and merges are commits of other branches. That
`Repository` does in one revision what `SvnExport` takes for one step is
`ImplementsBranchHistory`. The action `Evict` of `Repository` is `StartFastImport` of
`ProcessCache`, by another repository, as one repository sees it. `RestoreLine` and
`StartExport` of `Repository` are `SetupIncremental` of `Incremental` for a single
repository and without a cutoff; `Incremental` has many repositories and abstracts the
content of a line to its revision and mark.

On the validator's side `RuleLines`, `AuthorsFile`, `ContentCheck` and `RevisionMap` are pure
operators. `RulesFiles` builds both parsers from `RuleLines`, `RevisionMapper` the artifacts
from `RevisionMap`, and `ValidateApp` composes the four: it takes the verdict on the rules
files as a parameter (`ValidRules`; its instance is analyze of `RuleLines`), resolves
directories with resolveTarget, and has of a database that could not be written only that it
is absent, partial or whole, which `RevisionMapper` has in detail. What ties the converter to
the validator is `SameResolution` of `RulesFiles`: findMatchRule, on which `SvnExport` is
built, against resolveTarget, on which `ValidateApp` is.

### Repository

The converter has one thread. What it has written to fast-import is taken as executed at
once: it never reads an answer, so fast-import only lags behind by a suffix of the
commands, and a crash that loses the suffix leaves what a crash before writing it leaves.

State: `branches` is the QHash of `Branch` (created, commits, marks), `known` tells whether
the key is there; `RuleBranches` are the branches the rules give the repository, which its
constructor enters. `deletedBranches`, `resetBranches`, `transactions`, `annotatedTags` and
the counters are the fields of the same names; `fi` is the process (table of branches,
marks and refs not yet on disk), `disk` what git has on disk, `log` and `tagsFile` the two
files. `svn` and `tips` are history: the operations of each revision and the histories they
call for. A history of a branch is the sequence of its commits, each with its revision,
files and merge parents.

A run is: `RestoreLine` for each line of the log (setupIncremental), `StartExport`, then for
each revision `BeginRevision`, one of `CreateBranch`, `DeleteBranch` or `ChangeFile` for
each operation (createBranch with its annotated tag; deleteBranch; newTransaction,
noteCopyFromBranch, addFile or deleteFile), `Flush` (commit: the queues are ordered and
tags dropped), `WriteReset` for each queued command, `CommitTransaction` in any order of
the open transactions (the code's order is that of a QMap's keys), `EndRevision`; and at
last `Finish` (finalizeTags, destructor). `Evict` and `Crash` come in between. A crash
either leaves fast-import to read to its end ("kill") or ends it too ("interrupt": Ctrl-C
goes to the whole process group), and then only what a checkpoint wrote remains.

File marks go down from `maxMark` (`ULONG_MAX` in the code, made small here), commit marks
up; the assertions of addFile and Transaction::commit are guards, so a run that violated
them would stop (no run comes near).

### ProcessCache

`cache` is the linked list, `state` the QProcess state, `processHasStarted` the flag.
`StartFastImport(r)` is a whole call: touch, with the closing of victims, and start or
qFatal. `used` is history.

### Incremental

One action, `SetupIncremental`, is one pass of the loop's body for one repository: the
reading of its log with cutoff and valid marks, the truncation and the `.old` file, the
restoreLog, and the decision to start over. `Decide` is what follows the loop, `Start` the
beginning of a run. A run that failed may be followed by one with the same or other
arguments.

### SvnRepository and SvnExport

`SvnRepository` is Subversion as the converter sees it: a tree is a function from paths to
`Dir` or to a file's contents; a commit is a number of edits (add, change, delete, copy
from any revision), and its list of changed paths is folded the way `svn_fs_paths_changed2`
folds it: a path deleted and added again is one `replace`, a path added and deleted again is
none. Names have an order, that of the QMaps the converter puts them in; `Listed` is a set of
paths in that order.

`SvnExport` has the paths still to be looked at in `work`: `Publish` puts a revision's
changed paths there, in the order of their names; `Skip`, `Recurse`, `Fail`, `DeleteBranch`,
`CreateBranch` and `ChangeFiles` each take the first one, as exportEntry, exportDispatch,
exportInternal and recurse do; `Commit` is SvnRevision::commit. A rule is a sequence of
names with `"*"` for `([^/]+)`, ending in a slash. A transaction keeps deleted paths and
modified files, and is applied deletions first.

### RuleLines and RulesFiles

A file is a sequence of lines, and a line a keyword with an argument: a name, a number, a
pattern, a text with a variable (`Variable`), a name or text with a back-reference
(`BackReference`), `NoArg` for one that is missing or malformed to both readers, a member of
`Loose` for one only the validator takes (`declare X=`, a name of several words). What a
back-reference becomes when a pattern matches a path is the operator `Expand`; `VariableIn` and
`Filled` say which variable stands in a text, of which there is one at most, and what the text
is with its value. `Unslashed` is a prefix without the `/` it begins with, which only the
converter takes off.
`stack` holds the files that are open, each with the line it is at and the block that is open;
the code has a local variable for each in a recursive function. The `Validator...` actions are
the branches of parseFile, `Analyze` is what validate does after it; the `Converter...` actions
are those of Rules::load. qFatal ends the program: `Abort("fatal")`. `MaxOpen` stands for the
files a process can have open, the one limit to the converter's recursion.

### RevisionMap and RevisionMapper

A commit name is a pair of its first digits and the rest, so that abbreviations can be
ambiguous. `byRevision`, `byGitSha`, `skipped` and the two sets of duplicates are the fields of
the class. generateMappingDatabase is one action for each statement: the tables are made each
in a transaction of its own, the rows in one; `work` is the database as the connection sees it,
`disk` as anybody else does. `calls` is history, `told` the artifacts that were reported as
generated since the last call.

### ValidateApp, AuthorsFile, ContentCheck

`world` is what does not change during the runs: Subversion, git and the configuration files.
`request` is the command line; `Start` begins a run with any, `pc` is the phase that comes
next and the actions are the phases, in the order of main, with those skipped that were not
asked for (`Wants`). `down` in an action is the set of calls that fail in this phase. verify
goes through its mappings one action at a time. `file` says of each artifact whether it is
absent, from an earlier run, or from this one and whole or partial. A listing that failed
while another worked sets `overlooked`, a history variable. That a command answers in another
language is the revision number 0.

## 3. The runs

All runs say `CHECK_DEADLOCK FALSE`: the systems stop, at the end of a conversion or at a
bound.

| run | states | what it shows |
|---|---|---|
| `repository` | 2.3 million | without crashes, over several runs and with evictions anywhere: `NeverFatal`, `ExportExact`, `PointsExact`, `DeletedHistoryKept`, `TagsExact`, and the refinement `ImplementsBranchHistory` |
| `repository_crash` | 2.9 million | with two crashes of either kind at any step: `LogMonotonic`, `NoCommitTwice`, `OutstandingExact`, `ResumeExact` |
| `process_cache` | 2,800 | the process limit, the exactness and the order of the cache, no false alarm |
| `incremental` | 490 thousand | every log up to two lines, every length of marks file, three repositories, two runs: nothing is lost or kept wrongly, a failed run fails again, the loop makes progress and ends |
| `svn_export` | 690 thousand | every three edits in one or two revisions after three imports, with and without `--svn-branches`: `TreeExact`, `PointsExact`, `FailureExplained`, `AsksProperly`, `OthersUntouched` |
| `rules_files` | 1.1 million | every pair of rules files of three or four blocks in the first and one in each of the others: `AcceptedLoads`, `SameResolution`, and that both readers end (`Ends`) |
| `revision_mapper` | 209 thousand | three calls and two failures or kills anywhere: `OneToOneExact`, `LookupsExact`, `ArtifactsWhole` |
| `validate_app` | 570 thousand | two runs with two failing calls each, in worlds that differ from a sound one in one respect: `VerdictExact`, `RecordsAgree`, `OnlySoundPushed` |

The other runs (`partial_revision`, `unnoticed_crash`, `include_in_block`,
`partial_layout`) each end in a counterexample to something the repository says of itself.
Eight more configurations, not among the runs, end in one as well. Section 6 has all of them.

Bounds, and why they are enough to be of interest:

* `repository`: two branches, one of them named in the repository's block of the rules and
  under `refs/tags/` with `annotated true`; four
  revisions with four operations, at most two in one; the commit interval is 2, so that
  checkpoints fall between transactions of one revision; one eviction, in any phase; three
  ends of a run. Four operations suffice to create, commit, delete and create a branch
  again, or to copy, commit to the copy, and copy back. The third
  run shows the one way fast-import can refuse a command without a crash, the tag that comes
  back (section 6): `NeverFatal` states it as its exception.
* `repository_crash`: three revisions and two crashes: a crash, a resumed run that crashes
  again, and a third run. An eviction between the commits of one revision is left out
  (`EvictPhases`), because `NoCommitTwice` fails with it; `evicted_within_revision.cfg` has it.
* `copy_before_source.cfg` is `repository.cfg` with copies from before the first commit of their source
  (`EmptySources`), which `repository` leaves out because `ExportExact` fails with them.
  `replaced_parent.cfg` is `svn_export.cfg` with another property.
* `svn_export`: seventeen paths: trunk with a directory and an ignored one, one branch with a
  directory, one tag, a file no rule matches, and a library that is forwarded under a prefix
  into another branch.
  Three edits make every pair of edits in one revision followed by one in the next, and every
  three in one revision.
* `incremental`: with two lines a log may have a line with a known and one with an unknown
  mark, in the same or in different revisions; three repositories make a first one that is
  asked again after the second and the third have each lowered the cutoff.
* `process_cache`: five repositories for three places.
* `rules_files`: a main file, one it includes, one that one includes, and one below that,
  which `kMaxIncludeDepth = 3` no longer admits (16 in the code); includes of the file itself,
  of the one above, of a missing one. The blocks have every line either parser knows, two
  patterns of which one matches more, bounds on revisions that `HEAD` is within or past, one of
  them empty, a variable, and a rule whose repository and branch are back-references.
  The blocks of `AgreedContents` leave out what section 6 lists as understood differently, and
  TLC evaluates that they are `AllPlain` and `AllSettled`, so that `AcceptedLoads` and
  `SameResolution` say something of them. The run has besides them files with a rule that ends
  after `HEAD`, of which `SameResolution` speaks too, and some that are not plain. In these one
  block of the kind in question (a variable beside a back-reference, a name of several words, a
  prefix with a `/`) stands before or behind each block of the main file. `include_in_block` has
  the files of `AnyContents`, with includes within blocks.
* `revision_mapper`: two names with the same first digits and a third, three revisions with a
  hole to skip, a malformed revision and a malformed name; calls are repeated, so that every
  kind of duplicate occurs.
* `validate_app`: worlds are sound but for the authors and their file, the rules and the
  layout, the content of trunk, the commits and their metadata, the state of the git repository,
  or Subversion or git not working at all. Three files with sample limits 0 and 2 make the
  sampled ones differ from the first two. Each world is tried with the command lines that look
  at the respect in which it differs, two phases in one run where one may hide the other. One
  world has metadata in one of its two commits. Two
  runs show what the second finds of the first; two failing calls, one hiding behind another.

**Fairness.** `Incremental` assumes `WF_vars(SetupIncremental \/ Decide)`, `RulesFiles`
`WF_vars(Next)`: the loop of `main` and the two parsers read and write local files and wait
for nothing and nobody. No other module has a liveness property: what the others wait for are
processes and networks that may hang.

Every property of a passing run has a mutant, a plausible bug in a definition that models
code (`Mutant:` in the modules), under which the run finds the property violated.

## 4. The proofs

The theorems hold for all values of the constants that satisfy the modules' assumptions.

* `RepositoryProofs`: `TypeCorrect`, `LogInOrder` (`LogMonotonic`), `CountExact`
  (`OutstandingExact`) and `AssertedOnlyAfterFailure`. The inductive invariant `IInv` has
  five parts. `LogMonotonic` alone is not inductive: the next line written must not be from
  an earlier revision than the last, so `LogOK` says that all lines of the log are from the
  present revision or before, `QueuesOK` that whatever is queued belongs to the present
  revision, and on a restart `StartExport` needs that the revision it resumes with is not
  before what it keeps, which follows from the order of the log itself. `TransactionsOK`
  says when transactions may be open, that they are finite in number, counted, and of
  different branches, and that all file marks are free when there is none.
  `CommittedOnce` (`NoCommitTwice`) is about crashes of either kind at any step. `OnceInv` follows every history there is, in the process, on disk, under a mark:
  `OneLine` says that each rises in its revisions and has a line of the log for each commit,
  `FutureOK` that nothing of the revision being exported is in any of them before it is
  committed, and `MarksKept` that a line of the log whose mark an interrupt lost is later than
  everything the disk kept. That last part is what makes the cut of the log on a resume safe.
  The hypothesis that `"commit"` is not among `EvictPhases` is that of the run; without it
  the code commits twice (section 6).
* `RepositoryExportProofs` is about an export that nothing disturbs: `NeverDies`
  (`NeverFatal`), `TipsExact` (`ExportExact`), `CopiesStartRight` (`PointsExact`),
  `DeletedIsKept` (`DeletedHistoryKept`), `TagsInPlace` (`TagsExact`), and the refinement
  `ExportsBranchHistory` (`ImplementsBranchHistory`). `Undisturbed` is its hypothesis and the
  setting of the run `repository`: no crashes, no branch whose name is a directory of
  another's, one Subversion path for each branch, no copies of branches without commits;
  evictions in every phase, any number of runs, any branches, tags and bounds are admitted.
  Each restriction is a behaviour of section 6 or a finding. `ExportInv` says what memory, log,
  marks, process and disk each hold, in terms of the histories Subversion calls for: what a
  mark stands for (`Marks`), what every branch has been through (`Heads`, `Dates`, `Points`),
  what a restart will read back (`Logged`), how far the revision is (`Progress`), what git has
  (`Held`), what the queues will do (`Queued`), and the tags and backups (`Tagged`, `Kept`).
  None of the five theorems is inductive alone: a tip is right because the mark a reset names
  is, which is right after a restart because the log names it.
  For the refinement, `Wanted` says that the operations of the revision at hand are ones the
  abstract export may take and `tips[rev]` what it makes of them; `Shown` that what one sees
  of git during a revision is the state before it. Then `EndRevision` is the abstract step and
  every other step a stutter. (The budget of operations, `MaxTotalOps`, is a guard of
  `BeginRevision` and not part of `Revisions`: the abstract export has no budget.)
* `ProcessCacheProofs`: `TypeCorrect`, `CacheCorrect` (`CacheIsExact`), `NoFalseAlarm`
  (`AbortsOnlyAfterCrash`), `LimitHolds` (`ProcessLimit`), `LeastRecentlyUsed`
  (`LeastRecentlyUsedGoes`). The strengthening is `GoneMeansCrashed`: a repository in the cache
  whose process is not running has crashed. The limit follows from the exactness of the cache
  by counting. `UsedInOrder` says that the list of the cache is in the order of use and that
  what was closed to make room lies before all of it, which the eviction of the first keeps.
* `IncrementalProofs`: `TypeCorrect`, `NothingIsLost` (`NothingLost`), `KeptIsThePast`
  (`KeptIsPast`), `ProgressOfTheLoop` (`CutoffDecreases`), `FailureRepeats` (`FailsAgain`).
  `DroppedOK` says that a line cut off is at or behind the cutoff, `PastOK` that what the
  repositories asked so far have kept is before `min_rev`, except where the cut is within the
  revision, and `CutoffOK` relates the two: no repository asked so far resumes behind the
  cutoff. `FailsAgain` needs the reason of a failure: `ReasonKept` says that a cutoff before
  the revision asked for comes from a repository that is `Interrupted`, one whose log has a
  line from before that revision whose commit was never written; each such repository brings
  the cutoff about again, and no cut or restored log removes the last of them.
* `RevisionMapperProofs`: `TypeCorrect`, `VerdictExact` (`OneToOneExact`), `LookupsAreExact`
  (`LookupsExact`), `ArtifactsAreWhole` (`ArtifactsWhole`). `MutuallyInverse` says that the two
  indexes of the mapper are inverses of each other, which makes the look-ups right; `Faithful`
  relates the mapper to the calls that made it, since validateOneToOneMapping sees only the
  mapper; `Writing` says what is in the database at each statement: an old one that could not
  be removed stops at its first table, and rows enter `disk` only with the commit, when none
  is left. RecordMappingLemma states what recordMapping does to all this, once.
* `ValidateAppProofs`: `PushIsSound` (`OnlySoundPushed`), `RecordsAreRight` (`RecordsAgree`),
  `TypeCorrect` (`TypeOK`), `VerdictIsExact` (`VerdictExact`).
  `Guarded` says that the two push phases are only reached behind a clean check and a given
  `--git-repo`, and that of the tags when the remote has all branches. That no other phase
  leads into the middle of a push rests on what `After` can return, which is the least of a
  set of numbers. For the records, `Recording` says of every phase that a failure so far was
  reported, is one of a call, or has one of the causes that are only logged, and that no record
  of this run is on disk before its phase; with `--validate-authors-only` the last cause
  cannot be, because the phases that have it are not asked for. For the verdict, `JudgedInv`
  gives every phase two formulas about the world: `Met`, what it has made sure of if it
  succeeded, and `Possible`, what must be so for it to succeed if no call fails. A run that
  has succeeded so far has `Met` of all phases before the one that comes next that it was asked
  for (`Passed`); one that has failed without a failing call was asked for a phase that is not
  `Possible` (`Blamed`); `Comparing` says the same in the middle of verify, of the refs already
  compared. PhasePassed and PhaseContinues carry this over a step, so that what is left to
  prove of each phase is that its check is equivalent to its formula. This takes lemmas about
  the operators: that `ValidateCoverage` accepts exactly the authors files that cover the
  authors (AuthorsJudged), that resolveTarget leaves exactly the paths unmapped that no rule
  matches (TargetIsFound), that the indexes of a sample are within the tree and all different
  (SampleSpread), so that as many files are hashed as were asked for (SampleSize), and that
  the map of a history leads from each commit to the number it is recorded with, if no other
  commit has it (RecordedIsComplete). `VerdictExact` makes no claim about the map of commits
  only some of which carry metadata (`PartlyEmbedded`): there the run ends with 0 and a map
  that is not right (section 6).
* `RulesFilesProofs`: `RulesFilesTypes` (`TypeOK`), `AcceptedRulesLoad` (`AcceptedLoads`),
  `AcceptedRulesResolve` (`SameResolution`). The converter begins when the validator is done, so
  that no invariant can compare the two at one moment. The proof goes by traces: a configuration
  is the stack, the rules and the repositories of the validator, `Approves` is a step of it that
  leaves no error, and `ValidatorInv` says that what it has read without an error it has reached
  by such steps. An accepted set of files therefore has a trace from the first line to the end.
  `LoadInv` says that the converter is somewhere on it, with the same files open at the same
  lines and with rules and repositories that agree in what both keep (`LoadFollows`); LineFollows
  and ReturnFollows take it one step further, which also shows that it stops at no line and
  opens no more files than the validator did. What it stops at, a pattern that does not compile
  or a variable nobody declared in place of a repository, the validator finds only at the end,
  in Analyze (a rule whose repository has a back-reference Analyze lets pass; the converter
  stops at none that is plain). Since nothing
  takes such a rule back (BadStays), it would be there at the end of the trace, and the rules
  would have been rejected (NeverBad): an induction backwards along the trace. For
  `SameResolution`, `SettleInv` says besides that a rule of either program is in force by HEAD
  unless it has ended, and has its action from its repository; then findMatchRule and
  resolveTarget are two searches for the least index of a set, that of the second is the part of
  the first without an end, and if it is empty the second finds a rule that has ended (Searches,
  SameSearch). The theorems have no
  hypothesis about the files; the properties speak of those that are `AllPlain`, that is, have
  nothing in them that section 6 lists as seen by one parser only: no argument that only the
  validator takes, no variable but for the repository of a rule and none beside a
  back-reference, no prefix with a leading `/`, no line of a repository block the converter does
  not know there. `SameResolution` also wants them `AllSettled`: every rule is in force by HEAD,
  names a branch if it names a repository, and ignores what it matches if it does not; and it
  excepts paths for which the converter goes by a rule that will end. Since neither program
  changes the files, the invariants are inductive under these conditions (`IfPlain`,
  `IfSettled`). Section 6 shows for most of them that the code breaks the statement without.
  Files, includes, depth, patterns and what a back-reference expands to are otherwise any.
* `SvnExportProofs`: `SvnExportTypes` (`TypeOK`), `SvnExportAsksProperly` (`AsksProperly`),
  `SvnExportLeavesOthers` (`OthersUntouched`), for any paths, contents, edits and rules. The
  invariant begins with Subversion: in every tree what exists lies in directories (`TreesOK`),
  and a path listed as deleted is gone while whatever is listed otherwise is there
  (`ChangesOK`), which each edit keeps, the fold of a deletion and an addition into one
  `replace` included. From this the walk begins: `ItemOK` says of each path still to be looked
  at where it comes from and in which tree it is found, and `Apart` that of two deletions
  neither is below the other, which recurse keeps because it replaces a directory by its
  entries. What has been queued is tied to the directory of its branch: `DeletedOK` says that
  the directory of a deleted branch is gone and that no deletion to come is at, below or above
  it, `ResetOK` that the one of a branch that is reset is there, and `TransactionsOK` that one
  with a transaction is there or that no deletion to come is of all of it; each is the directory of a
  rule that exports and lies at, below or above something the revision changed. `AsksProperly`
  alone is not inductive: that a branch about to be deleted has no transaction yet follows only
  from where its directory is. Its theorem has the hypothesis `OneDirectory`, that no two
  directories are of one branch; what two of them may lead to is a hazard `PROJECT.json` lists
  (`svn.cpp:518`). It is a property of the rules and the paths, which TLC evaluates for those of the run
  (`OneDirectoryAssumption` of `MCSvnExport`). The lemmas about operators state what findMatchRule
  returns (FindMatchRule is the rule with the least index that matches) and which branch a rule
  names.

The lemmas `Least`, `Greatest` and `UpTo` stand in each module that needs them: a non-empty
bounded set of integers has a least and a greatest element, which the `CHOOSE` of markFrom, of
`Kept` in `Incremental`, of `Upcoming`, of `FirstMatch` and of FirstOf need; and what holds of 0 and passes on
from each number to the next holds up to n. That is the induction by which NeverBad goes along a
trace, by which MapsOnTheWay unfolds the recursive function of `Recorded`, and by which
`SvnExportProofs` unfolds `Listed`, `AfterQueues` and `AfterTransactions`: what is
unfolded is a set, so that no induction theorem with an operator for a parameter is needed.

The assumptions on constants are those the modules name. Two are more than a bound: the marker
`Null` is no history (`NullIsNoHistory`, a hypothesis of the theorems that need it), and the
worlds of `ValidateApp` are what `ValidateAppAssumption` says of them: finitely many authors
and files, each directory's files in an order, commits no two of which have the same name.
`RulesFilesAssumption` says of the files of `RulesFiles` that their lines are of the kinds the
module knows (`TypedLine`), and that the markers for what is missing are neither names nor actions.

Only model-checked:

* `Terminates`, `Ends`: liveness and `ENABLED` are out of the prover's reach.
* `ResumeExact` of `Repository`: its hypothesis counts lines of the log of every revision, and
  an invariant would have to say after every crash which of them are made good by the ones
  that remain. With crashes most of `ExportInv` does not hold.
* `TreeExact`, `PointsExact` and `FailureExplained` of `SvnExport`: they relate whole trees to
  whole branches. `TreeExact` is a fact about rules of a certain form, and an invariant in the middle of a revision would have to
  say of every file which path still to be looked at will bring it; the other two rest on it.

## 5. What is not modelled

* In `Repository`: notes (`--add-metadata-notes`), message filters, `--dry-run`,
  `--create-dump`, the limit of sixteen merge parents, cvs2svn tags, the timeout of
  closeFastImport, a log or a marks file cut within a line. Revisions that ask nothing of a
  repository leave nothing behind and are not counted. Annotated tags that were collected
  before a crash are lost, since the file is written at the end of a run only: `TagsExact` is
  checked without crashes. Branch names under `refs/tags/` are the only ones annotated.
  With forwarding repositories two transactions may be open for one branch;
  `Repository` has one for each.
* In `SvnExport`: `--empty-dirs`, `--svn-ignore`, `--propcheck`, minimal and maximal
  revisions of rules (`RuleLines` has them), several rules files, rules that match files, directories below a branch
  that belong to another repository, branch substitutions. recursiveDumpDir asks
  the rules about directories only, so that a file an ignore rule matches is dumped when its
  directory is copied; rules of this kind are not among those of the run. A prefix of a
  repository that forwards nowhere is not used by the code (`repository.cpp:334` takes
  `forwardTo` for it), and the model does as the code does.
* In `RulesFiles`: the text of a line and the expressions that take it apart (two blanks
  within `create repository`, which the validator takes for one, are among what this leaves
  out), regular expressions (a pattern compiles or not and matches given paths, and what a
  back-reference stands for is an operator), a second variable in one text, what a substitution does,
  defaults of variables (`${X|...}`), the interactive rule debugger, the comma-separated list
  of files only the converter takes.
* In `ValidateApp`: everything that is only shown (counts, sizes, samples of the dry run, the
  text of events and messages), the syntax of the YAML file, commands that never return. The
  world does not change during a run: a commit to Subversion between two calls is not modelled.
  `generatePostMigrationReport`, `validateAgainstExpected` and `signAuditLog` are called by
  tests only.
* The parsers of options, of the identity map and of the revisions file.

## 6. Disagreements found

Four are runs that end in a counterexample, and findings in `PROJECT.json`:

* `partial_revision`: the converter is killed between two commits of one revision; the next
  run resumes behind that revision.
* `unnoticed_crash`: a process that has ended on its own and is then closed to make room is
  replaced without a word.
* `include_in_block`: the converter follows an include inside any block, the validator only
  outside of them; it accepts rules other than those that are loaded.
* `partial_layout`: one of the three listings of Subversion fails; rules that do not cover
  what it would have listed are found complete.

Eight more have a configuration here that ends in a counterexample in the same way (`tlc -config
X.cfg M`), each to what the comment above its property says:

| cfg, module | invariant | what |
|---|---|---|
| `evicted_within_revision`, `MCRepository` | `NoCommitTwice` | A process is closed between two commits of one revision and the converter is interrupted after that; the log is cut within the revision, which is then exported once more, its first commit on top of itself (`repository.cpp:536`). |
| `copy_before_source`, `MCRepository` | `EmptyCopyIsEmpty` | A copy from before the first commit of its source is made by the name of the source, and gets the commits the source has when the command is read instead of none (`repository.cpp:687`). In the trace the source is itself made by a copy in the same revision. |
| `replaced_parent`, `MCSvnExport` | `GoneIsGone` | A directory above branches is deleted and made again in one revision; the branches below it stay in git (`svn.cpp:709, 1128`). |
| `undeclared_variable`, `MCRulesFiles` | `AcceptedIsLoaded` | The validator does not look up a repository with a back-reference, and so not the variable beside it either, at which the converter gives up (`rules_validator.cpp:266`). |
| `several_words`, `MCRulesFiles` | `AcceptedIsLoaded` | `create repository foo bar` is valid to one parser and the end of the other (`rules_validator.cpp:131`). |
| `unreached_maximum`, `MCRulesFiles` | `ResolvesLikeConverter` | resolveTarget passes over a rule with a `max revision` even if HEAD has not reached it, by which the converter still goes (`rules_validator.cpp:406`). |
| `slashed_prefix`, `MCRulesFiles` | `ResolvesLikeConverter` | Only the converter takes the leading `/` off a prefix, so that the content check looks for files below another one (`rules_validator.cpp:432`). |
| `partial_metadata`, `MCValidateApp` | `RealRevisionsKept` | Some commits carry their Subversion revision and some do not: all are mapped to their positions; an error is reported, yet the run ends with 0. By the comment on generateTraceability this happens only when no commit carries one (`svn_to_git_app.cpp:350-352, 406`). |

Two more can be seen with `repository.cfg` and another invariant:

| what | invariant |
|---|---|
| The backup of a branch that is started anew is taken from its ref when the reset is written, after all deletions and earlier resets of the revision: commits are lost (`repository.cpp:728, 757-758`). | `HistoryKept` |
| The last annotated tag, once deleted, comes back from the file in the next run (`repository.cpp:840`). | `TagsHaveBranches` |

`TreeExact` of `svn_export` leaves out revisions after which the code is known not to follow
Subversion (`flawed`): the last of these, copies of branches without files (createBranch
fails, or takes what the source has now), and whole-branch copies between a repository with a
prefix and one without, where createBranch takes the tree as it is.

The two parsers of rules differ in more than these configurations show. The modules have both
sides of each of the following; `AcceptedLoads` and `SameResolution` name what they leave out:

* `annotated` and `substitute` are refused by the validator, though the README documents them.
  Inside a repository block the validator takes any line, the converter its own keywords only
  (and `forwardTo` not with `description` or `branches`).
* The validator keeps no `action`: a rule without a repository is "ignored" to it, even if it
  says `recurse`.
* Only the converter puts in the values of variables, and gives up on those without a declaration;
  it has no branch where the validator says `master`.
* The files visited are never taken off the validator's list, so that a file included twice by
  two others is reported as circular; the converter has no guard against cycles at all.
* resolveTarget does not look at `min revision`.

Of the validator, with no run of their own:

* The README says that every run writes an `audit.log` and, on failure, an `error_report.txt`.
  A wrong command line, `--debug-rules` and a missing `--git-repo` write none; and the causes
  `RecordsAgree` lists are only logged. An error report may also stand beside exit code 0 (a
  count of commits failed).
* An earlier failure of the same run does not keep the push from being made: only
  `git fsck` does.
* generateTraceability never asks validateOneToOneMapping. When a revision has two commits (it
  was exported to two branches), the second is dropped from the map and the run succeeds, while
  the header promises that "no commit is lost or duplicated" (`revision_mapper.h:7-8`).
  `MapComplete` says so: only commits alone in their revision must be found. What it asks of
  commits only some of which carry metadata the code does not keep (`partial_metadata.cfg`), and
  `VerdictExact` leaves them out.
* "first entry wins, matching classic svn2git behavior" (`author_validator.cpp:171`): in
  `main.cpp:71` the last one wins.
* Placeholders of `--auto-map-authors` are not valid addresses to `--validate-authors-only`.
* Rules that ignore everything leave nothing to verify, and the content check passes; files
  that are in git and not in Subversion are not looked for.

## 7. Plan

In this order:

1. `ResumeExact`, at least for crashes that leave fast-import to read to its end.
2. `SvnExport` with several rules files, and with rules for some revisions only; refs on disk
   after an interrupt that lost deletions.
