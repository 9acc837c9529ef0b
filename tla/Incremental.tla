---------------------------- MODULE Incremental ----------------------------
(***************************************************************************)
(* How a run of the converter finds out where to resume when there are     *)
(* several repositories: the `retry:` loop of src/src/main.cpp with        *)
(* setupIncremental and restoreLog of src/src/repository.cpp.  The loop    *)
(* asks one repository after the other, each may cut its log and lower the *)
(* cutoff for all, and then those asked before may have to be asked again. *)
(*                                                                         *)
(* A line of a log is a revision and a commit mark (0 for a deletion or a  *)
(* copy).  A mark above valid[r] is not in the marks file of r: the        *)
(* conversion was interrupted before fast-import had written it.           *)
(***************************************************************************)
EXTENDS Integers, Sequences, SequencesExt

CONSTANTS
    NRepo,       \* how many repositories the rules define, in their order
    MaxRev,      \* bound: revisions
    INT_MAX,     \* the cutoff when there is none
    ResumeFroms, \* the values of --resume-from; 0 when it is not given
    Log,         \* bound: the logs earlier runs may have left
    MaxMark,     \* bound: commit marks
    MaxRuns      \* bound: runs of the converter

ASSUME IncrementalAssumption ==
    /\ NRepo \in Nat /\ MaxRev \in Nat /\ MaxMark \in Nat /\ MaxRuns \in Nat
    /\ INT_MAX \in Nat /\ MaxRev + 1 < INT_MAX
    /\ ResumeFroms \subseteq 0 .. MaxRev
    /\ Log \subseteq Seq([rev : 1 .. MaxRev, mark : 0 .. MaxMark])
    /\ \A lines \in Log : \A i, j \in DOMAIN lines : i < j => lines[i].rev <= lines[j].rev

Repo == 1 .. NRepo

VARIABLES
    log,          \* log[r]: the lines of log-<r>
    old,          \* old[r]: log-<r>.old, <<FALSE, <<>>>> when there is none
    valid,        \* valid[r]: what lastValidMark finds
    status,       \* "off", "loop", "export" or "failed"
    next,         \* the repository the loop is about to ask
    cutoff, min_rev, resume_from,
    runs,         \* how many runs were started
    before,       \* the logs as this run found them (for properties only)
    again         \* the run before failed, with the same arguments (for properties only)

vars == <<log, old, valid, status, next, cutoff, min_rev, resume_from, runs, before, again>>

None == <<FALSE, <<>>>>
File(lines) == <<TRUE, lines>>

-----------------------------------------------------------------------------
(* setupIncremental of one repository *)

\* Mutant: only unknown marks stop the reading.
StopsAtUnknown(line, limit, known) == line.mark > known

\* A line that is not kept: beyond the cutoff, or with a mark that was not written.
Stops(line, limit, known) == line.rev >= limit \/ line.mark > known

\* How many lines are kept: those before the first that is not.
Kept(lines, limit, known) ==
    CHOOSE n \in 0 .. Len(lines) :
        /\ \A i \in 1 .. n : ~ Stops(lines[i], limit, known)
        /\ n < Len(lines) => Stops(lines[n + 1], limit, known)

\* Mutant: the revision before the one that was interrupted.
CutoffBefore(lines, n, limit) ==
    IF n < Len(lines) /\ lines[n + 1].rev < limit THEN lines[n + 1].rev - 1 ELSE limit

\* The cutoff setupIncremental leaves in its argument.
Cutoff(lines, n, limit) ==
    IF n < Len(lines) /\ lines[n + 1].rev < limit THEN lines[n + 1].rev ELSE limit

\* Mutant: a log that was cut resumes behind the revision it was cut at.
RepoNextLate(lines, n, limit) ==
    IF n < Len(lines) THEN Cutoff(lines, n, limit) + 1
    ELSE IF n = 0 THEN 1 ELSE lines[n].rev + 1

\* What it returns.
RepoNext(lines, n, limit) ==
    IF n < Len(lines) THEN Cutoff(lines, n, limit)
    ELSE IF n = 0 THEN 1 ELSE lines[n].rev + 1

\* The backup it leaves.
Backup(r, n) ==
    IF n < Len(log[r]) THEN File(log[r])
    ELSE IF RepoNext(log[r], n, cutoff) = cutoff THEN None
    ELSE old[r]

-----------------------------------------------------------------------------
(* The loop *)

Init ==
    /\ log \in [Repo -> Log]
    /\ old = [r \in Repo |-> None]
    /\ valid \in [Repo -> 0 .. MaxMark]
    /\ \A r \in Repo : \A m \in 1 .. valid[r] : \E i \in DOMAIN log[r] : log[r][i].mark = m
    /\ status = "off"
    /\ next = 1
    /\ cutoff = INT_MAX
    /\ min_rev = 1
    /\ resume_from = 0
    /\ runs = 0
    /\ before = log
    /\ again = FALSE

\* A run begins; only a run that failed is followed by another one here.
Start(from) ==
    /\ status \in {"off", "failed"}
    /\ runs < MaxRuns
    /\ runs' = runs + 1
    /\ resume_from' = from
    /\ cutoff' = IF from # 0 THEN from ELSE INT_MAX
    /\ min_rev' = 1
    /\ next' = 1
    /\ status' = "loop"
    /\ before' = log
    /\ again' = (status = "failed" /\ from = resume_from)
    /\ UNCHANGED <<log, old, valid>>

\* Mutant: the log is never put back.
NeverRestores(limit, repo_next) == FALSE

\* The run is going to fail: the log goes back to what it was.
Restores(limit, repo_next) == limit < resume_from /\ repo_next = limit

\* Mutant: `cutoff <= min_rev`.
StartsOverTooOften(limit) == limit <= min_rev

\* Another repository that was asked before keeps lines from beyond the cutoff.
StartsOver(limit) == limit < min_rev

SetupIncremental ==
    /\ status = "loop"
    /\ next \in Repo
    /\ LET n         == Kept(log[next], cutoff, valid[next])
           limit     == Cutoff(log[next], n, cutoff)
           repo_next == RepoNext(log[next], n, cutoff)
           backup    == Backup(next, n)
           restored  == Restores(limit, repo_next)
       IN  /\ log' = [log EXCEPT ![next] = IF restored /\ backup # None THEN backup[2]
                                           ELSE SubSeq(@, 1, n)]
           /\ old' = [old EXCEPT ![next] = IF restored THEN None ELSE backup]
           /\ cutoff' = limit
           /\ IF StartsOver(limit)
              THEN next' = 1 /\ min_rev' = 1
              ELSE /\ next' = next + 1
                   /\ min_rev' = IF min_rev < repo_next THEN repo_next ELSE min_rev
    /\ UNCHANGED <<valid, status, resume_from, runs, before, again>>

\* All were asked: the run fails, or exports from min_rev on.
Decide ==
    /\ status = "loop"
    /\ next = NRepo + 1
    /\ status' = IF cutoff < resume_from THEN "failed" ELSE "export"
    /\ min_rev' = IF cutoff >= resume_from /\ resume_from # 0 THEN resume_from ELSE min_rev
    /\ UNCHANGED <<log, old, valid, next, cutoff, resume_from, runs, before, again>>

Next ==
    \/ \E from \in ResumeFroms : Start(from)
    \/ SetupIncremental
    \/ Decide

\* A run that has begun goes on: the loop waits for nothing.
Fairness == WF_vars(SetupIncremental \/ Decide)

Spec == Init /\ [][Next]_vars /\ Fairness

-----------------------------------------------------------------------------
(* Properties *)

TypeOK ==
    /\ log \in [Repo -> Seq([rev : 1 .. MaxRev, mark : 0 .. MaxMark])]
    /\ before \in [Repo -> Seq([rev : 1 .. MaxRev, mark : 0 .. MaxMark])]
    /\ valid \in [Repo -> 0 .. MaxMark]
    /\ status \in {"off", "loop", "export", "failed"}
    /\ next \in 1 .. NRepo + 1
    /\ cutoff \in 1 .. INT_MAX
    /\ min_rev \in 1 .. MaxRev + 1
    /\ resume_from \in 0 .. MaxRev
    /\ again \in BOOLEAN

\* Whatever a repository drops from its log is exported again: the export starts no later
\* than the revision of any line this run has cut off, in any repository (min_rev).
NothingLost ==
    status = "export" =>
        \A r \in Repo : \A i \in DOMAIN before[r] :
            i > Len(log[r]) => min_rev <= before[r][i].rev

\* No repository is told of a revision it still has in its log, except the one that was
\* interrupted within it: all that is kept is from before the first revision exported.
KeptIsPast ==
    status = "export" =>
        \A r \in Repo : \A i \in DOMAIN log[r] :
            \/ log[r][i].rev < min_rev
            \/ /\ log[r][i].rev = min_rev
               /\ Len(log[r]) < Len(before[r])
               /\ before[r][Len(log[r]) + 1].rev = min_rev
               /\ before[r][Len(log[r]) + 1].mark > valid[r]

\* "Restore the log file so we fail the next time svn2git is invoked with the same
\* arguments": it does, whichever repositories were cut and put back in between.
FailsAgain == again => status # "export"

\* "since cutoff is decreasing, we're sure we'll make forward progress eventually": the
\* loop starts over only with a smaller cutoff.
CutoffDecreases ==
    [][status = "loop" /\ next \in Repo /\ next' = 1 => cutoff' < cutoff]_vars

\* And so the loop ends: the run fails or exports.
Terminates == status = "loop" ~> status \in {"export", "failed"}
=============================================================================
