-------------------------- MODULE ValidateAppProofs --------------------------
(***************************************************************************)
(* Proofs about svn2git-validate, for any worlds and command lines, any    *)
(* number of runs and any calls that fail: what reaches the remote, what   *)
(* the records of a run say, the types, and the verdict of the exit code.  *)
(* The lemmas in between are about the operators of ContentCheck,          *)
(* AuthorsFile, RevisionMap and RuleLines, each held against what the      *)
(* property says of the world.                                             *)
(***************************************************************************)
EXTENDS ValidateApp, WellFoundedInduction, FiniteSetTheorems, TLAPS

\* A set of natural numbers has a least element.
LEMMA Least ==
    ASSUME NEW S, S \subseteq Nat, S # {}
    PROVE  \E i \in S : \A j \in S : i <= j
<1>1. PICK i \in S : \A j \in S : ~ (<<j, i>> \in OpToRel(<, Nat))
  BY NatLessThanWellFounded, WFMin
<1>2. \A j \in S : ~ (j < i)
  BY <1>1 DEF OpToRel
<1>3. QED BY <1>2

\* What holds of 0 and passes on to the next number holds up to n.
LEMMA UpTo ==
    ASSUME NEW n \in Nat, NEW S, 0 \in S, \A k \in 0 .. n - 1 : k \in S => k + 1 \in S
    PROVE  n \in S
<1> DEFINE T == {k \in 0 .. n : k \notin S}
<1>1. T \subseteq Nat
  OBVIOUS
<1> SUFFICES ASSUME n \notin S PROVE FALSE
  OBVIOUS
<1>2. T # {}
  OBVIOUS
<1>3. PICK i \in T : \A j \in T : i <= j
  BY <1>1, <1>2, Least
<1>4. i \in 0 .. n /\ i \notin S /\ i # 0
  OBVIOUS
<1>5. i - 1 \in 0 .. n - 1 /\ ~ (i <= i - 1)
  BY <1>4
<1>6. i - 1 \in S
  BY <1>3, <1>5
<1>7. (i - 1) + 1 \in S /\ (i - 1) + 1 = i
  BY <1>4, <1>5, <1>6
<1>8. QED BY <1>4, <1>7

Pushing == {"push-all", "push-tags"}

\* The nine phases; none is in the middle of a push.
LEMMA PhasesType ==
    /\ Len(Phases) = 9 /\ DOMAIN Phases = 1 .. 9
    /\ Phases[9] = "outcome"
    /\ \A i \in 1 .. 9 : Phases[i] \notin Pushing
BY SMTT(30) DEF Phases, Pushing

\* What comes next is never the middle of a push.
LEMMA UpcomingIsAPhase ==
    ASSUME NEW r, NEW i \in 1 .. 9
    PROVE  Upcoming(r, i) \notin Pushing
<1> DEFINE S == {j \in i .. Len(Phases) : Wants(r, Phases[j])}
<1>1. S \subseteq 1 .. 9
  BY PhasesType
<1>2. 9 \in S
  BY PhasesType DEF Wants
<1> HIDE DEF S
<1>3. \E j \in S : \A k \in S : j <= k
  BY <1>1, <1>2, Least
<1>4. Min(S) \in S
  BY <1>3 DEF Min
<1>5. Upcoming(r, i) = Phases[Min(S)]
  BY DEF Upcoming, S
<1>6. QED BY <1>1, <1>4, <1>5, PhasesType

\* The phases main goes on from by themselves.
Continuing == {"auto-map", "authors", "dry-run", "svn-report", "coverage", "traceability",
               "verify"}

\* Nor is the phase after another.
LEMMA AfterIsAPhase ==
    ASSUME NEW phase \in Continuing
    PROVE  After(phase) \notin Pushing
<1> DEFINE i == CHOOSE j \in DOMAIN Phases : Phases[j] = phase
<1>1. \E j \in DOMAIN Phases : Phases[j] = phase
  <2>1. \E j \in 1 .. 9 : Phases[j] = phase
    BY SMTT(30) DEF Phases, Continuing
  <2>2. QED BY <2>1, PhasesType
<1>2. i \in 1 .. 9 /\ Phases[i] = phase
  BY <1>1, PhasesType
<1>3. i # 9
  BY <1>2, PhasesType DEF Continuing
<1>4. After(phase) = Upcoming(request, 1 + i)
  BY DEF After
<1> HIDE DEF i
<1>5. QED BY <1>2, <1>3, <1>4, UpcomingIsAPhase

-----------------------------------------------------------------------------
\* A push is made behind a clean check, and that of the tags behind that of all branches.
Guarded ==
    /\ remote \in [branches : Reached, tags : Reached]
    /\ pc \in Pushing => world.fsck = "clean" /\ request.gitRepo
    /\ pc = "push-tags" => remote.branches = "all"

\* The guard of the push holds before the first run.
LEMMA GuardedInit == Init => Guarded
BY DEF Init, Guarded, Reached, Pushing

\* What a step may do to the remote, and that it leaves the guard intact.
Careful ==
    /\ Guarded'
    /\ remote' # remote => world.fsck = "clean" /\ request.gitRepo
    /\ remote'.tags # remote.tags => remote.branches = "all"

\* A step that leaves the remote alone and does not lead into a push.
LEMMA AwayFromPush ==
    ASSUME Guarded, UNCHANGED remote, pc' \notin Pushing
    PROVE  Careful
BY DEF Guarded, Careful, Pushing

\* The phases before the push.
LEMMA BeforePush ==
    ASSUME Guarded,
           \/ AutoMap \/ ValidateAuthors \/ AuthorsOutcome \/ DryRun \/ SvnReport
           \/ Coverage \/ GenerateTraceability \/ LacksGitRepo
           \/ VerifyContent \/ VerifyRef \/ ContentReport
    PROVE  Careful
<1>1. UNCHANGED remote
  <2>1. CASE AutoMap  BY <2>1 DEF AutoMap
  <2>2. CASE ValidateAuthors  BY <2>2 DEF ValidateAuthors
  <2>3. CASE AuthorsOutcome  BY <2>3 DEF AuthorsOutcome, Exits
  <2>4. CASE DryRun  BY <2>4 DEF DryRun
  <2>5. CASE SvnReport  BY <2>5 DEF SvnReport
  <2>6. CASE Coverage  BY <2>6 DEF Coverage
  <2>7. CASE GenerateTraceability  BY <2>7 DEF GenerateTraceability
  <2>8. CASE LacksGitRepo  BY <2>8 DEF LacksGitRepo, Exits
  <2>9. CASE VerifyContent  BY <2>9 DEF VerifyContent
  <2>10. CASE VerifyRef  BY <2>10 DEF VerifyRef
  <2>11. CASE ContentReport  BY <2>11 DEF ContentReport
  <2>12. QED BY <2>1, <2>2, <2>3, <2>4, <2>5, <2>6, <2>7, <2>8, <2>9, <2>10, <2>11
<1>2. pc' \notin Pushing
  <2>1. CASE \E phase \in Continuing : pc' = After(phase)
    BY <2>1, AfterIsAPhase
  <2>2. CASE pc' \in {"done", "content", "authors-outcome"}
    BY <2>2 DEF Pushing
  <2>3. CASE VerifyRef
    <3>1. pc = "content" /\ pc' = pc
      BY <2>3 DEF VerifyRef
    <3>2. QED BY <3>1, <2>2
  <2>4. CASE AutoMap
    BY <2>1, <2>4 DEF AutoMap, Continue, Continuing
  <2>5. CASE ValidateAuthors
    BY <2>1, <2>2, <2>5 DEF ValidateAuthors, Continuing
  <2>6. CASE AuthorsOutcome \/ LacksGitRepo
    BY <2>2, <2>6 DEF AuthorsOutcome, LacksGitRepo, Exits
  <2>7. CASE DryRun
    BY <2>1, <2>7 DEF DryRun, Continue, Continuing
  <2>8. CASE SvnReport
    BY <2>1, <2>8 DEF SvnReport, Continue, Continuing
  <2>9. CASE Coverage
    BY <2>1, <2>9 DEF Coverage, Continue, Continuing
  <2>10. CASE GenerateTraceability
    BY <2>1, <2>10 DEF GenerateTraceability, Continue, Continuing
  <2>11. CASE VerifyContent
    <3>1. pc' = After("verify") \/ pc' \in {"done", "content"}
      BY <2>11 DEF VerifyContent
    <3>2. QED BY <3>1, <2>1, <2>2 DEF Continuing
  <2>12. CASE ContentReport
    BY <2>1, <2>12 DEF ContentReport, Continue, Continuing
  <2>13. QED
    BY <2>3, <2>4, <2>5, <2>6, <2>7, <2>8, <2>9, <2>10, <2>11, <2>12
<1>3. QED BY <1>1, <1>2, AwayFromPush

\* A new run leaves the remote as the last one left it.
LEMMA StartIsCareful == ASSUME Guarded, Start PROVE Careful
<1>1. UNCHANGED remote
  BY DEF Start
<1>2. pc' = Upcoming(request', 1) \/ pc' = "done"
  BY DEF Start
<1>3. Upcoming(request', 1) \notin Pushing
  BY UpcomingIsAPhase
<1>4. pc' \notin Pushing
  BY <1>2, <1>3 DEF Pushing
<1>5. QED BY <1>1, <1>4, AwayFromPush

\* The push and what comes behind it.
LEMMA PushIsCareful ==
    ASSUME Guarded, ValidateIntegrity \/ PushAll \/ PushTags \/ Outcome \/ Report
    PROVE  Careful
<1>1. CASE ValidateIntegrity
  <2>1. UNCHANGED <<remote, world, request>> /\ request.gitRepo
    BY <1>1 DEF ValidateIntegrity
  <2>2. pc' = "outcome" \/ (pc' = "push-all" /\ world.fsck = "clean")
    BY <1>1 DEF ValidateIntegrity, Intact
  <2>3. world' = world /\ request' = request /\ remote' = remote
    BY <2>1
  <2>4. QED BY <2>1, <2>2, <2>3 DEF Guarded, Careful, Pushing
<1>2. CASE PushAll
  <2>1. pc = "push-all" /\ UNCHANGED <<world, request>>
    BY <1>2 DEF PushAll
  <2>2. PICK down \in Faulty({"push"}) :
          /\ \E r \in Pushed(remote.branches, down) : remote' = [remote EXCEPT !.branches = r]
          /\ pc' = IF down = {} THEN "push-tags" ELSE "outcome"
    BY <1>2 DEF PushAll
  <2>3. PICK r \in Pushed(remote.branches, down) : remote' = [remote EXCEPT !.branches = r]
    BY <2>2
  <2>4. r \in Reached /\ (down = {} => r = "all")
    BY DEF Guarded, Pushed, Reached
  <2>5. QED BY <2>1, <2>2, <2>3, <2>4 DEF Guarded, Careful, Pushing
<1>3. CASE PushTags
  <2>1. pc = "push-tags" /\ pc' = "outcome"
    BY <1>3 DEF PushTags
  <2>2. PICK down : \E r \in Pushed(remote.tags, down) : remote' = [remote EXCEPT !.tags = r]
    BY <1>3 DEF PushTags
  <2>5. PICK r \in Pushed(remote.tags, down) : remote' = [remote EXCEPT !.tags = r]
    BY <2>2
  <2>3. r \in Reached
    BY DEF Guarded, Pushed, Reached
  <2>4. QED BY <2>1, <2>5, <2>3 DEF Guarded, Careful, Pushing
<1>4. CASE Outcome \/ Report
  <2>1. UNCHANGED remote /\ pc' \in {"report", "done"}
    BY <1>4 DEF Outcome, Report, Exits
  <2>2. QED BY <2>1, AwayFromPush DEF Pushing
<1>5. QED BY <1>1, <1>2, <1>3, <1>4

\* A step that keeps the guard pushes only what is sound.
LEMMA StepIsCareful == ASSUME Guarded, [Next]_vars PROVE Careful
<1>1. CASE Next
  BY <1>1, BeforePush, StartIsCareful, PushIsCareful DEF Next
<1>2. CASE UNCHANGED vars
  BY <1>2 DEF vars, Guarded, Careful
<1>3. QED BY <1>1, <1>2

\* Nothing of a repository git fsck complains of is pushed, and no tag before all branches,
\* whatever fails in however many runs (pushToGitLab behind validateRepositoryIntegrity).
THEOREM PushIsSound == Spec => OnlySoundPushed
<1>1. Guarded /\ [Next]_vars => Guarded'
  BY StepIsCareful DEF Careful
<1>2. Guarded /\ [Next]_vars =>
        [/\ remote' # remote => world.fsck = "clean" /\ request.gitRepo
         /\ remote'.tags # remote.tags => remote.branches = "all"]_vars
  BY StepIsCareful DEF Careful
<1>3. QED BY GuardedInit, <1>1, <1>2, PTL DEF Spec, OnlySoundPushed
-----------------------------------------------------------------------------
(* The records of a run *)

PhaseName == {"auto-map", "authors", "dry-run", "svn-report", "coverage", "traceability",
              "verify", "push", "outcome"}

\* The phases by number.
LEMMA PhasesAre ==
    /\ Phases[1] = "auto-map" /\ Phases[2] = "authors" /\ Phases[3] = "dry-run"
    /\ Phases[4] = "svn-report" /\ Phases[5] = "coverage" /\ Phases[6] = "traceability"
    /\ Phases[7] = "verify" /\ Phases[8] = "push" /\ Phases[9] = "outcome"
BY SMTT(30) DEF Phases

\* What may be said of the phase p that comes next from the i-th on.
ComesFrom(p, r, i) ==
    /\ p \in PhaseName
    /\ p \in {"dry-run", "svn-report"} => r.dryRun /\ i \in {3, 4}
    /\ p \in {"auto-map", "authors"} => i \in {1, 2}

\* A dry run is preceded by the check of the authors, which it asks for, too.
LEMMA UpcomingFacts ==
    ASSUME NEW r, NEW i \in 1 .. 9
    PROVE  ComesFrom(Upcoming(r, i), r, i)
<1> DEFINE S == {j \in i .. Len(Phases) : Wants(r, Phases[j])}
<1>1. S \subseteq i .. 9 /\ S \subseteq Nat
  BY PhasesType
<1>2. 9 \in S
  BY PhasesType DEF Wants
<1>3. i <= 2 /\ r.dryRun => 2 \in S
  BY PhasesType, PhasesAre DEF Wants
<1>4. \A j \in S : Wants(r, Phases[j])
  OBVIOUS
<1>5. Upcoming(r, i) = Phases[Min(S)]
  BY DEF Upcoming
<1> HIDE DEF S
<1>6. \E j \in S : \A k \in S : j <= k
  BY <1>1, <1>2, Least
<1>7. Min(S) \in S /\ \A k \in S : Min(S) <= k
  BY <1>6 DEF Min
<1> DEFINE m == Min(S)
<1>8. m \in i .. 9 /\ Wants(r, Phases[m]) /\ (i <= 2 /\ r.dryRun => m <= 2)
  BY <1>1, <1>3, <1>4, <1>7
<1> HIDE DEF m
<1>9. m \in {1, 2, 3, 4, 5, 6, 7, 8, 9}
  BY <1>8
<1>10. m \in {3, 4} => r.dryRun /\ i \in {3, 4}
  BY <1>8, <1>9, PhasesAre DEF Wants
<1>11. m \in {1, 2} => i \in {1, 2}
  BY <1>8
<1>12. Phases[m] \in PhaseName
  BY <1>9, PhasesAre DEF PhaseName
<1>13. Phases[m] \in {"dry-run", "svn-report"} => m \in {3, 4}
  BY <1>9, PhasesAre
<1>14. Phases[m] \in {"auto-map", "authors"} => m \in {1, 2}
  BY <1>9, PhasesAre
<1>15. QED BY <1>5, <1>10, <1>11, <1>12, <1>13, <1>14 DEF ComesFrom, m

\* What may come behind each phase.
LEMMA AfterFacts ==
    /\ ComesFrom(After("auto-map"), request, 2)
    /\ ComesFrom(After("authors"), request, 3)
    /\ ComesFrom(After("dry-run"), request, 4)
    /\ \A p \in {"svn-report", "coverage", "traceability", "verify"} :
         \E i \in 5 .. 8 : ComesFrom(After(p), request, i)
<1>1. ASSUME NEW i \in 1 .. 8, NEW p, Phases[i] = p
      PROVE  ComesFrom(After(p), request, i + 1)
  <2>1. \A j \in 1 .. 9 : Phases[j] = p => j = i
    <3>1. ASSUME NEW j \in 1 .. 9, Phases[j] = p PROVE j = i
      <4>1. /\ j \in {1, 2, 3, 4, 5, 6, 7, 8, 9} /\ i \in {1, 2, 3, 4, 5, 6, 7, 8}
            /\ Phases[j] = Phases[i]
        BY <1>1, <3>1
      <4>2. QED BY <4>1, PhasesAre
    <3>2. QED BY <3>1
  <2>2. (CHOOSE j \in DOMAIN Phases : Phases[j] = p) = i
    BY <1>1, <2>1, PhasesType
  <2>3. After(p) = Upcoming(request, 1 + i)
    BY <2>2 DEF After
  <2>4. QED BY <2>3, UpcomingFacts
<1>2. ComesFrom(After("auto-map"), request, 1 + 1)
  BY <1>1, PhasesAre
<1>3. ComesFrom(After("authors"), request, 2 + 1)
  BY <1>1, PhasesAre
<1>4. ComesFrom(After("dry-run"), request, 3 + 1)
  BY <1>1, PhasesAre
<1>5. ComesFrom(After("svn-report"), request, 4 + 1)
  BY <1>1, PhasesAre
<1>6. ComesFrom(After("coverage"), request, 5 + 1)
  BY <1>1, PhasesAre
<1>7. ComesFrom(After("traceability"), request, 6 + 1)
  BY <1>1, PhasesAre
<1>8. ComesFrom(After("verify"), request, 7 + 1)
  BY <1>1, PhasesAre
<1>9. QED BY <1>2, <1>3, <1>4, <1>5, <1>6, <1>7, <1>8

\* The causes of a failure that are only logged.
Excused ==
    /\ request.dryRun
    /\ \/ world.yaml = "bad" \/ world.revisions = 0
       \/ ~\E i \in DOMAIN world.authorsFile.lines : IsMapping(world.authorsFile.lines[i])

Unwritten == {"absent", "earlier"}

RecordsType ==
    /\ world \in World
    /\ success \in BOOLEAN /\ reported \in BOOLEAN /\ contentOk \in BOOLEAN
    /\ faults \in Nat
    /\ file \in [Artifact -> {"absent", "earlier", "partial", "whole"}]

\* Until a run comes to its records it has written none of them; a failure has been
\* reported, or a call has failed, or the cause is one that is only logged.  The last
\* cannot be said of the phases that --validate-authors-only ends with, and for the
\* report on Subversion it takes that the authors were asked for before.
Recording ==
    pc \notin {"idle", "done"} =>
      /\ file["error_report.txt"] \in Unwritten
      /\ pc # "report" => file["audit.log"] \in Unwritten
      /\ success \/ reported \/ faults > 0 \/ Excused
      /\ pc \in {"auto-map", "authors", "authors-outcome"} => success \/ reported
      /\ pc = "authors-outcome" => request.authorsOnly
      /\ pc \in {"dry-run", "svn-report"} => request.dryRun /\ (world.authors # {} \/ reported)
      /\ pc = "content" => contentOk \/ reported
      /\ pc = "report" => /\ file["audit.log"] = "whole" => (auditSays <=> success)
                          /\ success => file["audit.log"] = "whole"

RecordsInv == RecordsType /\ Recording /\ RecordsAgree

AnyCall == {"log", "open", "write", "info", "count", "size", "root", "branches", "tags", "json",
            "db", "rev-parse", "list", "ls-tree", "hash", "fsck", "push"}

\* The calls that may fail are finitely many.
LEMMA CallsAreFinite == IsFiniteSet(AnyCall)
<1> DEFINE add(S, x) == S \cup {x}
<1>1. \A S, x : IsFiniteSet(S) => IsFiniteSet(add(S, x))
  BY FS_AddElement
<1> DEFINE A == {"log", "open", "write", "info"}
           B == {"count", "size", "root", "branches"}
           C == {"tags", "json", "db", "rev-parse"}
           D == {"list", "ls-tree", "hash", "fsck"}
<1>2. \A a, b, c, d : IsFiniteSet({a, b, c, d})
  <2> TAKE a, b, c, d
  <2>1. {a, b, c, d} = add(add(add(add({}, a), b), c), d)
    OBVIOUS
  <2> HIDE DEF add
  <2>2. QED BY <2>1, <1>1, FS_EmptySet
<1>3. IsFiniteSet(A) /\ IsFiniteSet(B) /\ IsFiniteSet(C) /\ IsFiniteSet(D)
  BY <1>2
<1>4. AnyCall = add(((A \cup B) \cup (C \cup D)), "push")
  BY DEF AnyCall
<1> HIDE DEF add, A, B, C, D
<1>5. QED BY <1>1, <1>3, <1>4, FS_Union

\* A call that fails is counted.
LEMMA FailedFacts ==
    ASSUME faults \in Nat, NEW calls, calls \subseteq AnyCall,
           NEW down \in Faulty(calls), Failed(down)
    PROVE  /\ down \subseteq calls
           /\ faults' \in Nat /\ faults' >= faults
           /\ down # {} => faults' > 0
<1>1. down \subseteq calls /\ down \in SUBSET AnyCall
  BY DEF Faulty
<1>2. IsFiniteSet(down)
  BY <1>1, CallsAreFinite, FS_Subset
<1>3. Cardinality(down) \in Nat /\ (down # {} => Cardinality(down) # 0)
  BY <1>2, FS_CardinalityType, FS_EmptySet
<1>4. faults' = faults + Cardinality(down)
  BY DEF Failed
<1>5. QED BY <1>1, <1>3, <1>4

\* What recording a verdict does: a failure is never taken back, nor is a report.
LEMMA VerdictFacts ==
    ASSUME success \in BOOLEAN, reported \in BOOLEAN, NEW ok, NEW reports,
           Verdict(ok, reports)
    PROVE  /\ success' \in BOOLEAN /\ reported' \in BOOLEAN
           /\ success' <=> success /\ ok
           /\ reported' <=> reported \/ reports
BY DEF Verdict
\* What every phase before the records does: it keeps the two files, explains what it
\* fails of, and goes on to a phase that may follow.
GoesOn ==
    /\ RecordsType'
    /\ world' = world /\ request' = request
    /\ file'["audit.log"] = file["audit.log"]
    /\ file'["error_report.txt"] = file["error_report.txt"]
    /\ faults' >= faults /\ (reported => reported')
    /\ success => success' \/ reported' \/ faults' > 0 \/ Excused
    /\ pc' \notin {"idle", "done", "report"}
    /\ pc' \in {"auto-map", "authors", "authors-outcome"} => success' \/ reported'
    /\ pc' = "authors-outcome" => request.authorsOnly
    /\ pc' \in {"dry-run", "svn-report"} => request.dryRun /\ (world.authors # {} \/ reported')
    /\ pc' = "content" => contentOk' \/ reported'

\* A step within a run keeps what the records are to say.
LEMMA GoesOnStep ==
    ASSUME RecordsInv, pc \notin {"idle", "done", "report"}, GoesOn
    PROVE  RecordsInv'
<1>1. RecordsAgree'
  BY DEF GoesOn, RecordsAgree, Ended
<1>2. Excused' <=> Excused
  BY DEF GoesOn, Excused
<1>3. faults \in Nat /\ faults' \in Nat
  BY DEF RecordsInv, RecordsType, GoesOn
<1>4. Recording'
  BY <1>2, <1>3 DEF GoesOn, RecordsInv, Recording
<1>5. QED BY <1>1, <1>4 DEF RecordsInv, GoesOn

\* --auto-map-authors reports what it fails of.
LEMMA AutoMapRecords == ASSUME RecordsInv, AutoMap PROVE RecordsInv'
<1>1. PICK down \in Faulty({"log", "open", "write"}) :
        /\ Failed(down)
        /\ Verdict(Authors(down) # {} /\ down \cap {"open", "write"} = {},
                   \/ Authors(down) = {} \/ ~(down \cap {"open", "write"} = {})
                   \/ LoadAuthorsFile(world.authorsFile).reports # {})
        /\ file' = file
           \/ file' = [file EXCEPT !["authors-generated.txt"] = Written(@, down)]
  BY DEF AutoMap
<1>2. /\ pc = "auto-map" /\ pc' = After("auto-map")
      /\ world' = world /\ request' = request /\ contentOk' = contentOk
  BY DEF AutoMap, Continue
<1>3. ComesFrom(pc', request, 2)
  BY <1>2, AfterFacts
<1>4. faults' \in Nat /\ faults' >= faults
  BY <1>1, FailedFacts DEF RecordsInv, RecordsType, AnyCall
<1>5. /\ success' \in BOOLEAN /\ reported' \in BOOLEAN /\ (reported => reported')
      /\ success => success' \/ reported'
  BY <1>1, VerdictFacts DEF RecordsInv, RecordsType
<1>6. success \/ reported
  BY <1>2 DEF RecordsInv, Recording
<1>7. /\ file' \in [Artifact -> {"absent", "earlier", "partial", "whole"}]
      /\ file'["audit.log"] = file["audit.log"]
      /\ file'["error_report.txt"] = file["error_report.txt"]
  <2>1. Written(file["authors-generated.txt"], down) \in {"absent", "earlier", "partial", "whole"}
    BY DEF Written, RecordsInv, RecordsType, Artifact
  <2>2. QED BY <1>1, <2>1 DEF RecordsInv, RecordsType, Artifact
<1>8. GoesOn
  BY <1>2, <1>3, <1>4, <1>5, <1>6, <1>7
     DEF GoesOn, RecordsInv, RecordsType, ComesFrom, PhaseName
<1>9. QED BY <1>2, <1>8, GoesOnStep

\* What the check of the authors fails of is reported: an author without an identity, or
\* with one that is not valid, a duplicate, a file that cannot be read, no authors.
LEMMA CoverageIsReported ==
    ASSUME NEW f, NEW authors
    PROVE  /\ ValidateCoverage(f, authors).ok \/ ValidateCoverage(f, authors).reported
           /\ authors = {} => ValidateCoverage(f, authors).reported
<1> DEFINE loaded == LoadAuthorsFile(f)
           missing == {u \in authors : IdentityOf(loaded.mappings, u) = "empty"}
           invalid == {u \in authors : IdentityOf(loaded.mappings, u) = "invalid"}
<1>1. CASE authors = {}
  BY <1>1 DEF ValidateCoverage
<1>2. CASE authors # {}
  <2>1. ValidateCoverage(f, authors) =
          [ok |-> missing = {} /\ invalid = {} /\ "Duplicate" \notin loaded.reports,
           reported |-> loaded.reports # {} \/ missing # {}]
    BY <1>2 DEF ValidateCoverage
  <2>2. invalid # {} => loaded.reports # {}
    <3> SUFFICES ASSUME NEW u \in authors, IdentityOf(loaded.mappings, u) = "invalid"
                 PROVE  loaded.reports # {}
      OBVIOUS
    <3>1. u \in DOMAIN loaded.mappings /\ loaded.mappings[u] # "valid"
      BY DEF IdentityOf
    <3>2. CASE ~f.readable
      BY <3>2 DEF LoadAuthorsFile
    <3>3. CASE f.readable
      <4>1. loaded.mappings = Mappings(f.lines)
        BY <3>3 DEF LoadAuthorsFile
      <4>2. "InvalidEmail" \in loaded.reports
        BY <3>1, <3>3, <4>1 DEF LoadAuthorsFile
      <4>3. QED BY <4>2
    <3>4. QED BY <3>2, <3>3
  <2> DEFINE dup == "Duplicate" \in loaded.reports
  <2>3. dup => loaded.reports # {}
    OBVIOUS
  <2>4. /\ ValidateCoverage(f, authors).ok = (missing = {} /\ invalid = {} /\ ~dup)
        /\ ValidateCoverage(f, authors).reported = (loaded.reports # {} \/ missing # {})
    BY <2>1
  <2> HIDE DEF loaded, missing, invalid, dup
  <2>5. QED BY <1>2, <2>2, <2>3, <2>4
<1>3. QED BY <1>1, <1>2

\* The check of the authors reports what it fails of.
LEMMA ValidateAuthorsRecords == ASSUME RecordsInv, ValidateAuthors PROVE RecordsInv'
<1>1. PICK down \in Faulty({"log"}) :
        /\ Failed(down)
        /\ Verdict(ValidateCoverage(world.authorsFile, Authors(down)).ok,
                   ValidateCoverage(world.authorsFile, Authors(down)).reported)
  BY DEF ValidateAuthors
<1>2. /\ pc = "authors"
      /\ IF request.authorsOnly THEN pc' = "authors-outcome" ELSE pc' = After("authors")
      /\ world' = world /\ request' = request /\ file' = file /\ contentOk' = contentOk
  BY DEF ValidateAuthors, run
<1>3. (pc' = "authors-outcome" /\ request.authorsOnly) \/ ComesFrom(pc', request, 3)
  BY <1>2, AfterFacts
<1>4. faults' \in Nat /\ faults' >= faults
  BY <1>1, FailedFacts DEF RecordsInv, RecordsType, AnyCall
<1>5. /\ success' \in BOOLEAN /\ reported' \in BOOLEAN /\ (reported => reported')
      /\ success => success' \/ reported'
      /\ world.authors = {} => reported'
  <2>1. world.authors = {} => Authors(down) = {}
    BY DEF Authors
  <2>2. QED BY <1>1, <2>1, VerdictFacts, CoverageIsReported DEF RecordsInv, RecordsType
<1>6. success \/ reported
  BY <1>2 DEF RecordsInv, Recording
<1>7. GoesOn
  BY <1>2, <1>3, <1>4, <1>5, <1>6 DEF GoesOn, RecordsInv, RecordsType, ComesFrom, PhaseName
<1>8. QED BY <1>2, <1>7, GoesOnStep

\* The dry run fails of what is reported, or of a YAML file with errors or an authors file
\* without a mapping, which are only logged.
LEMMA DryRunRecords == ASSUME RecordsInv, DryRun PROVE RecordsInv'
<1> DEFINE loaded == LoadAuthorsFile(world.authorsFile)
           reports == \/ loaded.reports # {} \/ ~ValidRules(world.rules)
                      \/ request.orchestration /\ world.yaml = "absent"
           yamlOk == ~request.orchestration \/ world.yaml = "good"
<1>1. Verdict(AuthorsFilePasses(world.authorsFile) /\ ValidRules(world.rules) /\ yamlOk, reports)
  BY DEF DryRun
<1>2. /\ pc = "dry-run" /\ pc' = After("dry-run")
      /\ world' = world /\ request' = request /\ file' = file /\ contentOk' = contentOk
      /\ faults' = faults
  BY DEF DryRun, Continue, run
<1>3. ComesFrom(pc', request, 4)
  BY <1>2, AfterFacts
<1>4. request.dryRun /\ (world.authors # {} \/ reported)
  BY <1>2 DEF RecordsInv, Recording
<1>5. ~AuthorsFilePasses(world.authorsFile) => loaded.reports # {} \/ Excused
  <2> SUFFICES ASSUME ~AuthorsFilePasses(world.authorsFile), loaded.reports = {} PROVE Excused
    OBVIOUS
  <2>1. DOMAIN loaded.mappings = {}
    BY DEF AuthorsFilePasses
  <2>2. world.authorsFile.readable
    BY DEF LoadAuthorsFile
  <2>3. loaded.mappings = Mappings(world.authorsFile.lines)
    BY <2>2 DEF LoadAuthorsFile
  <2>4. \A i \in DOMAIN world.authorsFile.lines : ~IsMapping(world.authorsFile.lines[i])
    <3>1. DOMAIN Mappings(world.authorsFile.lines) = {}
      BY ONLY <2>1, <2>3
    <3>2. QED BY ONLY <3>1 DEF Mappings
  <2>5. QED BY <1>4, <2>4 DEF Excused
<1>6. ~yamlOk => reports \/ Excused
  BY <1>4, ValidateAppAssumption DEF Excused, RecordsInv, RecordsType
<1>7. /\ success' \in BOOLEAN /\ reported' \in BOOLEAN /\ (reported => reported')
      /\ success => success' \/ reported' \/ Excused
  <2>1. \/ AuthorsFilePasses(world.authorsFile) /\ ValidRules(world.rules) /\ yamlOk
        \/ reports \/ Excused
    BY <1>5, <1>6
  <2> HIDE DEF reports, yamlOk
  <2>2. QED BY <1>1, <2>1, VerdictFacts DEF RecordsInv, RecordsType
<1> HIDE DEF loaded, reports, yamlOk
<1>8. GoesOn
  BY <1>2, <1>3, <1>4, <1>7 DEF GoesOn, RecordsInv, RecordsType, ComesFrom, PhaseName
<1>9. QED BY <1>2, <1>8, GoesOnStep
\* The report on Subversion fails of what is reported, of no revisions, which is not, or of
\* no authors, which has been reported when the authors were checked.
LEMMA SvnReportRecords == ASSUME RecordsInv, SvnReport PROVE RecordsInv'
<1> DEFINE answered(down) == Svn("info", down) /\ Svn("log", down)
           reports(down) == \/ ~answered(down) \/ "size" \in down
                            \/ "count" \in down /\ DOMAIN world.tree # {}
<1>1. PICK down \in Faulty({"info", "log", "count", "size"}) :
        /\ Failed(down)
        /\ Verdict(answered(down) /\ world.revisions > 0 /\ world.authors # {}, reports(down))
  BY DEF SvnReport
<1>2. /\ pc = "svn-report" /\ pc' = After("svn-report")
      /\ world' = world /\ request' = request /\ file' = file /\ contentOk' = contentOk
  BY DEF SvnReport, Continue, run
<1>3. PICK i \in 5 .. 8 : ComesFrom(pc', request, i)
  BY <1>2, AfterFacts
<1>4. faults' \in Nat /\ faults' >= faults
  BY <1>1, FailedFacts DEF RecordsInv, RecordsType, AnyCall
<1>5. request.dryRun /\ (world.authors # {} \/ reported)
  BY <1>2 DEF RecordsInv, Recording
<1>6. world.revisions > 0 \/ Excused
  BY <1>5, ValidateAppAssumption DEF Excused, RecordsInv, RecordsType
<1>7. ~answered(down) => reports(down)
  OBVIOUS
<1> HIDE DEF answered, reports
<1>8. /\ success' \in BOOLEAN /\ reported' \in BOOLEAN /\ (reported => reported')
      /\ success => success' \/ reported' \/ Excused
  BY <1>1, <1>5, <1>6, <1>7, VerdictFacts DEF RecordsInv, RecordsType
<1>9. GoesOn
  BY <1>2, <1>3, <1>4, <1>8 DEF GoesOn, RecordsInv, RecordsType, ComesFrom, PhaseName
<1>10. QED BY <1>2, <1>9, GoesOnStep

\* The coverage of the rules reports what it fails of.
LEMMA CoverageRecords == ASSUME RecordsInv, Coverage PROVE RecordsInv'
<1>1. PICK down \in Faulty({"root", "branches", "tags", "count"}) :
        /\ Failed(down)
        /\ \/ Verdict(FALSE, TRUE)
           \/ Verdict(UnmappedDirs(Rules, layout') = {},
                      UnmappedDirs(Rules, layout') # {} \/ "count" \in down)
  BY DEF Coverage
<1>2. /\ pc = "coverage" /\ pc' = After("coverage")
      /\ world' = world /\ request' = request /\ file' = file /\ contentOk' = contentOk
  BY DEF Coverage, Continue
<1>3. PICK i \in 5 .. 8 : ComesFrom(pc', request, i)
  BY <1>2, AfterFacts
<1>4. faults' \in Nat /\ faults' >= faults
  BY <1>1, FailedFacts DEF RecordsInv, RecordsType, AnyCall
<1>5. /\ success' \in BOOLEAN /\ reported' \in BOOLEAN /\ (reported => reported')
      /\ success => success' \/ reported'
  BY <1>1, VerdictFacts DEF RecordsInv, RecordsType
<1>6. GoesOn
  BY <1>2, <1>3, <1>4, <1>5 DEF GoesOn, RecordsInv, RecordsType, ComesFrom, PhaseName
<1>7. QED BY <1>2, <1>6, GoesOnStep

\* The map of revisions is given up with a report when there are no commits; otherwise a
\* call has failed.
LEMMA TraceabilityRecords == ASSUME RecordsInv, GenerateTraceability PROVE RecordsInv'
<1>1. PICK down \in Faulty({"log", "json", "db"}) :
        /\ Failed(down)
        /\ LET commits == IF Git("log", down) THEN world.commits ELSE <<>>
               partial == \E i \in DOMAIN commits : commits[i][1] > 0
           IN  IF commits = <<>> THEN Verdict(FALSE, TRUE) /\ UNCHANGED <<mapper, file>>
               ELSE /\ Verdict(down = {}, partial /\ ~UseMetadata(commits))
                    /\ mapper' = Recorded(commits)
                    /\ \E json \in Left("json", down, {file["svn_to_git_mapping.json"], "partial"}),
                          db \in Left("db", down, {file["traceability.db"], "absent", "partial"}) :
                         file' = [file EXCEPT !["svn_to_git_mapping.json"] = json,
                                              !["traceability.db"] = db]
  BY DEF GenerateTraceability
<1>2. /\ pc = "traceability" /\ pc' = After("traceability")
      /\ world' = world /\ request' = request /\ contentOk' = contentOk
  BY DEF GenerateTraceability, Continue
<1>3. PICK i \in 5 .. 8 : ComesFrom(pc', request, i)
  BY <1>2, AfterFacts
<1>4. faults' \in Nat /\ faults' >= faults /\ (down # {} => faults' > 0)
  BY <1>1, FailedFacts DEF RecordsInv, RecordsType, AnyCall
<1>5. \E reports : Verdict(FALSE, TRUE) \/ Verdict(down = {}, reports)
  BY <1>1
<1>6. /\ success' \in BOOLEAN /\ reported' \in BOOLEAN /\ (reported => reported')
      /\ success => success' \/ reported' \/ faults' > 0
  BY <1>4, <1>5, VerdictFacts DEF RecordsInv, RecordsType
<1>7. \/ file' = file
      \/ \E json, db \in {"absent", "earlier", "partial", "whole"} :
           file' = [file EXCEPT !["svn_to_git_mapping.json"] = json, !["traceability.db"] = db]
  <2>1. /\ file["svn_to_git_mapping.json"] \in {"absent", "earlier", "partial", "whole"}
        /\ file["traceability.db"] \in {"absent", "earlier", "partial", "whole"}
    BY DEF RecordsInv, RecordsType, Artifact
  <2>2. /\ Left("json", down, {file["svn_to_git_mapping.json"], "partial"})
             \subseteq {"absent", "earlier", "partial", "whole"}
        /\ Left("db", down, {file["traceability.db"], "absent", "partial"})
             \subseteq {"absent", "earlier", "partial", "whole"}
    BY <2>1 DEF Left
  <2>3. QED BY <1>1, <2>2
<1>8. /\ file' \in [Artifact -> {"absent", "earlier", "partial", "whole"}]
      /\ file'["audit.log"] = file["audit.log"]
      /\ file'["error_report.txt"] = file["error_report.txt"]
  BY <1>7 DEF RecordsInv, RecordsType, Artifact
<1>9. GoesOn
  BY <1>2, <1>3, <1>4, <1>6, <1>8 DEF GoesOn, RecordsInv, RecordsType, ComesFrom, PhaseName
<1>10. QED BY <1>2, <1>9, GoesOnStep

\* The content check reports what it fails of before it looks at the first ref.
LEMMA VerifyContentRecords == ASSUME RecordsInv, VerifyContent PROVE RecordsInv'
<1>1. PICK down \in Faulty({"root", "branches", "tags", "rev-parse"}) :
        /\ Failed(down)
        /\ LET mappings == IF request.rules THEN MapWithRules(Rules, layout')
                           ELSE StandardLayoutMappings(layout')
               unmapped == request.rules /\ UnmappedDirs(Rules, layout') # {}
           IN  IF layout' = {} \/ (request.rules /\ ~ValidRules(world.rules))
               THEN /\ Verdict(FALSE, TRUE)
                    /\ pc' = After("verify")
                    /\ UNCHANGED <<exit, pending, contentOk>>
               ELSE IF request.rules /\ Ambiguous(mappings)
               THEN /\ Verdict(~unmapped, unmapped)
                    /\ pc' = "done" /\ exit' = 2
                    /\ UNCHANGED <<pending, contentOk>>
               ELSE /\ Verdict(~unmapped, unmapped \/ ~Git("rev-parse", down))
                    /\ contentOk' = Git("rev-parse", down)
                    /\ pending' = IF ~contentOk' THEN {}
                                  ELSE IF request.rules THEN Selected(mappings) ELSE mappings
                    /\ pc' = "content" /\ UNCHANGED exit
  BY DEF VerifyContent
<1>2. pc = "verify" /\ world' = world /\ request' = request /\ file' = file
  BY DEF VerifyContent
<1>3. faults' \in Nat /\ faults' >= faults
  BY <1>1, FailedFacts DEF RecordsInv, RecordsType, AnyCall
<1> DEFINE unmapped == request.rules /\ UnmappedDirs(Rules, layout') # {}
           git == Git("rev-parse", down)
<1>4. CASE Verdict(FALSE, TRUE) /\ pc' = After("verify") /\ contentOk' = contentOk
  <2>1. PICK i \in 5 .. 8 : ComesFrom(pc', request, i)
    BY <1>4, AfterFacts
  <2>2. success' \in BOOLEAN /\ reported' \in BOOLEAN /\ reported'
    BY <1>4, VerdictFacts DEF RecordsInv, RecordsType
  <2>3. GoesOn
    BY <1>2, <1>3, <1>4, <2>1, <2>2 DEF GoesOn, RecordsInv, RecordsType, ComesFrom, PhaseName
  <2>4. QED BY <1>2, <2>3, GoesOnStep
<1>5. CASE Verdict(~unmapped, unmapped) /\ pc' = "done" /\ exit' = 2 /\ contentOk' = contentOk
  <2>1. success' \in BOOLEAN /\ reported' \in BOOLEAN
    BY <1>5, VerdictFacts DEF RecordsInv, RecordsType
  <2>2. QED BY <1>2, <1>3, <1>5, <2>1
            DEF RecordsInv, RecordsType, Recording, RecordsAgree
<1>6. CASE Verdict(~unmapped, unmapped \/ ~git) /\ contentOk' = git /\ pc' = "content"
  <2>1. /\ success' \in BOOLEAN /\ reported' \in BOOLEAN /\ (reported => reported')
        /\ success => success' \/ reported'
        /\ ~git => reported'
    BY <1>6, VerdictFacts DEF RecordsInv, RecordsType
  <2>2. contentOk' \in BOOLEAN /\ (contentOk' \/ reported')
    BY <1>6, <2>1 DEF Git
  <2>3. GoesOn
    BY <1>2, <1>3, <1>6, <2>1, <2>2 DEF GoesOn, RecordsInv, RecordsType
  <2>4. QED BY <1>2, <2>3, GoesOnStep
<1>7. QED BY <1>1, <1>4, <1>5, <1>6
\* A ref whose content is not as it should be is reported.
LEMMA VerifyRefRecords == ASSUME RecordsInv, VerifyRef PROVE RecordsInv'
<1> DEFINE m == CHOOSE m \in pending : TRUE
           listed(down) == Svn("list", down) /\ Git("ls-tree", down) /\ m.ref \in DOMAIN world.refs
           ok(down, unhashed) ==
             listed(down) /\ RefContentOk(world.tree[m.dir], world.refs[m.ref], m.prefix,
                                          request.samples, unhashed)
<1>1. PICK down \in Faulty({"list", "ls-tree", "rev-parse", "hash"}) :
        /\ Failed(down)
        /\ \E unhashed \in SUBSET (DOMAIN world.tree[m.dir]) :
             /\ contentOk' = (contentOk /\ ok(down, unhashed))
             /\ reported' = (reported \/ ~ok(down, unhashed))
  BY DEF VerifyRef
<1>2. PICK unhashed \in SUBSET (DOMAIN world.tree[m.dir]) :
        /\ contentOk' = (contentOk /\ ok(down, unhashed))
        /\ reported' = (reported \/ ~ok(down, unhashed))
  BY <1>1
<1>3. /\ pc = "content" /\ pc' = pc /\ success' = success
      /\ world' = world /\ request' = request /\ file' = file
  BY DEF VerifyRef
<1>4. faults' \in Nat /\ faults' >= faults
  BY <1>1, FailedFacts DEF RecordsInv, RecordsType, AnyCall
<1> HIDE DEF m, listed, ok
<1>5. /\ contentOk' \in BOOLEAN /\ reported' \in BOOLEAN
      /\ (reported => reported') /\ (contentOk => contentOk' \/ reported')
  BY <1>2
<1>6. contentOk' \/ reported'
  BY <1>3, <1>5 DEF RecordsInv, Recording
<1>7. GoesOn
  BY <1>3, <1>4, <1>5, <1>6 DEF GoesOn, RecordsInv, RecordsType
<1>8. QED BY <1>3, <1>7, GoesOnStep

\* The content check fails of refs that have been reported.
LEMMA ContentReportRecords == ASSUME RecordsInv, ContentReport PROVE RecordsInv'
<1>1. PICK down \in Faulty({"open", "write"}) :
        /\ Failed(down)
        /\ Verdict(contentOk, down # {})
        /\ file' = [file EXCEPT !["content_validation_report.txt"] = Written(@, down)]
  BY DEF ContentReport
<1>2. /\ pc = "content" /\ pc' = After("verify")
      /\ world' = world /\ request' = request /\ contentOk' = contentOk
  BY DEF ContentReport, Continue, run
<1>3. PICK i \in 5 .. 8 : ComesFrom(pc', request, i)
  BY <1>2, AfterFacts
<1>4. faults' \in Nat /\ faults' >= faults
  BY <1>1, FailedFacts DEF RecordsInv, RecordsType, AnyCall
<1>5. contentOk \/ reported
  BY <1>2 DEF RecordsInv, Recording
<1>6. /\ success' \in BOOLEAN /\ reported' \in BOOLEAN /\ (reported => reported')
      /\ success => success' \/ reported'
  BY <1>1, <1>5, VerdictFacts DEF RecordsInv, RecordsType
<1>7. /\ file' \in [Artifact -> {"absent", "earlier", "partial", "whole"}]
      /\ file'["audit.log"] = file["audit.log"]
      /\ file'["error_report.txt"] = file["error_report.txt"]
  <2>1. Written(file["content_validation_report.txt"], down)
          \in {"absent", "earlier", "partial", "whole"}
    BY DEF Written, RecordsInv, RecordsType, Artifact
  <2>2. QED BY <1>1, <2>1 DEF RecordsInv, RecordsType, Artifact
<1>8. GoesOn
  BY <1>2, <1>3, <1>4, <1>6, <1>7 DEF GoesOn, RecordsInv, RecordsType, ComesFrom, PhaseName
<1>9. QED BY <1>2, <1>8, GoesOnStep

\* The check in front of the push and the two pushes report what they fail of.
LEMMA PushRecords ==
    ASSUME RecordsInv, ValidateIntegrity \/ PushAll \/ PushTags
    PROVE  RecordsInv'
<1>1. /\ pc \in {"push", "push-all", "push-tags"}
      /\ pc' \in {"push-all", "push-tags", "outcome"}
      /\ world' = world /\ request' = request /\ file' = file /\ contentOk' = contentOk
  <2>1. CASE ValidateIntegrity  BY <2>1 DEF ValidateIntegrity, run
  <2>2. CASE PushAll  BY <2>2 DEF PushAll, run
  <2>3. CASE PushTags  BY <2>3 DEF PushTags, run
  <2>4. QED BY <2>1, <2>2, <2>3
<1>2. PICK calls : /\ calls \subseteq AnyCall
                   /\ \E down \in Faulty(calls) :
                        Failed(down) /\ \E ok, reports : Verdict(ok, reports) /\ (~ok => reports)
  <2>1. CASE ValidateIntegrity
    <3>1. PICK down \in Faulty({"fsck"}) :
            /\ Failed(down)
            /\ Verdict(Git("fsck", down) /\ Intact, ~(Git("fsck", down) /\ Intact))
      BY <2>1 DEF ValidateIntegrity
    <3>2. QED BY <3>1 DEF AnyCall
  <2>2. CASE PushAll \/ PushTags
    <3>1. PICK down \in Faulty({"push"}) : Failed(down) /\ Verdict(down = {}, down # {})
      BY <2>2 DEF PushAll, PushTags
    <3>2. QED BY <3>1 DEF AnyCall
  <2>3. QED BY <2>1, <2>2
<1>3. PICK down \in Faulty(calls) :
        Failed(down) /\ \E ok, reports : Verdict(ok, reports) /\ (~ok => reports)
  BY <1>2
<1>4. faults' \in Nat /\ faults' >= faults
  BY <1>2, <1>3, FailedFacts DEF RecordsInv, RecordsType
<1>5. /\ success' \in BOOLEAN /\ reported' \in BOOLEAN /\ (reported => reported')
      /\ success => success' \/ reported'
  <2>1. ASSUME NEW ok, NEW reports, Verdict(ok, reports), ~ok => reports
        PROVE  /\ success' \in BOOLEAN /\ reported' \in BOOLEAN /\ (reported => reported')
               /\ success => success' \/ reported'
    BY <2>1, VerdictFacts DEF RecordsInv, RecordsType
  <2>2. QED BY <1>3, <2>1
<1>6. GoesOn
  BY <1>1, <1>4, <1>5 DEF GoesOn, RecordsInv, RecordsType
<1>7. QED BY <1>1, <1>6, GoesOnStep

\* What is left of a file that is written: whole, if nothing failed, and only then.
LEMMA WrittenFacts ==
    ASSUME NEW before \in {"absent", "earlier", "partial", "whole"},
           NEW down, down \subseteq {"open", "write"}
    PROVE  /\ Written(before, down) \in {"absent", "earlier", "partial", "whole"}
           /\ down = {} => Written(before, down) = "whole"
           /\ before \in Unwritten /\ Written(before, down) = "whole" => down = {}
           /\ "open" \in down => Written(before, down) = before
<1>1. CASE "open" \in down
  BY <1>1 DEF Written, Unwritten
<1>2. CASE "open" \notin down /\ "write" \in down
  BY <1>2 DEF Written, Unwritten
<1>3. CASE down \cap {"open", "write"} = {}
  <2>1. Written(before, down) = "whole" /\ down = {}
    BY <1>3 DEF Written
  <2>2. QED BY <2>1
<1>4. QED BY <1>1, <1>2, <1>3

\* The trail says what the run has come to, and the run succeeds only with a trail.
LEMMA OutcomeRecords == ASSUME RecordsInv, Outcome PROVE RecordsInv'
<1>1. PICK down \in Faulty({"open", "write"}) :
        /\ Failed(down)
        /\ auditSays' = IF "open" \in down THEN auditSays ELSE success
        /\ file' = [file EXCEPT !["audit.log"] = Written(@, down)]
        /\ success' = (success /\ TrailWritten(down))
  BY DEF Outcome
<1>2. /\ pc = "outcome" /\ pc' = "report" /\ reported' = reported
      /\ world' = world /\ request' = request /\ contentOk' = contentOk
  BY DEF Outcome, run
<1>3. /\ down \subseteq {"open", "write"}
      /\ faults' \in Nat /\ faults' >= faults /\ (down # {} => faults' > 0)
  BY <1>1, FailedFacts DEF RecordsInv, RecordsType, AnyCall
<1>4. /\ file["audit.log"] \in Unwritten /\ file["error_report.txt"] \in Unwritten
      /\ success \/ reported \/ faults > 0 \/ Excused
  BY <1>2 DEF RecordsInv, Recording
<1> DEFINE w == Written(file["audit.log"], down)
<1>5. /\ w \in {"absent", "earlier", "partial", "whole"}
      /\ w = "whole" <=> down = {}
  BY <1>3, <1>4, WrittenFacts DEF Unwritten
<1> HIDE DEF w
<1>6. /\ file' \in [Artifact -> {"absent", "earlier", "partial", "whole"}]
      /\ file'["audit.log"] = w
      /\ file'["error_report.txt"] = file["error_report.txt"]
  BY <1>1, <1>5 DEF RecordsInv, RecordsType, Artifact, w
<1>7. success' \in BOOLEAN /\ (success' <=> success /\ down = {})
  BY <1>1 DEF TrailWritten
<1>8. RecordsType'
  BY <1>2, <1>3, <1>6, <1>7 DEF RecordsInv, RecordsType
<1>9. Excused' <=> Excused
  BY <1>2 DEF Excused
<1>10. success' \/ reported' \/ faults' > 0 \/ Excused'
  BY <1>2, <1>3, <1>4, <1>7, <1>9 DEF RecordsInv, RecordsType
<1>11. file'["audit.log"] = "whole" => (auditSays' <=> success')
  BY <1>1, <1>5, <1>6, <1>7
<1>12. success' => file'["audit.log"] = "whole"
  BY <1>5, <1>6, <1>7
<1>13. Recording'
  BY <1>2, <1>4, <1>6, <1>10, <1>11, <1>12 DEF Recording
<1>14. RecordsAgree'
  BY <1>2 DEF RecordsAgree, Ended
<1>15. QED BY <1>8, <1>13, <1>14 DEF RecordsInv

\* The end of a run: the error report is written when there is something to report.
LEMMA ReportRecords == ASSUME RecordsInv, Report PROVE RecordsInv'
<1>1. PICK down \in Faulty({"open", "write"}) :
        /\ ~reported => down = {}
        /\ Failed(down)
        /\ file' = [file EXCEPT !["error_report.txt"] = IF reported THEN Written(@, down) ELSE @]
  BY DEF Report
<1>2. /\ pc = "report" /\ pc' = "done" /\ exit' = (IF success THEN 0 ELSE 1)
      /\ success' = success /\ reported' = reported /\ auditSays' = auditSays
      /\ world' = world /\ request' = request /\ contentOk' = contentOk
  BY DEF Report, Exits, run
<1>3. /\ down \subseteq {"open", "write"}
      /\ faults' \in Nat /\ faults' >= faults /\ (down # {} => faults' > 0)
  BY <1>1, FailedFacts DEF RecordsInv, RecordsType, AnyCall
<1>4. /\ file["error_report.txt"] \in Unwritten
      /\ success \/ reported \/ faults > 0 \/ Excused
      /\ file["audit.log"] = "whole" => (auditSays <=> success)
      /\ success => file["audit.log"] = "whole"
  BY <1>2 DEF RecordsInv, Recording
<1>5. success \in BOOLEAN /\ reported \in BOOLEAN /\ faults \in Nat
  BY DEF RecordsInv, RecordsType
<1> DEFINE w == Written(file["error_report.txt"], down)
<1>6. /\ w \in {"absent", "earlier", "partial", "whole"}
      /\ down = {} => w = "whole"
  BY <1>3, <1>4, WrittenFacts DEF Unwritten
<1> HIDE DEF w
<1>7. /\ file' \in [Artifact -> {"absent", "earlier", "partial", "whole"}]
      /\ file'["audit.log"] = file["audit.log"]
      /\ file'["error_report.txt"] = IF reported THEN w ELSE file["error_report.txt"]
  BY <1>1, <1>5, <1>6 DEF RecordsInv, RecordsType, Artifact, w
<1>8. RecordsType'
  BY <1>2, <1>3, <1>7 DEF RecordsInv, RecordsType
<1>9. Excused' <=> Excused
  BY <1>2 DEF Excused
<1>10. RecordsAgree'
  <2>1. exit' = 0 <=> success'
    BY <1>2, <1>5
  <2>2. file'["audit.log"] = "whole" => (auditSays' <=> exit' = 0)
    BY <1>2, <1>4, <1>7, <2>1
  <2>3. exit' = 0 => file'["audit.log"] = "whole"
    BY <1>2, <1>4, <1>7, <2>1
  <2>4. file'["error_report.txt"] \in {"partial", "whole"} => reported'
    BY <1>2, <1>4, <1>5, <1>7 DEF Unwritten
  <2>5. exit' = 1 /\ faults' = 0 => file'["error_report.txt"] = "whole" \/ Excused'
    <3>1. faults' = 0 => faults = 0 /\ down = {}
      BY <1>3, <1>5
    <3>2. QED BY <3>1, <1>2, <1>4, <1>5, <1>6, <1>7, <1>9, <2>1
  <2>6. QED BY <2>2, <2>3, <2>4, <2>5 DEF RecordsAgree, Excused
<1>11. Recording'
  BY <1>2 DEF Recording
<1>12. QED BY <1>8, <1>10, <1>11 DEF RecordsInv
\* The end of --validate-authors-only, with both records.
LEMMA AuthorsOutcomeRecords == ASSUME RecordsInv, AuthorsOutcome PROVE RecordsInv'
<1> DEFINE calls == {"open", "write"}
<1>1. PICK trail \in Faulty(calls), report \in Faulty(calls) :
        /\ success => report = {}
        /\ faults' = faults + Cardinality(trail) + Cardinality(report)
        /\ auditSays' = IF "open" \in trail THEN auditSays ELSE success
        /\ file' = [file EXCEPT
                      !["audit.log"] = Written(@, trail),
                      !["error_report.txt"] = IF success THEN @ ELSE Written(@, report)]
  BY DEF AuthorsOutcome
<1>2. /\ pc = "authors-outcome" /\ pc' = "done" /\ exit' = (IF success THEN 0 ELSE 1)
      /\ success' = success /\ reported' = reported
      /\ world' = world /\ request' = request /\ contentOk' = contentOk
  BY DEF AuthorsOutcome, Exits, run
<1>3. trail \subseteq {"open", "write"} /\ report \subseteq {"open", "write"}
  BY DEF Faulty
<1>4. /\ Cardinality(trail) \in Nat /\ Cardinality(report) \in Nat
      /\ (report # {} => Cardinality(report) # 0)
  <2>1. trail \in SUBSET AnyCall /\ report \in SUBSET AnyCall
    BY <1>3 DEF AnyCall
  <2>2. IsFiniteSet(trail) /\ IsFiniteSet(report)
    BY <2>1, CallsAreFinite, FS_Subset
  <2>3. QED BY <2>2, FS_CardinalityType, FS_EmptySet
<1>5. success \in BOOLEAN /\ reported \in BOOLEAN /\ faults \in Nat
  BY DEF RecordsInv, RecordsType
<1>6. faults' \in Nat /\ (faults' = 0 => report = {})
  BY <1>1, <1>4, <1>5
<1>7. /\ file["audit.log"] \in Unwritten /\ file["error_report.txt"] \in Unwritten
      /\ success \/ reported
      /\ request.authorsOnly
  BY <1>2 DEF RecordsInv, Recording
<1> DEFINE w == Written(file["audit.log"], trail)
           v == Written(file["error_report.txt"], report)
<1>8. /\ w \in {"absent", "earlier", "partial", "whole"}
      /\ w = "whole" => trail = {}
      /\ v \in {"absent", "earlier", "partial", "whole"}
      /\ report = {} => v = "whole"
  <2>1. /\ file["audit.log"] \in {"absent", "earlier", "partial", "whole"}
        /\ file["error_report.txt"] \in {"absent", "earlier", "partial", "whole"}
        /\ file["audit.log"] \in Unwritten
    BY <1>7 DEF Unwritten
  <2>2. /\ w \in {"absent", "earlier", "partial", "whole"}
        /\ w = "whole" => trail = {}
    BY ONLY <1>3, <2>1, WrittenFacts
  <2>3. /\ v \in {"absent", "earlier", "partial", "whole"}
        /\ report = {} => v = "whole"
    BY ONLY <1>3, <2>1, WrittenFacts
  <2>4. QED BY <2>2, <2>3
<1> HIDE DEF w, v
<1>9. /\ file' \in [Artifact -> {"absent", "earlier", "partial", "whole"}]
      /\ file'["audit.log"] = w
      /\ file'["error_report.txt"] = IF success THEN file["error_report.txt"] ELSE v
  BY <1>1, <1>5, <1>8 DEF RecordsInv, RecordsType, Artifact, w, v
<1>10. RecordsType'
  BY <1>2, <1>6, <1>9 DEF RecordsInv, RecordsType
<1>11. RecordsAgree'
  <2>1. exit' = 0 <=> success'
    BY <1>2, <1>5
  <2>2. file'["audit.log"] = "whole" => (auditSays' <=> exit' = 0)
    BY <1>1, <1>2, <1>8, <1>9, <2>1
  <2>3. request'.authorsOnly
    BY <1>2, <1>7
  <2>4. file'["error_report.txt"] \in {"partial", "whole"} => reported'
    BY <1>2, <1>5, <1>7, <1>9 DEF Unwritten
  <2>5. exit' = 1 /\ faults' = 0 => file'["error_report.txt"] = "whole"
    BY <1>2, <1>5, <1>6, <1>8, <1>9, <2>1
  <2>6. QED BY <2>2, <2>3, <2>4, <2>5 DEF RecordsAgree
<1>12. Recording'
  BY <1>2 DEF Recording
<1>13. QED BY <1>10, <1>11, <1>12 DEF RecordsInv

\* Without --git-repo a run ends with exit code 2 and no records.
LEMMA LacksGitRepoRecords == ASSUME RecordsInv, LacksGitRepo PROVE RecordsInv'
<1>1. /\ pc' = "done" /\ exit' = 2 /\ success' = success /\ reported' = reported
      /\ world' = world /\ contentOk' = contentOk
      /\ faults' = faults /\ file' = file
  BY DEF LacksGitRepo, Exits, run
<1>2. QED BY <1>1 DEF RecordsInv, RecordsType, Recording, RecordsAgree

\* A new run: what the last one has left is earlier now, and nothing has failed yet.
LEMMA StartRecords == ASSUME RecordsInv, Start PROVE RecordsInv'
<1>1. /\ exit' = Usage(request')
      /\ pc' = IF exit' = Running THEN Upcoming(request', 1) ELSE "done"
      /\ success' = TRUE /\ reported' = FALSE /\ faults' = 0 /\ contentOk' = TRUE
      /\ file' = [f \in Artifact |-> IF file[f] = "absent" THEN "absent" ELSE "earlier"]
      /\ world' = world
  BY DEF Start
<1>2. RecordsType'
  BY <1>1 DEF RecordsInv, RecordsType
<1>3. ComesFrom(Upcoming(request', 1), request', 1)
  BY UpcomingFacts
<1>4. /\ file'["audit.log"] \in Unwritten /\ file'["error_report.txt"] \in Unwritten
  BY <1>1 DEF Artifact, Unwritten
<1>5. CASE exit' = Running
  <2>1. pc' \in PhaseName /\ pc' \notin {"dry-run", "svn-report"}
    BY <1>1, <1>3, <1>5 DEF ComesFrom
  <2>2. Recording'
    BY <1>1, <1>4, <2>1 DEF Recording, PhaseName
  <2>3. RecordsAgree'
    BY <2>1 DEF RecordsAgree, Ended, PhaseName
  <2>4. QED BY <1>2, <2>2, <2>3 DEF RecordsInv
<1>6. CASE exit' # Running
  BY <1>1, <1>2, <1>6 DEF RecordsInv, Recording, RecordsAgree, Ended
<1>7. QED BY <1>5, <1>6

\* Every step keeps what is said of the records.
LEMMA StepRecords == ASSUME RecordsInv, [Next]_vars PROVE RecordsInv'
<1>1. CASE UNCHANGED vars
  BY <1>1 DEF vars, run, RecordsInv, RecordsType, Recording, RecordsAgree, Ended, Excused
<1>2. CASE Next
  BY <1>2, StartRecords, AutoMapRecords, ValidateAuthorsRecords, AuthorsOutcomeRecords,
     DryRunRecords, SvnReportRecords, CoverageRecords, TraceabilityRecords,
     LacksGitRepoRecords, VerifyContentRecords, VerifyRefRecords, ContentReportRecords,
     PushRecords, OutcomeRecords, ReportRecords DEF Next
<1>3. QED BY <1>1, <1>2

\* The trail and the error report of every run agree with its exit code, whichever phases
\* were asked for and whichever calls fail (main, AuditLogger, ErrorReporter).
THEOREM RecordsAreRight == Spec => []RecordsAgree
<1>1. Init => RecordsInv
  <2> SUFFICES ASSUME Init PROVE RecordsInv
    OBVIOUS
  <2>1. RecordsType
    BY DEF Init, RecordsType
  <2>2. pc = "idle"
    BY DEF Init
  <2>3. Recording /\ RecordsAgree
    BY <2>2 DEF Recording, RecordsAgree, Ended
  <2>4. QED BY <2>1, <2>3 DEF RecordsInv
<1>2. RecordsInv /\ [Next]_vars => RecordsInv'
  BY StepRecords
<1>3. RecordsInv => RecordsAgree
  BY DEF RecordsInv
<1>4. QED BY <1>1, <1>2, <1>3, PTL DEF Spec

-----------------------------------------------------------------------------
(* A sample of the files *)

\* The elements of a finite set of numbers have the places 0, 1, ... in their order.
LEMMA EveryPlaceIsTaken ==
    ASSUME NEW S, S \subseteq Int, IsFiniteSet(S), NEW k \in 0 .. Cardinality(S) - 1
    PROVE  \E f \in S : Cardinality({g \in S : g < f}) = k
<1> DEFINE n == Cardinality(S)
           below(f) == {g \in S : g < f}
           place == [f \in S |-> Cardinality(below(f))]
<1>1. n \in Nat
  BY FS_CardinalityType
<1>2. ASSUME NEW f \in S
      PROVE  IsFiniteSet(below(f)) /\ Cardinality(below(f)) \in 0 .. n - 1
  <2>1. below(f) \in SUBSET S /\ f \notin below(f)
    OBVIOUS
  <2> HIDE DEF below
  <2>2. IsFiniteSet(below(f)) /\ Cardinality(below(f)) <= n /\ Cardinality(below(f)) # n
    BY <2>1, FS_Subset
  <2>3. Cardinality(below(f)) \in Nat
    BY <2>2, FS_CardinalityType
  <2>4. QED BY <1>1, <2>2, <2>3
<1>3. place \in [S -> 0 .. n - 1]
  BY <1>2
<1>4. ASSUME NEW f \in S, NEW g \in S, f < g
      PROVE  place[f] # place[g]
  <2>1. below(f) \in SUBSET below(g) /\ f \in below(g) /\ f \notin below(f)
    <3>1. f \in Int /\ g \in Int /\ \A h \in S : h \in Int /\ (h < f => h < g)
      BY <1>4
    <3>2. ~ (f < f)
      BY <3>1
    <3>3. QED BY <1>4, <3>1, <3>2
  <2>2. IsFiniteSet(below(g)) /\ below(f) # below(g)
    BY <1>2, <2>1
  <2>3. place[f] = Cardinality(below(f)) /\ place[g] = Cardinality(below(g))
    OBVIOUS
  <2> HIDE DEF below, place
  <2>4. QED BY <2>1, <2>2, <2>3, FS_Subset
<1>5. \A f, g \in S : place[f] = place[g] => f = g
  <2> SUFFICES ASSUME NEW f \in S, NEW g \in S, f # g PROVE place[f] # place[g]
    OBVIOUS
  <2>1. f \in Int /\ g \in Int
    OBVIOUS
  <2>2. f < g \/ g < f
    BY <2>1
  <2>3. QED BY <1>4, <2>2
<1> HIDE DEF place
<1>6. place \in Injection(S, 0 .. n - 1)
  BY <1>3, <1>5 DEF Injection, IsInjective
<1>7. IsFiniteSet(0 .. n - 1) /\ Cardinality(0 .. n - 1) = n
  BY <1>1, FS_Interval
<1>8. place \in Surjection(S, 0 .. n - 1)
  BY <1>6, <1>7, FS_Injection
<1>9. PICK f \in S : place[f] = k
  BY <1>8 DEF Surjection
<1>10. QED BY <1>9 DEF place

\* Multiplication is monotonic.
LEMMA TimesMonotonic ==
    ASSUME NEW a \in Nat, NEW b \in Nat, NEW c \in Nat, a <= b
    PROVE  a * c \in Nat /\ b * c \in Nat /\ a * c <= b * c
<1>1. PICK d \in Nat : b = a + d
  <2>1. b - a \in Nat /\ b = a + (b - a)
    OBVIOUS
  <2>2. QED BY <2>1
<1>2. d * c \in Nat /\ a * c \in Nat /\ (a + d) * c = a * c + d * c
  OBVIOUS
<1>3. QED BY <1>1, <1>2

\* The indexes of a sample smaller than the set are within it, and all different.
LEMMA SampleSpread ==
    ASSUME NEW size \in Nat, NEW limit \in Nat, 0 < limit, limit < size
    PROVE  /\ \A i \in 0 .. limit - 1 : SampleIndex(i, size, limit) \in 0 .. size - 1
           /\ \A i, j \in 0 .. limit - 1 :
                 i < j => SampleIndex(i, size, limit) < SampleIndex(j, size, limit)
<1>1. ASSUME NEW a \in Nat
      PROVE  /\ a \div limit \in Nat
             /\ limit * (a \div limit) <= a /\ a < limit * ((a \div limit) + 1)
  OBVIOUS
<1>2. ASSUME NEW i \in 0 .. limit - 1
      PROVE  SampleIndex(i, size, limit) \in 0 .. size - 1
  <2> DEFINE q == (i * size) \div limit
  <2>1. i * size \in Nat /\ size * limit \in Nat
    OBVIOUS
  <2>2. i * size + size <= size * limit
    <3>1. (i + 1) * size <= limit * size
      BY TimesMonotonic
    <3>2. (i + 1) * size = i * size + size /\ limit * size = size * limit
      OBVIOUS
    <3>3. QED BY <3>1, <3>2
  <2>3. q \in Nat /\ limit * q <= i * size
    BY <1>1, <2>1
  <2>4. ~ (q >= size)
    <3> SUFFICES ASSUME q >= size PROVE FALSE
      OBVIOUS
    <3>1. size * limit <= q * limit /\ q * limit = limit * q
      BY <2>3, TimesMonotonic
    <3>2. q * limit \in Nat
      BY <2>3
    <3> HIDE DEF q
    <3>3. QED BY <2>1, <2>2, <2>3, <3>1, <3>2
  <2>5. SampleIndex(i, size, limit) = q
    BY DEF SampleIndex
  <2> HIDE DEF q
  <2>6. QED BY <2>3, <2>4, <2>5
<1>3. ASSUME NEW i \in 0 .. limit - 1, NEW j \in 0 .. limit - 1, i < j
      PROVE  SampleIndex(i, size, limit) < SampleIndex(j, size, limit)
  <2> DEFINE p == (i * size) \div limit
             q == (j * size) \div limit
  <2>1. i * size \in Nat /\ j * size \in Nat
    OBVIOUS
  <2>2. i * size + size <= j * size
    <3>1. i + 1 \in Nat /\ j \in Nat /\ i + 1 <= j
      BY <1>3
    <3>2. (i + 1) * size <= j * size
      BY <3>1, TimesMonotonic
    <3>3. (i + 1) * size = i * size + size
      OBVIOUS
    <3>4. QED BY <3>2, <3>3
  <2>3. p \in Nat /\ q \in Nat /\ limit * p <= i * size /\ j * size < limit * (q + 1)
    BY <1>1, <2>1
  <2>4. ~ (q <= p)
    <3> SUFFICES ASSUME q <= p PROVE FALSE
      OBVIOUS
    <3>1. (q + 1) * limit <= (p + 1) * limit
      BY <2>3, TimesMonotonic
    <3>2. (q + 1) * limit = limit * (q + 1) /\ (p + 1) * limit = limit * p + limit
      BY <2>3
    <3>3. limit * p \in Nat /\ limit * (q + 1) \in Nat
      BY <2>3
    <3> HIDE DEF p, q
    <3>4. QED BY <2>1, <2>2, <2>3, <3>1, <3>2, <3>3
  <2>5. SampleIndex(i, size, limit) = p /\ SampleIndex(j, size, limit) = q
    BY DEF SampleIndex
  <2> HIDE DEF p, q
  <2>6. QED BY <2>3, <2>4, <2>5
<1>4. QED BY <1>2, <1>3

\* As many files are hashed as were asked for, all of them if that is more than there are.
LEMMA SampleSize ==
    ASSUME NEW S, S \subseteq Int, IsFiniteSet(S), NEW limit \in Int
    PROVE  /\ ToHash(S, limit) \subseteq S
           /\ Cardinality(ToHash(S, limit)) >=
                IF limit \in 1 .. Cardinality(S) THEN limit ELSE Cardinality(S)
<1> DEFINE size == Cardinality(S)
           place(f) == Cardinality({g \in S : g < f})
<1>1. size \in Nat
  BY FS_CardinalityType
<1>2. CASE ~ (limit > 0 /\ size > limit)
  <2>1. ToHash(S, limit) = S
    BY <1>2 DEF ToHash
  <2>2. QED BY <1>1, <1>2, <2>1
<1>3. CASE limit > 0 /\ size > limit
  <2> DEFINE T == {f \in S : \E i \in 0 .. limit - 1 : place(f) = SampleIndex(i, size, limit)}
             At(i) == CHOOSE f \in S : place(f) = SampleIndex(i, size, limit)
             at == [i \in 0 .. limit - 1 |-> At(i)]
  <2>1. ToHash(S, limit) = T
    BY <1>3 DEF ToHash
  <2>2. limit \in Nat /\ limit \in 1 .. size
    BY <1>1, <1>3
  <2>3. /\ \A i \in 0 .. limit - 1 : SampleIndex(i, size, limit) \in 0 .. size - 1
        /\ \A i, j \in 0 .. limit - 1 :
              i < j => SampleIndex(i, size, limit) < SampleIndex(j, size, limit)
    BY <1>1, <1>3, <2>2, SampleSpread
  <2>4. \A i \in 0 .. limit - 1 : At(i) \in S /\ place(At(i)) = SampleIndex(i, size, limit)
    <3> TAKE i \in 0 .. limit - 1
    <3>1. \E f \in S : place(f) = SampleIndex(i, size, limit)
      BY <2>3, EveryPlaceIsTaken
    <3> HIDE DEF place
    <3>2. QED BY <3>1
  <2>5. T \in SUBSET S
    OBVIOUS
  <2> HIDE DEF place, At
  <2>6. at \in [0 .. limit - 1 -> T]
    BY <2>4
  <2>7. \A i, j \in 0 .. limit - 1 : at[i] = at[j] => i = j
    <3> SUFFICES ASSUME NEW i \in 0 .. limit - 1, NEW j \in 0 .. limit - 1, at[i] = at[j], i # j
                 PROVE  FALSE
      OBVIOUS
    <3>1. SampleIndex(i, size, limit) = SampleIndex(j, size, limit)
      BY <2>4
    <3>2. i < j \/ j < i
      BY <2>2
    <3>3. /\ SampleIndex(i, size, limit) \in 0 .. size - 1
          /\ SampleIndex(j, size, limit) \in 0 .. size - 1
      BY <2>3
    <3> HIDE DEF size
    <3>4. QED BY <1>1, <2>3, <3>1, <3>2, <3>3
  <2> HIDE DEF T, at
  <2>8. at \in Injection(0 .. limit - 1, T)
    BY <2>6, <2>7 DEF Injection, IsInjective
  <2>9. IsFiniteSet(T) /\ Cardinality(T) \in Nat
    BY <2>5, FS_Subset, FS_CardinalityType
  <2>10. Cardinality(0 .. limit - 1) = limit
    BY <2>2, FS_Interval
  <2>11. limit <= Cardinality(T)
    BY <2>8, <2>9, <2>10, FS_Injection
  <2>12. QED BY <1>1, <2>1, <2>2, <2>5, <2>9, <2>11
<1>4. QED BY <1>2, <1>3

\* The files that are in git with the same content.
SameIn(files, blobs, prefix) ==
    {f \in DOMAIN files : <<prefix, f>> \in DOMAIN blobs /\ blobs[<<prefix, f>>] = files[f]}

\* What a ref that was found good has: every file, and as many of them compared and the
\* same as were asked for.
LEMMA GoodRef ==
    ASSUME NEW files, DOMAIN files \subseteq Int, IsFiniteSet(DOMAIN files), NEW blobs, NEW prefix,
           NEW limit \in Int, NEW unhashed, RefContentOk(files, blobs, prefix, limit, unhashed)
    PROVE  /\ \A f \in DOMAIN files : <<prefix, f>> \in DOMAIN blobs
           /\ Cardinality(SameIn(files, blobs, prefix)) >=
                IF limit \in 1 .. Cardinality(DOMAIN files) THEN limit
                ELSE Cardinality(DOMAIN files)
<1> DEFINE S == DOMAIN files
           T == ToHash(S, limit)
           same == SameIn(files, blobs, prefix)
<1>1. Present(files, blobs, prefix) = S
  BY DEF RefContentOk
<1>2. \A f \in S : <<prefix, f>> \in DOMAIN blobs
  BY <1>1 DEF Present
<1>3. \A f \in T : files[f] = blobs[<<prefix, f>>]
  BY <1>1 DEF RefContentOk
<1>4. T \subseteq S /\ Cardinality(T) >=
        IF limit \in 1 .. Cardinality(S) THEN limit ELSE Cardinality(S)
  BY SampleSize
<1>5. T \in SUBSET same /\ same \in SUBSET S
  BY <1>2, <1>3, <1>4 DEF SameIn
<1> HIDE DEF T, same
<1>6. IsFiniteSet(same)
  BY <1>5, FS_Subset
<1>7. IsFiniteSet(T) /\ Cardinality(T) <= Cardinality(same)
  BY <1>5, <1>6, FS_Subset
<1>8. Cardinality(T) \in Nat /\ Cardinality(same) \in Nat /\ Cardinality(S) \in Nat
  BY <1>6, <1>7, FS_CardinalityType
<1>9. Cardinality(same) >= IF limit \in 1 .. Cardinality(S) THEN limit ELSE Cardinality(S)
  BY <1>4, <1>7, <1>8
<1>10. QED BY <1>2, <1>9 DEF same

\* What is the same in every file is found good if all can be hashed.
LEMMA SameRef ==
    ASSUME NEW files, DOMAIN files \subseteq Int, IsFiniteSet(DOMAIN files), NEW blobs, NEW prefix,
           NEW limit \in Int,
           \A f \in DOMAIN files : /\ <<prefix, f>> \in DOMAIN blobs
                                   /\ blobs[<<prefix, f>>] = files[f]
    PROVE  RefContentOk(files, blobs, prefix, limit, {})
<1>1. Present(files, blobs, prefix) = DOMAIN files
  BY DEF Present
<1>2. ToHash(DOMAIN files, limit) \subseteq DOMAIN files
  BY SampleSize
<1>3. QED BY <1>1, <1>2 DEF RefContentOk

-----------------------------------------------------------------------------
(* The traceability map *)

\* The map after one more commit.
Grown(commits, before, n) == RecordMapping(before, RevisionOf(commits, n), commits[n][2])

\* The maps on the way to the one that is written: each comes of the one before it.
LEMMA MapsOnTheWay ==
    ASSUME NEW commits, Len(commits) \in Nat
    PROVE  \E after : /\ after[0] = EmptyMap
                      /\ \A n \in 1 .. Len(commits) : after[n] = Grown(commits, after[n - 1], n)
                      /\ Recorded(commits) = after[Len(commits)]
<1> DEFINE Of(f, k) == [n \in 0 .. k |-> IF n = 0 THEN EmptyMap ELSE Grown(commits, f[n - 1], n)]
           S == {k \in Nat : \E f : f = Of(f, k)}
           len == Len(commits)
<1>1. 0 \in S
  <2>1. [n \in 0 .. 0 |-> EmptyMap] = Of([n \in 0 .. 0 |-> EmptyMap], 0)
    OBVIOUS
  <2>2. QED BY <2>1
<1>2. ASSUME NEW k \in 0 .. len - 1, k \in S
      PROVE  k + 1 \in S
  <2>1. PICK f : f = Of(f, k)
    BY <1>2
  <2> DEFINE g == [n \in 0 .. k + 1 |-> IF n = k + 1 THEN Grown(commits, f[k], n) ELSE f[n]]
  <2>2. k \in Nat /\ k + 1 \in Nat
    BY <1>2
  <2>3. \A n \in 0 .. k + 1 : g[n] = IF n = 0 THEN EmptyMap ELSE Grown(commits, g[n - 1], n)
    <3> TAKE n \in 0 .. k + 1
    <3>1. CASE n = k + 1
      <4>1. n # 0 /\ n - 1 = k /\ k \in 0 .. k + 1 /\ k # k + 1
        BY <2>2, <3>1
      <4>2. QED BY <3>1, <4>1
    <3>2. CASE n # k + 1
      <4>1. n \in 0 .. k
        BY <2>2, <3>2
      <4>2. g[n] = f[n]
        BY <3>2
      <4>3. f[n] = IF n = 0 THEN EmptyMap ELSE Grown(commits, f[n - 1], n)
        BY <2>1, <4>1
      <4>4. n # 0 => n - 1 \in 0 .. k + 1 /\ n - 1 # k + 1
        BY <2>2, <4>1
      <4>5. n # 0 => g[n - 1] = f[n - 1]
        BY <4>4
      <4> HIDE DEF g
      <4>6. QED BY <4>2, <4>3, <4>5
    <3>3. QED BY <3>1, <3>2
  <2>4. g = Of(g, k + 1)
    <3>1. g = [n \in 0 .. k + 1 |-> g[n]]
      OBVIOUS
    <3> HIDE DEF g
    <3>2. QED BY <2>3, <3>1
  <2> HIDE DEF Of
  <2>5. QED BY <2>2, <2>4
<1>3. len \in S
  <2> HIDE DEF S
  <2>1. QED BY <1>1, <1>2, UpTo
<1>4. PICK f : f = Of(f, len)
  BY <1>3
<1> DEFINE after == CHOOSE h : h = Of(h, len)
<1>5. after = Of(after, len)
  <2> HIDE DEF Of
  <2>1. QED BY <1>4
<1>6. Recorded(commits) = after[Len(commits)]
  BY DEF Recorded, Grown
<1> HIDE DEF after
<1>7. after[0] = EmptyMap /\ \A n \in 1 .. len : after[n] = Grown(commits, after[n - 1], n)
  BY <1>5
<1>8. QED BY <1>6, <1>7

\* The commits of a repository, no name twice.
IsHistory(commits) ==
    /\ commits \in Seq(Int \X FullSha)
    /\ \A i, j \in DOMAIN commits : i # j => commits[i][2] # commits[j][2]

\* What the map has after n commits: only what they brought, and each commit that is the
\* first of its revision.
HasFirst(m, commits, n) ==
    /\ DOMAIN m.byRevision \subseteq {RevisionOf(commits, j) : j \in 1 .. n}
    /\ DOMAIN m.byGitSha \subseteq {commits[j][2] : j \in 1 .. n}
    /\ m.duplicateRevisions \subseteq Nat \ {0}
    /\ \A j \in 1 .. n :
         (\A k \in 1 .. j - 1 : RevisionOf(commits, k) # RevisionOf(commits, j))
           => /\ commits[j][2] \in DOMAIN m.byGitSha
              /\ m.byGitSha[commits[j][2]] = RevisionOf(commits, j)

\* A revision a commit is recorded with is one.
LEMMA RevisionIsOne ==
    ASSUME NEW commits, IsHistory(commits), NEW i \in DOMAIN commits
    PROVE  RevisionOf(commits, i) \in Nat \ {0} /\ commits[i][2] \in FullSha
<1>1. commits[i] \in Int \X FullSha /\ DOMAIN commits = 1 .. Len(commits) /\ Len(commits) \in Nat
  BY DEF IsHistory
<1>2. commits[i][1] \in Int /\ commits[i][2] \in FullSha /\ i \in Nat \ {0}
  BY <1>1
<1>3. QED BY <1>2 DEF RevisionOf, UseMetadata

\* A mapper with its five fields.
IsMapper(m) ==
    \E r, g, d, s, k : m = [byRevision |-> r, byGitSha |-> g, duplicateRevisions |-> d,
                            duplicateShas |-> s, skipped |-> k]

\* One more commit.
LEMMA FirstGrows ==
    ASSUME NEW commits, IsHistory(commits), NEW n \in 1 .. Len(commits),
           NEW m, IsMapper(m), HasFirst(m, commits, n - 1)
    PROVE  HasFirst(Grown(commits, m, n), commits, n) /\ IsMapper(Grown(commits, m, n))
<1> PICK r, g, d, s, k : m = [byRevision |-> r, byGitSha |-> g, duplicateRevisions |-> d,
                              duplicateShas |-> s, skipped |-> k]
  BY DEF IsMapper
<1> DEFINE rev == RevisionOf(commits, n)
           sha == commits[n][2]
           new == Grown(commits, m, n)
<1>1. /\ DOMAIN commits = 1 .. Len(commits) /\ Len(commits) \in Nat /\ n \in Nat /\ n - 1 \in Nat
      /\ n - 1 < n /\ \A j \in 1 .. n - 1 : j \in 1 .. n /\ j # n /\ j \in DOMAIN commits
      /\ \A j \in 1 .. n : j = n \/ j \in 1 .. n - 1
  BY DEF IsHistory
<1>2. rev \in Nat \ {0} /\ sha \in FullSha /\ d \subseteq Nat \ {0}
  BY <1>1, RevisionIsOne DEF HasFirst
<1>3. WellFormed(rev, sha)
  BY <1>2 DEF WellFormed
<1>4. sha \notin DOMAIN g
  <2>1. \A j \in 1 .. n - 1 : commits[j][2] # sha
    BY <1>1 DEF IsHistory
  <2>2. DOMAIN g \subseteq {commits[j][2] : j \in 1 .. n - 1}
    BY DEF HasFirst
  <2>3. QED BY <2>1, <2>2
<1>5. CASE rev \in DOMAIN r
  <2>1. new = [m EXCEPT !.duplicateRevisions = @ \cup {rev}]
    BY <1>3, <1>5 DEF Grown, RecordMapping
  <2>2. new = [byRevision |-> r, byGitSha |-> g, duplicateRevisions |-> d \cup {rev},
               duplicateShas |-> s, skipped |-> k]
    BY <2>1
  <2>3. \E j \in 1 .. n - 1 : RevisionOf(commits, j) = rev
    BY <1>5 DEF HasFirst
  <2>4. d \cup {rev} \subseteq Nat \ {0}
    BY <1>2
  <2> HIDE DEF new, rev
  <2>5. /\ DOMAIN r \subseteq {RevisionOf(commits, j) : j \in 1 .. n}
        /\ DOMAIN g \subseteq {commits[j][2] : j \in 1 .. n}
    BY <1>1 DEF HasFirst
  <2>6. ASSUME NEW j \in 1 .. n, \A i \in 1 .. j - 1 : RevisionOf(commits, i) # RevisionOf(commits, j)
        PROVE  commits[j][2] \in DOMAIN g /\ g[commits[j][2]] = RevisionOf(commits, j)
    <3>1. j # n
      BY <2>3, <2>6 DEF rev
    <3>2. j \in 1 .. n - 1
      BY <1>1, <3>1
    <3>3. QED BY <2>6, <3>2 DEF HasFirst
  <2>7. HasFirst(new, commits, n)
    BY <2>2, <2>4, <2>5, <2>6 DEF HasFirst
  <2>8. IsMapper(new)
    BY <2>2 DEF IsMapper
  <2>9. QED BY <2>7, <2>8 DEF new
<1>6. CASE rev \notin DOMAIN r
  <2> DEFINE ng == Extended(g, sha, rev)
             nr == Extended(r, rev, sha)
  <2>1. new = [m EXCEPT !.byGitSha = Extended(@, sha, rev), !.byRevision = Extended(@, rev, sha)]
    BY <1>3, <1>4, <1>6 DEF Grown, RecordMapping
  <2>2. new = [byRevision |-> nr, byGitSha |-> ng, duplicateRevisions |-> d, duplicateShas |-> s,
               skipped |-> k]
    BY <2>1
  <2>3. /\ DOMAIN nr = DOMAIN r \cup {rev} /\ DOMAIN ng = DOMAIN g \cup {sha}
        /\ ng[sha] = rev /\ \A x \in DOMAIN g : ng[x] = g[x]
    BY <1>4 DEF Extended
  <2> HIDE DEF new, nr, ng
  <2>4. /\ DOMAIN nr \subseteq {RevisionOf(commits, j) : j \in 1 .. n}
        /\ DOMAIN ng \subseteq {commits[j][2] : j \in 1 .. n}
    BY <1>1, <2>3 DEF HasFirst
  <2>5. ASSUME NEW j \in 1 .. n, \A i \in 1 .. j - 1 : RevisionOf(commits, i) # RevisionOf(commits, j)
        PROVE  commits[j][2] \in DOMAIN ng /\ ng[commits[j][2]] = RevisionOf(commits, j)
    <3>1. CASE j = n
      BY <2>3, <3>1
    <3>2. CASE j # n
      <4>1. j \in 1 .. n - 1
        BY <1>1, <3>2
      <4>2. commits[j][2] \in DOMAIN g /\ g[commits[j][2]] = RevisionOf(commits, j)
        BY <2>5, <4>1 DEF HasFirst
      <4>3. QED BY <2>3, <4>2
    <3>3. QED BY <3>1, <3>2
  <2>6. HasFirst(new, commits, n)
    BY <2>2, <2>4, <2>5 DEF HasFirst
  <2>7. IsMapper(new)
    BY <2>2 DEF IsMapper
  <2>8. QED BY <2>6, <2>7 DEF new
<1>7. QED BY <1>5, <1>6

\* What the whole map has.
LEMMA RecordedHasFirst ==
    ASSUME NEW commits, IsHistory(commits)
    PROVE  HasFirst(Recorded(commits), commits, Len(commits))
<1> DEFINE len == Len(commits)
<1>1. len \in Nat
  BY DEF IsHistory
<1>2. PICK after : /\ after[0] = EmptyMap
                   /\ \A n \in 1 .. len : after[n] = Grown(commits, after[n - 1], n)
                   /\ Recorded(commits) = after[len]
  BY <1>1, MapsOnTheWay
<1> DEFINE S == {n \in 0 .. len : HasFirst(after[n], commits, n) /\ IsMapper(after[n])}
<1>3. 0 \in S
  <2>1. HasFirst(EmptyMap, commits, 0)
    BY DEF HasFirst, EmptyMap, Nothing
  <2>2. IsMapper(EmptyMap)
    BY DEF EmptyMap, IsMapper
  <2>3. QED BY <1>1, <1>2, <2>1, <2>2
<1>4. ASSUME NEW n \in 0 .. len - 1, n \in S
      PROVE  n + 1 \in S
  <2>1. n + 1 \in 1 .. len /\ (n + 1) - 1 = n
    BY <1>1
  <2>2. PICK m : m = after[n]
    OBVIOUS
  <2>3. HasFirst(m, commits, (n + 1) - 1) /\ IsMapper(m)
    BY <1>4, <2>1, <2>2
  <2>4. HasFirst(Grown(commits, m, n + 1), commits, n + 1) /\ IsMapper(Grown(commits, m, n + 1))
    BY <2>1, <2>3, FirstGrows
  <2>5. after[n + 1] = Grown(commits, m, n + 1)
    BY <1>2, <2>1, <2>2
  <2>6. QED BY <2>1, <2>4, <2>5
<1> HIDE DEF S
<1>5. len \in S
  BY <1>1, <1>3, <1>4, UpTo
<1>6. QED BY <1>2, <1>5 DEF S

\* Every commit alone in its revision is found, and the revisions are numbers from 1 on.
LEMMA RecordedIsComplete ==
    ASSUME NEW commits, IsHistory(commits)
    PROVE  /\ DOMAIN Recorded(commits).byRevision \cup Recorded(commits).duplicateRevisions
                \subseteq Nat \ {0}
           /\ \A i \in DOMAIN commits :
                (\A j \in DOMAIN commits \ {i} : RevisionOf(commits, j) # RevisionOf(commits, i))
                  => FindSvnRevisionByGitCommit(Recorded(commits), commits[i][2])
                       = RevisionOf(commits, i)
<1> DEFINE m == Recorded(commits)
           len == Len(commits)
<1>1. len \in Nat /\ DOMAIN commits = 1 .. len
  BY DEF IsHistory
<1>2. HasFirst(m, commits, len)
  BY RecordedHasFirst
<1>3. \A i \in 1 .. len : RevisionOf(commits, i) \in Nat \ {0} /\ commits[i][2] \in FullSha
  BY <1>1, RevisionIsOne
<1> HIDE DEF m
<1>4. DOMAIN m.byRevision \cup m.duplicateRevisions \subseteq Nat \ {0}
  BY <1>2, <1>3 DEF HasFirst
<1>5. ASSUME NEW i \in 1 .. len,
             \A j \in DOMAIN commits \ {i} : RevisionOf(commits, j) # RevisionOf(commits, i)
      PROVE  FindSvnRevisionByGitCommit(m, commits[i][2]) = RevisionOf(commits, i)
  <2> DEFINE sha == commits[i][2]
             found == {x \in DOMAIN m.byGitSha : Begins(sha, x)}
  <2>1. \A k \in 1 .. i - 1 : k \in DOMAIN commits \ {i}
    BY <1>1
  <2>2. sha \in DOMAIN m.byGitSha /\ m.byGitSha[sha] = RevisionOf(commits, i)
    BY <1>2, <1>5, <2>1 DEF HasFirst
  <2>3. sha \in FullSha
    BY <1>3
  <2>4. \A x : Begins(sha, x) <=> x = sha
    <3>1. sha[2] \in Digits33 /\ sha[2] # NoRest
      BY <2>3, RevisionMapAssumption DEF FullSha
    <3>2. \A y : sha # <<y, NoRest>>
      BY <3>1
    <3> HIDE DEF sha
    <3>3. QED BY <3>2 DEF Begins
  <2>5. found = {sha}
    BY <2>2, <2>4
  <2> HIDE DEF found, sha
  <2>6. Cardinality(found) = 1 /\ (CHOOSE x \in found : TRUE) = sha
    BY <2>5, FS_Singleton
  <2>7. QED BY <2>2, <2>6 DEF FindSvnRevisionByGitCommit, found, sha
<1>6. QED BY <1>1, <1>4, <1>5 DEF m

-----------------------------------------------------------------------------
(* The authors *)

\* The lines of an authors file.
LEMMA LineFacts ==
    ASSUME NEW lines \in Seq(AuthorsLine)
    PROVE  /\ DOMAIN lines = 1 .. Len(lines) /\ Len(lines) \in Nat
           /\ \A i \in DOMAIN lines :
                /\ lines[i] = [user |-> lines[i].user, identity |-> lines[i].identity]
                /\ lines[i].user \in User
                /\ lines[i].identity \in {"valid", "invalid", "empty", "malformed"}
<1>1. DOMAIN lines = 1 .. Len(lines) /\ Len(lines) \in Nat
  OBVIOUS
<1>2. \A l \in AuthorsLine : /\ l = [user |-> l.user, identity |-> l.identity]
                             /\ l.user \in User
                             /\ l.identity \in {"valid", "invalid", "empty", "malformed"}
  BY DEF AuthorsLine, Identity
<1>3. \A i \in DOMAIN lines : lines[i] \in AuthorsLine
  BY <1>1
<1>4. QED BY <1>1, <1>2, <1>3

\* An author with a mapping has the identity of one of his lines.
LEMMA MappingOfALine ==
    ASSUME NEW lines \in Seq(AuthorsLine), NEW u \in DOMAIN Mappings(lines)
    PROVE  \E k \in DOMAIN lines : /\ IsMapping(lines[k]) /\ lines[k].user = u
                                   /\ Mappings(lines)[u] = lines[k].identity
<1> DEFINE I == {i \in 1 .. Len(lines) : lines[i].user = u /\ IsMapping(lines[i])}
<1>1. DOMAIN lines = 1 .. Len(lines) /\ Len(lines) \in Nat
  BY LineFacts
<1>2. I # {} /\ I \subseteq Nat
  BY <1>1 DEF Mappings
<1>3. Mappings(lines)[u] = lines[SelectInSeq(lines, LAMBDA l : l.user = u /\ IsMapping(l))].identity
  BY DEF Mappings
<1>4. SelectInSeq(lines, LAMBDA l : l.user = u /\ IsMapping(l)) = IF I # {} THEN Min(I) ELSE 0
  BY DEF SelectInSeq
<1> HIDE DEF I
<1>5. Min(I) \in I
  <2>1. \E i \in I : \A j \in I : i <= j
    BY <1>2, Least
  <2>2. QED BY <2>1 DEF Min
<1>6. QED BY <1>1, <1>2, <1>3, <1>4, <1>5 DEF I

\* Whoever has a mapping is in the map.
LEMMA LineHasMapping ==
    ASSUME NEW lines \in Seq(AuthorsLine)
    PROVE  \A u : u \in DOMAIN Mappings(lines)
                    <=> \E i \in DOMAIN lines : IsMapping(lines[i]) /\ lines[i].user = u
BY DEF Mappings

\* No author has two mappings.
Unique(lines) ==
    \A i, j \in DOMAIN lines :
        IsMapping(lines[i]) /\ IsMapping(lines[j]) /\ lines[i].user = lines[j].user => i = j

\* No author is reported to be mapped twice if and only if none is.
LEMMA NoDuplicates ==
    ASSUME NEW lines \in Seq(AuthorsLine)
    PROVE  Duplicates(lines) = {} <=> Unique(lines)
<1>1. ASSUME Unique(lines) PROVE Duplicates(lines) = {}
  <2>1. DOMAIN lines \subseteq Nat
    BY LineFacts
  <2>2. QED BY <1>1, <2>1 DEF Unique, Duplicates
<1>2. ASSUME Duplicates(lines) = {} PROVE Unique(lines)
  <2> SUFFICES ASSUME NEW i \in DOMAIN lines, NEW j \in DOMAIN lines, i # j,
                      IsMapping(lines[i]), IsMapping(lines[j]), lines[i].user = lines[j].user
               PROVE  FALSE
    BY DEF Unique
  <2>1. i \in Int /\ j \in Int /\ lines[i].user \in User
    BY LineFacts
  <2>2. i < j \/ j < i
    BY <2>1
  <2>3. lines[i].user \in Duplicates(lines)
    BY <2>1, <2>2 DEF Duplicates
  <2>4. QED BY <1>2, <2>3
<1>3. QED BY <1>1, <1>2

\* What loadAuthorsFile reports of a file it can read.
LEMMA ReportsAre ==
    ASSUME NEW f, f.readable, f.lines \in Seq(AuthorsLine)
    PROVE  LET loaded == LoadAuthorsFile(f)
           IN  /\ loaded.mappings = Mappings(f.lines)
               /\ "Duplicate" \in loaded.reports <=> ~ Unique(f.lines)
               /\ loaded.reports = {} <=>
                    /\ \A i \in DOMAIN f.lines : IsMapping(f.lines[i])
                    /\ Unique(f.lines)
                    /\ \A u \in DOMAIN Mappings(f.lines) : Mappings(f.lines)[u] = "valid"
<1> DEFINE mappings == Mappings(f.lines)
           reports == {code \in {"Malformed", "Duplicate", "InvalidEmail"} :
                   \/ code = "Malformed" /\ \E i \in DOMAIN f.lines : ~IsMapping(f.lines[i])
                   \/ code = "Duplicate" /\ Duplicates(f.lines) # {}
                   \/ code = "InvalidEmail" /\ \E u \in DOMAIN mappings : mappings[u] # "valid"}
<1>1. LoadAuthorsFile(f) = [mappings |-> mappings, reports |-> reports]
  BY DEF LoadAuthorsFile
<1>2. "Duplicate" \in reports <=> Duplicates(f.lines) # {}
  OBVIOUS
<1>3. "Malformed" \in reports <=> \E i \in DOMAIN f.lines : ~IsMapping(f.lines[i])
  OBVIOUS
<1>4. "InvalidEmail" \in reports <=> \E u \in DOMAIN mappings : mappings[u] # "valid"
  OBVIOUS
<1>5. reports = {} <=> /\ "Duplicate" \notin reports /\ "Malformed" \notin reports
                       /\ "InvalidEmail" \notin reports
  OBVIOUS
<1>6. Duplicates(f.lines) = {} <=> Unique(f.lines)
  BY NoDuplicates
<1> HIDE DEF mappings, reports
<1>7. /\ LoadAuthorsFile(f).mappings = mappings /\ LoadAuthorsFile(f).reports = reports
  BY <1>1
<1>8. QED BY <1>2, <1>3, <1>4, <1>5, <1>6, <1>7 DEF mappings

\* The check of the authors is right: it passes if and only if every author has one mapping,
\* a valid one, and nobody has two.
LEMMA AuthorsJudged ==
    ASSUME world \in World, world.reachable, world.authors # {}
    PROVE  ValidateCoverage(world.authorsFile, world.authors).ok <=> AuthorsCovered
<1> DEFINE f == world.authorsFile
           lines == f.lines
           loaded == LoadAuthorsFile(f)
<1>1. lines \in Seq(AuthorsLine) /\ f.readable \in BOOLEAN /\ world.authors \subseteq User
  BY ValidateAppAssumption
<1>2. ValidateCoverage(f, world.authors).ok <=>
         /\ \A u \in world.authors : IdentityOf(loaded.mappings, u) \notin {"empty", "invalid"}
         /\ "Duplicate" \notin loaded.reports
  BY DEF ValidateCoverage
<1>3. CASE ~ f.readable
  <2>1. loaded.mappings = [u \in {} |-> "empty"]
    BY <1>3 DEF LoadAuthorsFile
  <2>2. \A u : IdentityOf(loaded.mappings, u) = "empty"
    BY <2>1 DEF IdentityOf
  <2>3. QED BY <1>2, <1>3, <2>2 DEF AuthorsCovered
<1>4. CASE f.readable
  <2>1. loaded.mappings = Mappings(lines) /\ ("Duplicate" \in loaded.reports <=> ~ Unique(lines))
    BY <1>1, <1>4, ReportsAre
  <2> DEFINE m == Mappings(lines)
  <2>2. ASSUME NEW u \in world.authors, Unique(lines)
        PROVE  IdentityOf(m, u) \notin {"empty", "invalid"} <=>
                 \E i \in DOMAIN lines :
                   /\ lines[i] = [user |-> u, identity |-> "valid"]
                   /\ \A j \in DOMAIN lines : j # i => ~(lines[j].user = u /\ IsMapping(lines[j]))
    <3>1. CASE u \notin DOMAIN m
      <4>1. \A i \in DOMAIN lines : ~ (IsMapping(lines[i]) /\ lines[i].user = u)
        BY <1>1, <3>1, LineHasMapping
      <4>2. \A i \in DOMAIN lines : lines[i] # [user |-> u, identity |-> "valid"]
        BY <4>1 DEF IsMapping
      <4>3. QED BY <3>1, <4>2 DEF IdentityOf
    <3>2. CASE u \in DOMAIN m
      <4>1. PICK k \in DOMAIN lines : /\ IsMapping(lines[k]) /\ lines[k].user = u
                                      /\ m[u] = lines[k].identity
        BY <1>1, <3>2, MappingOfALine
      <4>2. \A j \in DOMAIN lines : lines[j].user = u /\ IsMapping(lines[j]) => j = k
        BY <2>2, <4>1 DEF Unique
      <4>3. /\ lines[k].identity \in {"valid", "invalid", "empty", "malformed"}
            /\ lines[k].identity # "malformed"
            /\ lines[k] = [user |-> u, identity |-> lines[k].identity]
        BY <1>1, <4>1, LineFacts DEF IsMapping
      <4>4. IdentityOf(m, u) = lines[k].identity
        BY <3>2, <4>1 DEF IdentityOf
      <4>5. \A i \in DOMAIN lines : lines[i] = [user |-> u, identity |-> "valid"] => i = k
        BY <4>2 DEF IsMapping
      <4> HIDE DEF m, lines
      <4>6. QED BY <4>1, <4>2, <4>3, <4>4, <4>5
    <3>3. QED BY <3>1, <3>2
  <2>3. AuthorsCovered <=>
          /\ Unique(lines)
          /\ \A u \in world.authors :
               \E i \in DOMAIN lines :
                 /\ lines[i] = [user |-> u, identity |-> "valid"]
                 /\ \A j \in DOMAIN lines : j # i => ~(lines[j].user = u /\ IsMapping(lines[j]))
    BY <1>4 DEF AuthorsCovered, Unique
  <2>4. QED BY <1>2, <2>1, <2>2, <2>3
<1>5. QED BY <1>1, <1>3, <1>4

\* validateAuthorsFile of ConfigValidator, on a file that covers the authors: it passes if
\* and only if every line is a good one.
LEMMA FileJudged ==
    ASSUME world \in World, AuthorsCovered
    PROVE  AuthorsFilePasses(world.authorsFile) <=>
             LET lines == world.authorsFile.lines
             IN  lines # <<>> /\ \A i \in DOMAIN lines : lines[i].identity = "valid"
<1> DEFINE f == world.authorsFile
           lines == f.lines
           m == Mappings(lines)
<1>1. lines \in Seq(AuthorsLine) /\ f.readable /\ Unique(lines)
  BY ValidateAppAssumption DEF AuthorsCovered, Unique
<1>2. AuthorsFilePasses(f) <=>
        /\ \A i \in DOMAIN lines : IsMapping(lines[i])
        /\ \A u \in DOMAIN m : m[u] = "valid"
        /\ DOMAIN m # {}
  BY <1>1, ReportsAre DEF AuthorsFilePasses
<1>3. ASSUME AuthorsFilePasses(f)
      PROVE  lines # <<>> /\ \A i \in DOMAIN lines : lines[i].identity = "valid"
  <2>1. PICK u \in DOMAIN m : TRUE
    BY <1>2, <1>3
  <2>2. \E i \in DOMAIN lines : TRUE
    BY <1>1, <2>1, LineHasMapping
  <2>3. lines # <<>>
    BY <2>2
  <2>4. ASSUME NEW i \in DOMAIN lines PROVE lines[i].identity = "valid"
    <3>1. IsMapping(lines[i]) /\ lines[i].user \in DOMAIN m
      BY <1>1, <1>2, <1>3, LineHasMapping
    <3>2. PICK k \in DOMAIN lines : /\ IsMapping(lines[k]) /\ lines[k].user = lines[i].user
                                    /\ m[lines[i].user] = lines[k].identity
      BY <1>1, <3>1, MappingOfALine
    <3>3. k = i
      BY <1>1, <3>1, <3>2 DEF Unique
    <3>4. QED BY <1>2, <1>3, <3>1, <3>2, <3>3
  <2>5. QED BY <2>3, <2>4
<1>4. ASSUME lines # <<>>, \A i \in DOMAIN lines : lines[i].identity = "valid"
      PROVE  AuthorsFilePasses(f)
  <2>1. \A i \in DOMAIN lines : IsMapping(lines[i])
    BY <1>4 DEF IsMapping
  <2>2. \A u \in DOMAIN m : m[u] = "valid"
    BY <1>1, <1>4, MappingOfALine
  <2>3. 1 \in DOMAIN lines
    BY <1>1, <1>4
  <2>4. DOMAIN m # {}
    <3>1. \E i \in DOMAIN lines : IsMapping(lines[i]) /\ lines[i].user = lines[1].user
      BY <2>1, <2>3
    <3>2. lines[1].user \in DOMAIN m
      BY <1>1, <3>1, LineHasMapping
    <3>3. QED BY <3>2
  <2>5. QED BY <1>2, <2>1, <2>2, <2>4
<1>5. QED BY <1>3, <1>4

\* A finite set as a sequence: each element once.
LEMMA SetAsSequence ==
    ASSUME NEW S, IsFiniteSet(S)
    PROVE  /\ SetToSeq(S) \in [1 .. Cardinality(S) -> S]
           /\ \A i, j \in 1 .. Cardinality(S) : SetToSeq(S)[i] = SetToSeq(S)[j] => i = j
           /\ \A x \in S : \E i \in 1 .. Cardinality(S) : SetToSeq(S)[i] = x
<1> DEFINE n == Cardinality(S)
<1>1. n \in Nat /\ ExistsBijection(1 .. n, S)
  BY FS_CardinalityType
<1>2. \E f \in [1 .. n -> S] : IsInjective(f)
  BY <1>1 DEF ExistsBijection, Bijection, Injection
<1>3. PICK f : f = SetToSeq(S)
  OBVIOUS
<1>4. f \in [1 .. n -> S] /\ IsInjective(f)
  BY <1>2, <1>3 DEF SetToSeq
<1>5. f \in Injection(1 .. n, S)
  BY <1>4 DEF Injection
<1>6. IsFiniteSet(1 .. n) /\ Cardinality(1 .. n) = n
  BY <1>1, FS_Interval
<1>7. f \in Surjection(1 .. n, S)
  BY <1>5, <1>6, FS_Injection
<1>8. \A x \in S : \E i \in 1 .. n : f[i] = x
  BY <1>7 DEF Surjection
<1>9. \A i, j \in 1 .. n : f[i] = f[j] => i = j
  BY <1>4 DEF IsInjective
<1>10. QED BY <1>3, <1>4, <1>8, <1>9

\* --auto-map-authors writes one line for every author.
LEMMA AutoMapped ==
    ASSUME NEW f, NEW authors, authors \subseteq User, IsFiniteSet(authors)
    PROVE  LET lines == AutoMapAuthors(f, authors)
           IN  /\ Range(lines) \subseteq AuthorsLine
               /\ {lines[i].user : i \in DOMAIN lines} = authors
               /\ Duplicates(lines) = {}
<1> DEFINE n == Cardinality(authors)
           s == SetToSeq(authors)
           m == LoadAuthorsFile(f).mappings
           lines == AutoMapAuthors(f, authors)
           Id(u) == IF IdentityOf(m, u) = "valid" THEN "valid" ELSE "invalid"
<1>1. /\ s \in [1 .. n -> authors] /\ \A i, j \in 1 .. n : s[i] = s[j] => i = j
      /\ \A x \in authors : \E i \in 1 .. n : s[i] = x
  BY SetAsSequence
<1>2. lines = [i \in 1 .. n |-> [user |-> s[i], identity |-> Id(s[i])]]
  BY DEF AutoMapAuthors
<1>3. \A u : Id(u) \in {"valid", "invalid"}
  OBVIOUS
<1>4. n \in Nat
  BY FS_CardinalityType
<1> HIDE DEF s, n, Id, lines
<1>5. DOMAIN lines = 1 .. n /\ \A i \in 1 .. n : lines[i].user = s[i] /\ lines[i] \in AuthorsLine
  BY <1>1, <1>2, <1>3 DEF AuthorsLine, Identity
<1>6. Range(lines) \subseteq AuthorsLine
  BY <1>5 DEF Range
<1>7. {lines[i].user : i \in DOMAIN lines} = authors
  BY <1>1, <1>5
<1>8. \A i, j \in 1 .. n : i < j => lines[i].user # lines[j].user
  BY <1>1, <1>4, <1>5
<1>9. Duplicates(lines) = {}
  BY <1>5, <1>8 DEF Duplicates
<1>10. QED BY <1>6, <1>7, <1>9 DEF lines

-----------------------------------------------------------------------------
(* The rules *)

\* A path has a target, or is ignored, if and only if a rule that compiles matches it.
LEMMA TargetIsFound ==
    ASSUME NEW rules, rules \in Seq(Range(rules)), NEW path
    PROVE  ResolveTarget(rules, path) = Unmapped <=>
             ~ \E i \in DOMAIN rules :
                 rules[i].pattern \notin BadPattern /\ MatchesPath(rules[i].pattern, path)
<1> DEFINE Fits(i) == rules[i].pattern \notin BadPattern /\ MatchesPath(rules[i].pattern, path)
           I == {i \in 1 .. Len(rules) : rules[i].max < 0 /\ Fits(i)}
           J == {i \in 1 .. Len(rules) : Fits(i)}
<1>1. DOMAIN rules = 1 .. Len(rules) /\ Len(rules) \in Nat
  OBVIOUS
<1>2. ResolvingRule(rules, path) =
        IF (IF I # {} THEN Min(I) ELSE 0) # NoRule THEN (IF I # {} THEN Min(I) ELSE 0)
        ELSE IF J # {} THEN Min(J) ELSE 0
  BY DEF ResolvingRule, FirstMatch, First, SelectInSeq
<1>3. \A S : S \subseteq Nat \ {0} /\ S # {} => Min(S) # 0
  <2> SUFFICES ASSUME NEW S, S \subseteq Nat \ {0}, S # {} PROVE Min(S) # 0
    OBVIOUS
  <2>1. \E i \in S : \A j \in S : i <= j
    BY Least
  <2>2. Min(S) \in S
    BY <2>1 DEF Min
  <2>3. QED BY <2>2
<1>4. I \subseteq Nat \ {0} /\ J \subseteq Nat \ {0} /\ I \subseteq J
  BY <1>1
<1>5. J = {} <=> ~ \E i \in DOMAIN rules : Fits(i)
  BY <1>1
<1> HIDE DEF I, J
<1>6. ResolvingRule(rules, path) = NoRule <=> J = {}
  BY <1>2, <1>3, <1>4 DEF NoRule
<1>7. ResolveTarget(rules, path) = Unmapped <=> ResolvingRule(rules, path) = NoRule
  <2>1. Ignored # Unmapped
    BY DEF Ignored, Unmapped
  <2>2. \A r, b, p : Mapped(r, b, p) # Unmapped
    <3>1. \A r, b, p : Mapped(r, b, p).kind = "mapped"
      BY DEF Mapped
    <3>2. Unmapped.kind # "mapped"
      BY DEF Unmapped
    <3>3. QED BY <3>1, <3>2
  <2>3. QED BY <2>1, <2>2 DEF ResolveTarget
<1>8. QED BY <1>5, <1>6, <1>7

\* The directories of a layout that was found whole all have a rule or not.
LEMMA CoverageJudged ==
    ASSUME world \in World
    PROVE  UnmappedDirs(Rules, DOMAIN world.tree) = {} <=> EverythingHasARule
<1>1. Rules \in Seq(Range(Rules))
  BY ValidateAppAssumption DEF Rules
<1>2. \A d \in DOMAIN world.tree :
        ResolveTarget(Rules, d) = Unmapped <=>
          ~ \E i \in DOMAIN Rules :
              Rules[i].pattern \notin BadPattern /\ MatchesPath(Rules[i].pattern, d)
  BY <1>1, TargetIsFound
<1>3. QED BY <1>2 DEF UnmappedDirs, EverythingHasARule

-----------------------------------------------------------------------------
(* Types *)

\* The phases as a set.
LEMMA PhaseNames == PhaseName = Range(Phases)
<1>1. \A i \in 1 .. 9 : i \in {1, 2, 3, 4, 5, 6, 7, 8, 9}
  OBVIOUS
<1>2. \A i \in 1 .. 9 : Phases[i] \in PhaseName
  BY <1>1, PhasesAre DEF PhaseName
<1>3. \A p \in PhaseName : \E i \in 1 .. 9 : Phases[i] = p
  <2>1. /\ 1 \in 1 .. 9 /\ 2 \in 1 .. 9 /\ 3 \in 1 .. 9 /\ 4 \in 1 .. 9 /\ 5 \in 1 .. 9
        /\ 6 \in 1 .. 9 /\ 7 \in 1 .. 9 /\ 8 \in 1 .. 9 /\ 9 \in 1 .. 9
    OBVIOUS
  <2>2. QED BY <2>1, PhasesAre DEF PhaseName
<1>4. QED BY <1>2, <1>3, PhasesType DEF Range

\* What the phase after another is, and a run's first phase.
LEMMA NextPhases ==
    /\ \A r, i : i \in 1 .. 9 => Upcoming(r, i) \in PhaseName
    /\ \A p \in Continuing : After(p) \in PhaseName
<1>1. \A r, i : i \in 1 .. 9 => Upcoming(r, i) \in PhaseName
  BY UpcomingFacts DEF ComesFrom
<1>2. \A p \in Continuing : After(p) \in PhaseName
  BY AfterFacts DEF ComesFrom, Continuing
<1>3. QED BY <1>1, <1>2

\* The calls that fail stay within the bound.
LEMMA FaultsBounded ==
    ASSUME faults \in 0 .. MaxFaults, NEW calls, calls \subseteq AnyCall,
           NEW down \in Faulty(calls), Failed(down)
    PROVE  faults' \in 0 .. MaxFaults
<1>1. down \in SUBSET AnyCall
  BY DEF Faulty
<1>2. Cardinality(down) \in Nat
  BY <1>1, CallsAreFinite, FS_Subset, FS_CardinalityType
<1>3. QED BY <1>2, ValidateAppAssumption DEF Faulty, Failed

\* A verdict is TRUE or FALSE.
LEMMA VerdictType ==
    ASSUME NEW ok, NEW reports, Verdict(ok, reports)
    PROVE  success' \in BOOLEAN /\ reported' \in BOOLEAN
BY DEF Verdict

States == {"absent", "earlier", "partial", "whole"}

\* A file that is written is in one of its four states.
LEMMA WrittenType ==
    ASSUME NEW before \in States, NEW down
    PROVE  Written(before, down) \in States
<1>1. CASE "open" \in down
  BY <1>1 DEF Written
<1>2. CASE "open" \notin down /\ "write" \in down
  BY <1>2 DEF Written, States
<1>3. CASE down \cap {"open", "write"} = {}
  BY <1>3 DEF Written, States
<1>4. QED BY <1>1, <1>2, <1>3

\* The types of the variables; mappings are only pending while verify() is at it.
TypeInv ==
    /\ world \in World /\ request \in Request(world)
    /\ pc \in PhaseName \cup {"idle", "authors-outcome", "content", "push-all", "push-tags",
                              "report", "done"}
    /\ exit \in {0, 1, 2, Running}
    /\ success \in BOOLEAN /\ reported \in BOOLEAN /\ overlooked \in BOOLEAN
    /\ contentOk \in BOOLEAN /\ auditSays \in BOOLEAN
    /\ faults \in 0 .. MaxFaults
    /\ layout \subseteq DOMAIN world.tree
    /\ \A m \in pending : m.dir \in layout
    /\ pc # "content" => pending = {}
    /\ DOMAIN mapper.byRevision \cup mapper.duplicateRevisions \subseteq Nat \ {0}
    /\ Range(generated) \subseteq AuthorsLine
    /\ file \in [Artifact -> States]
    /\ remote \in [branches : Reached, tags : Reached]

\* The types of the proof are those of TypeOK.
LEMMA Typed == TypeInv => TypeOK
BY PhaseNames DEF TypeInv, TypeOK, States

\* The types before the first run.
LEMMA InitTypes == Init => TypeInv
<1> SUFFICES ASSUME Init PROVE TypeInv
  OBVIOUS
<1>1. Request(world) # {}
  BY ValidateAppAssumption DEF Init
<1>2. request \in Request(world)
  BY <1>1 DEF Init
<1>3. DOMAIN mapper.byRevision = {} /\ mapper.duplicateRevisions = {}
  BY DEF Init, EmptyMap, Nothing
<1>4. Range(generated) = {}
  BY DEF Init, Range
<1>5. file \in [Artifact -> States]
  BY DEF Init, States
<1>6. remote \in [branches : Reached, tags : Reached]
  BY DEF Init, Reached
<1>7. faults \in 0 .. MaxFaults
  BY ValidateAppAssumption DEF Init
<1>8. QED BY <1>2, <1>3, <1>4, <1>5, <1>6, <1>7 DEF Init, TypeInv, Running

\* A new run.
LEMMA StartTypes == ASSUME TypeInv, Start PROVE TypeInv'
<1>1. request' \in Request(world) /\ world' = world
  BY DEF Start
<1>2. exit' \in {0, 2, Running}
  BY DEF Start, Usage
<1>3. pc' \in PhaseName \cup {"done"}
  BY NextPhases DEF Start
<1>4. DOMAIN mapper'.byRevision = {} /\ mapper'.duplicateRevisions = {}
  BY DEF Start, EmptyMap, Nothing
<1>5. Range(generated') = {}
  BY DEF Start, Range
<1>6. file' \in [Artifact -> States]
  BY DEF Start, States
<1>7. faults' \in 0 .. MaxFaults
  BY ValidateAppAssumption DEF Start
<1>8. /\ success' \in BOOLEAN /\ reported' \in BOOLEAN /\ overlooked' \in BOOLEAN
      /\ contentOk' \in BOOLEAN /\ auditSays' = auditSays /\ remote' = remote
      /\ layout' = {} /\ pending' = {}
  BY DEF Start
<1>9. QED BY <1>1, <1>2, <1>3, <1>4, <1>5, <1>6, <1>7, <1>8 DEF TypeInv

\* The types after --auto-map-authors: the lines it writes are of authors.
LEMMA AutoMapTypes == ASSUME TypeInv, AutoMap PROVE TypeInv'
<1>1. PICK down \in Faulty({"log", "open", "write"}) :
        /\ Failed(down)
        /\ \E ok, reports : Verdict(ok, reports)
        /\ IF Authors(down) = {} THEN UNCHANGED <<file, generated>>
           ELSE /\ file' = [file EXCEPT !["authors-generated.txt"] = Written(@, down)]
                /\ generated' = AutoMapAuthors(world.authorsFile, Authors(down))
  BY DEF AutoMap
<1>2. /\ pc' = After("auto-map") /\ UNCHANGED <<world, request, exit>>
      /\ UNCHANGED <<layout, overlooked, pending, contentOk, mapper, auditSays, remote>>
      /\ pc = "auto-map"
  BY DEF AutoMap, Continue
<1>3. pc' \in PhaseName
  BY <1>2, NextPhases DEF Continuing
<1>4. faults' \in 0 .. MaxFaults
  BY <1>1, FaultsBounded DEF AnyCall, TypeInv
<1>5. success' \in BOOLEAN /\ reported' \in BOOLEAN
  BY <1>1, VerdictType
<1>6. Range(generated') \subseteq AuthorsLine
  <2>1. Authors(down) \subseteq User /\ IsFiniteSet(Authors(down))
    BY ValidateAppAssumption, FS_EmptySet DEF Authors, TypeInv
  <2>2. Range(AutoMapAuthors(world.authorsFile, Authors(down))) \subseteq AuthorsLine
    BY <2>1, AutoMapped
  <2>3. QED BY <1>1, <2>2 DEF TypeInv
<1>7. file' \in [Artifact -> States]
  <2>1. file \in [Artifact -> States] /\ "authors-generated.txt" \in Artifact
    BY DEF Artifact, TypeInv
  <2>2. Written(file["authors-generated.txt"], down) \in States
    BY <2>1, WrittenType
  <2>3. QED BY <1>1, <2>1, <2>2
<1>8. QED BY <1>2, <1>3, <1>4, <1>5, <1>6, <1>7 DEF TypeInv

\* The phases that only judge.
LEMMA JudgingTypes ==
    ASSUME TypeInv, ValidateAuthors \/ DryRun \/ SvnReport
    PROVE  TypeInv'
<1>1. /\ UNCHANGED <<world, request, exit, run, file, auditSays, remote>>
      /\ \E ok, reports : Verdict(ok, reports)
      /\ pc # "content"
  BY DEF ValidateAuthors, DryRun, SvnReport, Continue
<1>2. pc' \in PhaseName \cup {"authors-outcome"}
  BY NextPhases DEF ValidateAuthors, DryRun, SvnReport, Continue, Continuing
<1>3. faults' \in 0 .. MaxFaults
  <2>1. CASE ValidateAuthors
    BY <2>1, FaultsBounded DEF AnyCall, TypeInv, ValidateAuthors
  <2>2. CASE DryRun
    BY <2>2 DEF DryRun, TypeInv
  <2>3. CASE SvnReport
    BY <2>3, FaultsBounded DEF AnyCall, TypeInv, SvnReport
  <2>4. QED BY <2>1, <2>2, <2>3
<1>4. success' \in BOOLEAN /\ reported' \in BOOLEAN
  BY <1>1, VerdictType
<1>5. QED BY <1>1, <1>2, <1>3, <1>4 DEF TypeInv, run

\* What discoverLayout finds are directories there are.
LEMMA DiscoverTypes ==
    ASSUME world' = world, NEW down, Discover(down)
    PROVE  layout' \subseteq DOMAIN world.tree /\ overlooked' \in BOOLEAN
BY DEF Discover, Discovered

\* The mappings of directories.
LEMMA MappingsAreOfDirs ==
    ASSUME NEW rules, NEW dirs
    PROVE  /\ \A m \in MapWithRules(rules, dirs) : m.dir \in dirs
           /\ \A m \in StandardLayoutMappings(dirs) : m.dir \in dirs
BY DEF MapWithRules, StandardLayoutMappings, Mapping

\* The types after the coverage of the rules.
LEMMA CoverageTypes == ASSUME TypeInv, Coverage PROVE TypeInv'
<1>1. PICK down \in Faulty({"root", "branches", "tags", "count"}) :
        /\ Failed(down)
        /\ \E ok, reports : Verdict(ok, reports)
        /\ UNCHANGED <<layout, overlooked>> \/ Discover(down)
  BY DEF Coverage
<1>2. /\ pc' = After("coverage")
      /\ UNCHANGED <<world, request, exit, pending, contentOk, mapper, generated, file, auditSays,
                     remote>>
      /\ pc = "coverage"
  BY DEF Coverage, Continue
<1>3. pc' \in PhaseName
  BY <1>2, NextPhases DEF Continuing
<1>4. faults' \in 0 .. MaxFaults
  BY <1>1, FaultsBounded DEF AnyCall, TypeInv
<1>5. success' \in BOOLEAN /\ reported' \in BOOLEAN
  BY <1>1, VerdictType
<1>6. layout' \subseteq DOMAIN world.tree /\ overlooked' \in BOOLEAN
  BY <1>1, <1>2, DiscoverTypes DEF TypeInv
<1>7. QED BY <1>2, <1>3, <1>4, <1>5, <1>6 DEF TypeInv

\* The types after the outcome of a check of the authors alone.
LEMMA AuthorsOutcomeTypes == ASSUME TypeInv, AuthorsOutcome PROVE TypeInv'
<1>1. PICK trail, report \in Faulty({"open", "write"}) :
        /\ faults' = faults + Cardinality(trail) + Cardinality(report)
        /\ faults' <= MaxFaults
        /\ auditSays' = IF "open" \in trail THEN auditSays ELSE success
        /\ file' = [file EXCEPT
                      !["audit.log"] = Written(@, trail),
                      !["error_report.txt"] = IF success THEN @ ELSE Written(@, report)]
  BY DEF AuthorsOutcome
<1>2. /\ pc = "authors-outcome" /\ pc' = "done"
      /\ exit' \in {0, 1}
      /\ UNCHANGED <<world, request, success, reported, run, remote>>
  BY DEF AuthorsOutcome, Exits
<1>3. faults' \in 0 .. MaxFaults
  <2>1. trail \in SUBSET AnyCall /\ report \in SUBSET AnyCall
    BY DEF Faulty, AnyCall
  <2>2. Cardinality(trail) \in Nat /\ Cardinality(report) \in Nat
    BY <2>1, CallsAreFinite, FS_Subset, FS_CardinalityType
  <2>3. QED BY <1>1, <2>2, ValidateAppAssumption DEF TypeInv
<1>4. auditSays' \in BOOLEAN
  BY <1>1 DEF TypeInv
<1>5. file' \in [Artifact -> States]
  <2>1. file \in [Artifact -> States] /\ "audit.log" \in Artifact /\ "error_report.txt" \in Artifact
    BY DEF Artifact, TypeInv
  <2>2. /\ Written(file["audit.log"], trail) \in States
        /\ Written(file["error_report.txt"], report) \in States
    BY <2>1, WrittenType
  <2>3. (IF success THEN file["error_report.txt"] ELSE Written(file["error_report.txt"], report))
          \in States
    BY <2>1, <2>2
  <2>4. QED BY <1>1, <2>1, <2>2, <2>3
<1>6. QED BY <1>2, <1>3, <1>4, <1>5 DEF TypeInv, run

\* The types after the traceability map: it has revisions from 1 on.
LEMMA TraceabilityTypes == ASSUME TypeInv, GenerateTraceability PROVE TypeInv'
<1>1. PICK down \in Faulty({"log", "json", "db"}) :
        /\ Failed(down)
        /\ \E ok, reports : Verdict(ok, reports)
        /\ \/ UNCHANGED <<mapper, file>>
           \/ /\ mapper' = Recorded(world.commits)
              /\ \E json \in Left("json", down, {file["svn_to_git_mapping.json"], "partial"}),
                    db \in Left("db", down, {file["traceability.db"], "absent", "partial"}) :
                   file' = [file EXCEPT !["svn_to_git_mapping.json"] = json,
                                        !["traceability.db"] = db]
  BY DEF GenerateTraceability
<1>2. /\ pc = "traceability" /\ pc' = After("traceability")
      /\ UNCHANGED <<world, request, exit, layout, overlooked, pending, contentOk, generated,
                     auditSays, remote>>
  BY DEF GenerateTraceability, Continue
<1>3. pc' \in PhaseName
  BY <1>2, NextPhases DEF Continuing
<1>4. faults' \in 0 .. MaxFaults
  BY <1>1, FaultsBounded DEF AnyCall, TypeInv
<1>5. success' \in BOOLEAN /\ reported' \in BOOLEAN
  BY <1>1, VerdictType
<1>6. DOMAIN mapper'.byRevision \cup mapper'.duplicateRevisions \subseteq Nat \ {0}
  <2>1. IsHistory(world.commits)
    BY ValidateAppAssumption DEF IsHistory, TypeInv
  <2>2. QED BY <1>1, <2>1, RecordedIsComplete DEF TypeInv
<1>7. file' \in [Artifact -> States]
  <2>1. /\ file \in [Artifact -> States] /\ "svn_to_git_mapping.json" \in Artifact
        /\ "traceability.db" \in Artifact
    BY DEF Artifact, TypeInv
  <2>2. \A call, S : S \subseteq States => Left(call, down, S) \subseteq States
    BY DEF Left, States
  <2>3. /\ {file["svn_to_git_mapping.json"], "partial"} \subseteq States
        /\ {file["traceability.db"], "absent", "partial"} \subseteq States
    BY <2>1 DEF States
  <2>4. QED BY <1>1, <2>1, <2>2, <2>3
<1>8. QED BY <1>2, <1>3, <1>4, <1>5, <1>6, <1>7 DEF TypeInv

\* The types after the layout is mapped: what is pending is of the layout.
LEMMA VerifyContentTypes == ASSUME TypeInv, VerifyContent PROVE TypeInv'
<1>1. PICK down \in Faulty({"root", "branches", "tags", "rev-parse"}) :
        /\ Failed(down) /\ Discover(down)
        /\ LET mappings == IF request.rules THEN MapWithRules(Rules, layout')
                           ELSE StandardLayoutMappings(layout')
               unmapped == request.rules /\ UnmappedDirs(Rules, layout') # {}
           IN  \/ /\ Verdict(FALSE, TRUE) /\ pc' = After("verify")
                  /\ UNCHANGED <<exit, pending, contentOk>>
               \/ /\ Verdict(~unmapped, unmapped) /\ pc' = "done" /\ exit' = 2
                  /\ UNCHANGED <<pending, contentOk>>
               \/ /\ Verdict(~unmapped, unmapped \/ ~Git("rev-parse", down))
                  /\ contentOk' = Git("rev-parse", down)
                  /\ pending' = IF ~contentOk' THEN {}
                                ELSE IF request.rules THEN Selected(mappings) ELSE mappings
                  /\ pc' = "content" /\ UNCHANGED exit
  BY DEF VerifyContent
<1>2. /\ pc = "verify"
      /\ UNCHANGED <<world, request, mapper, generated, file, auditSays, remote>>
  BY DEF VerifyContent
<1>3. After("verify") \in PhaseName
  BY NextPhases DEF Continuing
<1>4. faults' \in 0 .. MaxFaults
  BY <1>1, FaultsBounded DEF AnyCall, TypeInv
<1>5. success' \in BOOLEAN /\ reported' \in BOOLEAN
  BY <1>1, VerdictType
<1>6. layout' \subseteq DOMAIN world.tree /\ overlooked' \in BOOLEAN
  BY <1>1, <1>2, DiscoverTypes
<1>7. pending = {}
  BY <1>2 DEF TypeInv
<1>8. \A m \in pending' : m.dir \in layout'
  <2>1. \A S : Selected(S) \subseteq S
    BY DEF Selected
  <2>2. /\ \A m \in MapWithRules(Rules, layout') : m.dir \in layout'
        /\ \A m \in StandardLayoutMappings(layout') : m.dir \in layout'
    BY MappingsAreOfDirs
  <2>3. QED BY <1>1, <1>7, <2>1, <2>2
<1>9. contentOk' \in BOOLEAN
  BY <1>1 DEF TypeInv, Git
<1>10. /\ exit' \in {0, 1, 2, Running}
       /\ pc' \in PhaseName \cup {"done", "content"}
       /\ pc' # "content" => pending' = {}
  BY <1>1, <1>3, <1>7 DEF TypeInv
<1>11. QED BY <1>2, <1>4, <1>5, <1>6, <1>8, <1>9, <1>10 DEF TypeInv

\* The types after one ref.
LEMMA VerifyRefTypes == ASSUME TypeInv, VerifyRef PROVE TypeInv'
<1>1. PICK down \in Faulty({"list", "ls-tree", "rev-parse", "hash"}) :
        /\ Failed(down)
        /\ \E ok : contentOk' = (contentOk /\ ok) /\ reported' = (reported \/ ~ok)
  BY DEF VerifyRef
<1>2. /\ pc = "content" /\ pending' \subseteq pending
      /\ UNCHANGED <<world, request, pc, success, exit, layout, overlooked, mapper, generated, file,
                     auditSays, remote>>
  BY DEF VerifyRef
<1>3. faults' \in 0 .. MaxFaults
  BY <1>1, FaultsBounded DEF AnyCall, TypeInv
<1>4. contentOk' \in BOOLEAN /\ reported' \in BOOLEAN
  BY <1>1
<1>5. QED BY <1>2, <1>3, <1>4 DEF TypeInv

\* The types after the content report.
LEMMA ContentReportTypes == ASSUME TypeInv, ContentReport PROVE TypeInv'
<1>1. PICK down \in Faulty({"open", "write"}) :
        /\ Failed(down) /\ Verdict(contentOk, down # {})
        /\ file' = [file EXCEPT !["content_validation_report.txt"] = Written(@, down)]
  BY DEF ContentReport
<1>2. /\ pc' = After("verify") /\ pending = {}
      /\ UNCHANGED <<world, request, exit, run, auditSays, remote>>
  BY DEF ContentReport, Continue
<1>3. pc' \in PhaseName
  BY <1>2, NextPhases DEF Continuing
<1>4. faults' \in 0 .. MaxFaults
  BY <1>1, FaultsBounded DEF AnyCall, TypeInv
<1>5. success' \in BOOLEAN /\ reported' \in BOOLEAN
  BY <1>1, VerdictType
<1>6. file' \in [Artifact -> States]
  <2>1. file \in [Artifact -> States] /\ "content_validation_report.txt" \in Artifact
    BY DEF Artifact, TypeInv
  <2>2. Written(file["content_validation_report.txt"], down) \in States
    BY <2>1, WrittenType
  <2>3. QED BY <1>1, <2>1, <2>2
<1>7. QED BY <1>2, <1>3, <1>4, <1>5, <1>6 DEF TypeInv, run

\* The types after the guard of the push and its two halves.
LEMMA PushTypes ==
    ASSUME TypeInv, ValidateIntegrity \/ PushAll \/ PushTags
    PROVE  TypeInv'
<1>1. /\ pc' \in {"push-all", "push-tags", "outcome"} /\ pc # "content"
      /\ UNCHANGED <<world, request, exit, run, file, auditSays>>
      /\ \E ok, reports : Verdict(ok, reports)
  BY DEF ValidateIntegrity, PushAll, PushTags
<1>2. faults' \in 0 .. MaxFaults
  <2>1. CASE ValidateIntegrity
    BY <2>1, FaultsBounded DEF AnyCall, TypeInv, ValidateIntegrity
  <2>2. CASE PushAll
    BY <2>2, FaultsBounded DEF AnyCall, TypeInv, PushAll
  <2>3. CASE PushTags
    BY <2>3, FaultsBounded DEF AnyCall, TypeInv, PushTags
  <2>4. QED BY <2>1, <2>2, <2>3
<1>3. success' \in BOOLEAN /\ reported' \in BOOLEAN
  BY <1>1, VerdictType
<1>4. remote' \in [branches : Reached, tags : Reached]
  <2>1. remote \in [branches : Reached, tags : Reached]
    BY DEF TypeInv
  <2>2. \A before \in Reached : \A down : Pushed(before, down) \subseteq Reached
    BY DEF Pushed, Reached
  <2>3. CASE ValidateIntegrity
    BY <2>1, <2>3 DEF ValidateIntegrity
  <2>4. CASE PushAll
    BY <2>1, <2>2, <2>4 DEF PushAll
  <2>5. CASE PushTags
    BY <2>1, <2>2, <2>5 DEF PushTags
  <2>6. QED BY <2>3, <2>4, <2>5
<1>5. "push-all" # "content" /\ "push-tags" # "content" /\ "outcome" \in PhaseName
  BY DEF PhaseName
<1>6. QED BY <1>1, <1>2, <1>3, <1>4, <1>5 DEF TypeInv, run

\* The types after the trail, the error report and a run that is given up.
LEMMA RecordTypes ==
    ASSUME TypeInv, Outcome \/ Report \/ LacksGitRepo
    PROVE  TypeInv'
<1>1. CASE Outcome
  <2>1. PICK down \in Faulty({"open", "write"}) :
          /\ Failed(down)
          /\ auditSays' = IF "open" \in down THEN auditSays ELSE success
          /\ file' = [file EXCEPT !["audit.log"] = Written(@, down)]
          /\ success' = (success /\ TrailWritten(down))
    BY <1>1 DEF Outcome
  <2>2. /\ pc = "outcome" /\ pc' = "report"
        /\ UNCHANGED <<world, request, exit, reported, run, remote>>
    BY <1>1 DEF Outcome
  <2>3. faults' \in 0 .. MaxFaults
    BY <2>1, FaultsBounded DEF AnyCall, TypeInv
  <2>4. success' \in BOOLEAN /\ auditSays' \in BOOLEAN
    BY <2>1 DEF TypeInv
  <2>5. file' \in [Artifact -> States]
    <3>1. file \in [Artifact -> States] /\ "audit.log" \in Artifact
      BY DEF Artifact, TypeInv
    <3>2. Written(file["audit.log"], down) \in States
      BY <3>1, WrittenType
    <3>3. QED BY <2>1, <3>1, <3>2
  <2>6. QED BY <2>2, <2>3, <2>4, <2>5 DEF TypeInv, run
<1>2. CASE Report
  <2>1. PICK down \in Faulty({"open", "write"}) :
          /\ Failed(down)
          /\ file' = [file EXCEPT !["error_report.txt"] = IF reported THEN Written(@, down) ELSE @]
    BY <1>2 DEF Report
  <2>2. /\ pc = "report" /\ pc' = "done" /\ exit' \in {0, 1}
        /\ UNCHANGED <<world, request, success, reported, run, auditSays, remote>>
    BY <1>2 DEF Report, Exits
  <2>3. faults' \in 0 .. MaxFaults
    BY <2>1, FaultsBounded DEF AnyCall, TypeInv
  <2>4. file' \in [Artifact -> States]
    <3>1. file \in [Artifact -> States] /\ "error_report.txt" \in Artifact
      BY DEF Artifact, TypeInv
    <3>2. Written(file["error_report.txt"], down) \in States
      BY <3>1, WrittenType
    <3>3. (IF reported THEN Written(file["error_report.txt"], down) ELSE file["error_report.txt"])
            \in States
      BY <3>1, <3>2
    <3>4. QED BY <2>1, <3>1, <3>3
  <2>5. QED BY <2>2, <2>3, <2>4 DEF TypeInv, run
<1>3. CASE LacksGitRepo
  <2>1. /\ pc \in {"traceability", "verify", "push"} /\ pc' = "done" /\ exit' = 2
        /\ UNCHANGED <<world, request, success, reported, run, remote, faults, file, auditSays>>
    BY <1>3 DEF LacksGitRepo, Exits
  <2>2. QED BY <2>1 DEF TypeInv, run
<1>4. QED BY <1>1, <1>2, <1>3

\* Every step keeps the types.
LEMMA StepTypes == ASSUME TypeInv, [Next]_vars PROVE TypeInv'
<1>1. CASE Next
  BY <1>1, StartTypes, AutoMapTypes, JudgingTypes, AuthorsOutcomeTypes, CoverageTypes,
     TraceabilityTypes, VerifyContentTypes, VerifyRefTypes, ContentReportTypes, PushTypes,
     RecordTypes DEF Next
<1>2. CASE UNCHANGED vars
  BY <1>2 DEF vars, run, TypeInv
<1>3. QED BY <1>1, <1>2

\* The types of svn2git-validate, for any worlds, command lines and failures: what it finds
\* are directories there are, what it maps revisions, what it writes authors.
THEOREM TypeCorrect == Spec => []TypeOK
<1>1. TypeInv /\ [Next]_vars => TypeInv'
  BY StepTypes
<1>2. TypeInv => TypeOK
  BY Typed
<1>3. QED BY InitTypes, <1>1, <1>2, PTL DEF Spec

-----------------------------------------------------------------------------
(* The verdict *)

\* Where a run is: the number of the phase.
Place(p) ==
    CASE p = "auto-map"                         -> 1
      [] p = "authors"                          -> 2
      [] p \in {"dry-run", "authors-outcome"}   -> 3
      [] p = "svn-report"                       -> 4
      [] p = "coverage"                         -> 5
      [] p = "traceability"                     -> 6
      [] p \in {"verify", "content"}            -> 7
      [] p \in {"push", "push-all", "push-tags"} -> 8
      [] p \in {"outcome", "report"}            -> 9

\* The number of a phase, and of the places of a run within one.
LEMMA Places ==
    /\ \A i \in 1 .. 9 : Place(Phases[i]) = i
    /\ Place("auto-map") = 1 /\ Place("authors") = 2 /\ Place("dry-run") = 3
    /\ Place("authors-outcome") = 3 /\ Place("svn-report") = 4 /\ Place("coverage") = 5
    /\ Place("traceability") = 6 /\ Place("verify") = 7 /\ Place("content") = 7
    /\ Place("push") = 8 /\ Place("push-all") = 8 /\ Place("push-tags") = 8
    /\ Place("outcome") = 9 /\ Place("report") = 9
<1>1. /\ Place("auto-map") = 1 /\ Place("authors") = 2 /\ Place("dry-run") = 3
      /\ Place("authors-outcome") = 3 /\ Place("svn-report") = 4 /\ Place("coverage") = 5
  BY DEF Place
<1>2. /\ Place("traceability") = 6 /\ Place("verify") = 7 /\ Place("content") = 7
      /\ Place("push") = 8 /\ Place("push-all") = 8 /\ Place("push-tags") = 8
  BY DEF Place
<1>3. Place("outcome") = 9 /\ Place("report") = 9
  BY DEF Place
<1>4. \A i \in 1 .. 9 : i \in {1, 2, 3, 4, 5, 6, 7, 8, 9}
  OBVIOUS
<1>5. \A i \in 1 .. 9 : Place(Phases[i]) = i
  BY <1>1, <1>2, <1>3, <1>4, PhasesAre
<1>6. QED BY <1>1, <1>2, <1>3, <1>5

\* Only phases that were not asked for are skipped.
LEMMA UpcomingSkips ==
    ASSUME NEW r, NEW i \in 1 .. 9
    PROVE  \E n \in i .. 9 : /\ Upcoming(r, i) = Phases[n] /\ Wants(r, Phases[n])
                             /\ \A k \in i .. n - 1 : ~ Wants(r, Phases[k])
<1> DEFINE S == {j \in i .. Len(Phases) : Wants(r, Phases[j])}
<1>1. S \subseteq i .. 9 /\ S \subseteq Nat
  BY PhasesType
<1>2. 9 \in S
  BY PhasesType DEF Wants
<1>3. PICK n \in S : \A k \in S : n <= k
  <2> HIDE DEF S
  <2>1. QED BY <1>1, <1>2, Least
<1>4. Min(S) = n
  <2> HIDE DEF S
  <2>1. Min(S) \in S /\ \A k \in S : Min(S) <= k
    BY <1>3 DEF Min
  <2>2. PICK m : m = Min(S)
    OBVIOUS
  <2>3. m \in Nat /\ n \in Nat /\ m <= n /\ n <= m
    BY <1>1, <1>3, <2>1, <2>2
  <2>4. m = n
    BY <2>3
  <2>5. QED BY <2>2, <2>4
<1>5. Upcoming(r, i) = Phases[n]
  BY <1>4 DEF Upcoming
<1>6. n \in i .. 9 /\ Wants(r, Phases[n])
  BY <1>1, <1>3
<1>7. ASSUME NEW k \in i .. n - 1 PROVE ~ Wants(r, Phases[k])
  <2>1. k \in i .. Len(Phases) /\ ~ (n <= k)
    BY <1>6, PhasesType
  <2>2. k \notin S
    BY <1>3, <2>1
  <2>3. QED BY <2>1, <2>2
<1>8. QED BY <1>5, <1>6, <1>7

\* Only phases that were not asked for are skipped after a phase.
LEMMA AfterSkips ==
    ASSUME NEW i \in 1 .. 8
    PROVE  \E n \in i + 1 .. 9 : /\ After(Phases[i]) = Phases[n] /\ Wants(request, Phases[n])
                                 /\ \A k \in i + 1 .. n - 1 : ~ Wants(request, Phases[k])
<1>1. \A j \in 1 .. 9 : Phases[j] = Phases[i] => j = i
  <2>1. i \in 1 .. 9
    OBVIOUS
  <2>2. QED BY <2>1, Places
<1>2. i \in DOMAIN Phases /\ DOMAIN Phases = 1 .. 9
  BY PhasesType
<1>3. (CHOOSE j \in DOMAIN Phases : Phases[j] = Phases[i]) = i
  BY <1>1, <1>2
<1>4. After(Phases[i]) = Upcoming(request, 1 + i)
  BY <1>3 DEF After
<1>5. 1 + i \in 1 .. 9 /\ 1 + i = i + 1
  OBVIOUS
<1>6. QED BY <1>4, <1>5, UpcomingSkips

\* What a phase that succeeded has made sure of.
Met(p) ==
    /\ p = "auto-map" => /\ world.reachable /\ world.authors # {}
                         /\ file["authors-generated.txt"] = "whole"
                         /\ {generated[i].user : i \in DOMAIN generated} = world.authors
                         /\ Duplicates(generated) = {}
    /\ p = "authors" => AuthorsCovered
    /\ p = "dry-run" => /\ AuthorsFilePasses(world.authorsFile) /\ ValidRules(world.rules)
                        /\ request.orchestration => world.yaml = "good"
    /\ p = "svn-report" => world.reachable /\ world.revisions > 0 /\ world.authors # {}
    /\ p = "coverage" => CoverageComplete
    /\ p = "traceability" => Traced
    /\ p = "verify" => SampleSame
    /\ p = "push" => Intact /\ remote = [branches |-> "all", tags |-> "all"]

\* What must be so in the world for a phase to succeed if no call fails.
Possible(p) ==
    /\ p = "auto-map" => world.reachable /\ world.authors # {}
    /\ p = "authors" => AuthorsCovered
    /\ p = "dry-run" => /\ AuthorsFilePasses(world.authorsFile) /\ ValidRules(world.rules)
                        /\ request.orchestration => world.yaml = "good"
    /\ p = "svn-report" => world.reachable /\ world.revisions > 0 /\ world.authors # {}
    /\ p = "coverage" => CoverageComplete
    /\ p = "traceability" => world.usable /\ world.commits # <<>>
    /\ p = "verify" => ContentSame
    /\ p = "push" => world.usable /\ Intact

\* A run that has succeeded so far has made sure of all phases before the n-th, and one that
\* has failed without a failing call was asked for something that is not so.
Passed(n) ==
    success /\ ~ overlooked =>
      \A i \in 1 .. 8 : i < n /\ Wants(request, Phases[i]) => Met(Phases[i])
Blamed ==
    ~ success /\ faults = 0 =>
      \E i \in 1 .. 8 : /\ Wants(request, Phases[i]) /\ ~ Possible(Phases[i])
                        /\ request.authorsOnly => i <= 2

\* A ref that was compared.
Sampled(m) ==
    /\ m.ref \in DOMAIN world.refs
    /\ \A f \in DOMAIN world.tree[m.dir] : Kept(m, f)
    /\ LET size == Cardinality(DOMAIN world.tree[m.dir])
       IN  Cardinality({f \in DOMAIN world.tree[m.dir] : Same(m, f)}) >=
             IF request.samples \in 1 .. size THEN request.samples ELSE size

\* verify(), between two refs.
Comparing ==
    /\ success /\ ~ overlooked /\ contentOk =>
         /\ world.reachable /\ world.usable /\ DOMAIN world.tree # {}
         /\ request.rules => ValidRules(world.rules) /\ EverythingHasARule
         /\ pending \subseteq Expected
         /\ \A m \in Expected \ pending : Sampled(m)
    /\ faults = 0 /\ ContentSame => contentOk /\ pending \subseteq Expected

\* How a run comes to where it is.
Route ==
    /\ request.authorsOnly => Place(pc) <= 2 \/ pc = "authors-outcome"
    /\ pc = "authors-outcome" => request.authorsOnly
    /\ pc \in PhaseName => Wants(request, pc)
    /\ pc = "content" => request.verify /\ Comparing
    /\ pc \in Pushing => request.push /\ Intact /\ world.usable
    /\ pc = "push-tags" => remote.branches = "all"

\* The inductive invariant of VerdictExact.
JudgedInv ==
    /\ TypeInv
    /\ remote.branches = "all" => world.usable
    /\ pc \notin {"idle", "done"} => Passed(Place(pc)) /\ Blamed /\ Route
    /\ Ended /\ exit # 2 => /\ success <=> exit = 0
                            /\ Passed(IF request.authorsOnly THEN 3 ELSE 9) /\ Blamed

\* The world and the request stand while a run goes on.
LEMMA WorldStands ==
    ASSUME world' = world, request' = request
    PROVE  /\ Expected' = Expected /\ (ContentSame' <=> ContentSame)
           /\ (EverythingHasARule' <=> EverythingHasARule) /\ (Intact' <=> Intact)
           /\ (Usage(request)' = Usage(request))
           /\ \A p : Possible(p)' <=> Possible(p)
           /\ \A m : Sampled(m)' <=> Sampled(m)
<1>1. Rules' = Rules
  BY DEF Rules
<1>2. Expected' = Expected
  BY <1>1 DEF Expected, Selected
<1>3. \A m, f : (Kept(m, f)' <=> Kept(m, f)) /\ (Same(m, f)' <=> Same(m, f))
  BY DEF Kept, Same
<1>4. EverythingHasARule' <=> EverythingHasARule
  BY <1>1 DEF EverythingHasARule
<1>5. ContentSame' <=> ContentSame
  BY <1>2, <1>3, <1>4 DEF ContentSame, Comparable
<1>6. (AuthorsCovered' <=> AuthorsCovered) /\ (Intact' <=> Intact)
  BY DEF AuthorsCovered, Intact
<1>7. CoverageComplete' <=> CoverageComplete
  BY <1>4 DEF CoverageComplete
<1>8. \A p : Possible(p)' <=> Possible(p)
  BY <1>5, <1>6, <1>7 DEF Possible
<1>9. \A m : Sampled(m)' <=> Sampled(m)
  <2> TAKE m
  <2>1. {f \in DOMAIN world.tree[m.dir] : Same(m, f)}' = {f \in DOMAIN world.tree[m.dir] : Same(m, f)}
    BY <1>3
  <2>2. QED BY <1>3, <2>1 DEF Sampled
<1>10. QED BY <1>2, <1>4, <1>5, <1>6, <1>8, <1>9 DEF Usage, NeedsSvnUrl

\* What a phase has made sure of stands while later phases go on.
LEMMA MetStands ==
    ASSUME world' = world, request' = request, NEW p,
           p = "auto-map" => /\ generated' = generated
                             /\ file'["authors-generated.txt"] = file["authors-generated.txt"],
           p = "traceability" =>
             /\ mapper' = mapper
             /\ file'["svn_to_git_mapping.json"] = file["svn_to_git_mapping.json"]
             /\ file'["traceability.db"] = file["traceability.db"],
           p = "push" => remote' = remote
    PROVE  Met(p)' <=> Met(p)
<1>1. /\ Expected' = Expected /\ (EverythingHasARule' <=> EverythingHasARule)
      /\ (Intact' <=> Intact) /\ \A q : Possible(q)' <=> Possible(q)
      /\ \A m : Sampled(m)' <=> Sampled(m)
  BY WorldStands
<1>2. \A m, f : (Kept(m, f)' <=> Kept(m, f)) /\ (Same(m, f)' <=> Same(m, f))
  BY DEF Kept, Same
<1>3. CASE p = "auto-map"
  BY <1>3 DEF Met
<1>4. CASE p = "authors"
  <2>1. AuthorsCovered' <=> AuthorsCovered
    BY DEF AuthorsCovered
  <2>2. QED BY <1>4, <2>1 DEF Met
<1>5. CASE p = "dry-run"
  BY <1>5 DEF Met
<1>6. CASE p = "svn-report"
  BY <1>6 DEF Met
<1>7. CASE p = "coverage"
  <2>1. CoverageComplete' <=> CoverageComplete
    BY <1>1 DEF CoverageComplete
  <2>2. QED BY <1>7, <2>1 DEF Met
<1>8. CASE p = "traceability"
  <2>1. mapper' = mapper
    BY <1>8
  <2>2. MapComplete' <=> MapComplete
    BY <2>1 DEF MapComplete
  <2>3. /\ file'["svn_to_git_mapping.json"] = file["svn_to_git_mapping.json"]
        /\ file'["traceability.db"] = file["traceability.db"]
    BY <1>8
  <2>4. PartlyEmbedded' <=> PartlyEmbedded
    BY DEF PartlyEmbedded
  <2>5. Traced' <=> Traced
    BY <2>2, <2>3, <2>4 DEF Traced
  <2>6. QED BY <1>8, <2>5 DEF Met
<1>9. CASE p = "verify"
  <2>1. Comparable' <=> Comparable
    BY <1>1, <1>2 DEF Comparable
  <2>2. \A m : {f \in DOMAIN world.tree[m.dir] : Same(m, f)}' =
                 {f \in DOMAIN world.tree[m.dir] : Same(m, f)}
    BY <1>2
  <2>3. SampleSame' <=> SampleSame
    BY <1>1, <2>1, <2>2 DEF SampleSame
  <2>4. QED BY <1>9, <2>3 DEF Met
<1>10. CASE p = "push"
  BY <1>1, <1>10 DEF Met
<1>11. CASE p \notin PhaseName \ {"outcome"}
  BY <1>11 DEF Met, PhaseName
<1>12. QED BY <1>3, <1>4, <1>5, <1>6, <1>7, <1>8, <1>9, <1>10, <1>11 DEF PhaseName

\* A step of phase i leaves the work of the others alone ...
Apart(i) ==
    /\ i # 1 => /\ generated' = generated
                /\ file'["authors-generated.txt"] = file["authors-generated.txt"]
    /\ i # 6 => /\ mapper' = mapper
                /\ file'["svn_to_git_mapping.json"] = file["svn_to_git_mapping.json"]
                /\ file'["traceability.db"] = file["traceability.db"]

\* ... and takes nothing back.
Onward ==
    /\ world' = world /\ request' = request
    /\ faults' >= faults
    /\ overlooked => overlooked'
    /\ success' => success

\* A step of phase i: the run has passed what it had passed, and phase i if it is through;
\* or it is to blame.
LEMMA PhasePassed ==
    ASSUME JudgedInv, TypeInv', NEW i \in 1 .. 8, Place(pc) = i, pc \notin {"idle", "done"},
           Onward, Apart(i),
           Wants(request, Phases[i]), request.authorsOnly => i <= 2,
           success /\ ~ success' /\ faults' = 0 => ~ Possible(Phases[i]),
           NEW n \in i .. 9, \A k \in i + 1 .. n - 1 : ~ Wants(request, Phases[k]),
           n > i /\ success' /\ ~ overlooked' => Met(Phases[i])'
    PROVE  Passed(n)' /\ Blamed'
<1>1. Passed(i) /\ Blamed
  BY DEF JudgedInv
<1>2. /\ world' = world /\ request' = request /\ faults \in Nat /\ faults' \in Nat
      /\ success \in BOOLEAN /\ success' \in BOOLEAN /\ faults' >= faults
      /\ overlooked \in BOOLEAN /\ overlooked' \in BOOLEAN
      /\ (overlooked => overlooked') /\ (success' => success)
  BY ValidateAppAssumption DEF TypeInv, Onward, JudgedInv
<1>3. Passed(n)'
  <2> SUFFICES ASSUME success', ~ overlooked', NEW j \in 1 .. 8, j < n, Wants(request', Phases[j])
               PROVE  Met(Phases[j])'
    BY DEF Passed
  <2>1. CASE j = i
    BY <2>1
  <2>2. CASE j > i
    BY <1>2, <2>2
  <2>3. CASE j < i
    <3>1. Met(Phases[j])
      BY <1>1, <1>2, <2>3 DEF Passed
    <3>2. j \in 1 .. 7 /\ j \in 1 .. 9
      BY <2>3
    <3>3. /\ Phases[j] = "auto-map" => j = 1
          /\ Phases[j] = "traceability" => j = 6
          /\ Phases[j] = "push" => j = 8
      BY <3>2, Places
    <3>4. Phases[j] = "auto-map" =>
            /\ generated' = generated
            /\ file'["authors-generated.txt"] = file["authors-generated.txt"]
      BY <2>3, <3>3 DEF Apart
    <3>5. Phases[j] = "traceability" =>
            /\ mapper' = mapper
            /\ file'["svn_to_git_mapping.json"] = file["svn_to_git_mapping.json"]
            /\ file'["traceability.db"] = file["traceability.db"]
      BY <2>3, <3>3 DEF Apart
    <3>6. Phases[j] # "push"
      BY <3>2, <3>3
    <3>7. Met(Phases[j])' <=> Met(Phases[j])
      BY <1>2, <3>4, <3>5, <3>6, MetStands
    <3>8. QED BY <3>1, <3>7
  <2>4. QED BY <2>1, <2>2, <2>3
<1>4. Blamed'
  <2>1. \A p : Possible(p)' <=> Possible(p)
    BY <1>2, WorldStands
  <2> SUFFICES ASSUME ~ success', faults' = 0
               PROVE  \E j \in 1 .. 8 : /\ Wants(request', Phases[j]) /\ ~ Possible(Phases[j])'
                                        /\ request'.authorsOnly => j <= 2
    BY DEF Blamed
  <2>2. CASE success
    <3>1. ~ Possible(Phases[i])
      BY <2>2
    <3>2. QED BY <1>2, <2>1, <3>1
  <2>3. CASE ~ success
    <3>1. faults = 0
      BY <1>2
    <3>2. QED BY <1>1, <1>2, <2>1, <2>3, <3>1 DEF Blamed
  <2>4. QED BY <2>2, <2>3
<1>5. QED BY <1>3, <1>4

\* A phase that leads to the next one asked for.
LEMMA PhaseContinues ==
    ASSUME JudgedInv, TypeInv', NEW i \in 1 .. 7, Place(pc) = i, pc \notin {"idle", "done"},
           pc' = After(Phases[i]), Onward, Apart(i), remote' = remote,
           Wants(request, Phases[i]), request.authorsOnly => i = 1,
           success' /\ ~ overlooked' => Met(Phases[i])',
           success /\ ~ success' /\ faults' = 0 => ~ Possible(Phases[i])
    PROVE  JudgedInv'
<1>1. i \in 1 .. 8 /\ i \in 1 .. 9
  OBVIOUS
<1>2. PICK n \in i + 1 .. 9 : /\ pc' = Phases[n] /\ Wants(request, Phases[n])
                              /\ \A k \in i + 1 .. n - 1 : ~ Wants(request, Phases[k])
  BY <1>1, AfterSkips
<1>3. Passed(n)' /\ Blamed'
  BY <1>1, <1>2, PhasePassed
<1>4. n \in 1 .. 9
  BY <1>2
<1>5. Place(pc') = n /\ pc' \in PhaseName
  BY <1>2, <1>4, Places, PhaseNames, PhasesType DEF Range
<1>6. pc' \notin {"idle", "done", "content", "authors-outcome"} \cup Pushing
  BY <1>5 DEF PhaseName, Pushing
<1>7. request' = request /\ world' = world
  BY DEF Onward
<1>8. request.authorsOnly => n <= 2
  <2> SUFFICES ASSUME request.authorsOnly, n > 2 PROVE FALSE
    BY <1>4
  <2>1. i = 1 /\ 2 \in i + 1 .. n - 1
    BY <1>4
  <2>2. Wants(request, Phases[2])
    BY PhasesAre DEF Wants
  <2>3. QED BY <1>2, <2>1, <2>2
<1>9. Route'
  BY <1>2, <1>5, <1>6, <1>7, <1>8 DEF Route, Pushing
<1>10. Passed(Place(pc))'
  BY <1>3, <1>5 DEF Passed
<1>11. remote'.branches = "all" => world'.usable
  BY <1>7 DEF JudgedInv
<1>12. QED BY <1>3, <1>6, <1>9, <1>10, <1>11 DEF JudgedInv, Ended

\* No call has failed if none is counted.
LEMMA NothingFailed ==
    ASSUME TypeInv, NEW calls, calls \subseteq AnyCall, NEW down \in Faulty(calls), Failed(down)
    PROVE  /\ faults' \in Nat /\ faults' >= faults
           /\ faults' = 0 => down = {} /\ faults = 0
<1>1. faults \in Nat /\ faults >= 0
  BY ValidateAppAssumption DEF TypeInv
<1>2. /\ faults' \in Nat /\ faults' >= faults
      /\ down # {} => faults' > 0
  BY <1>1, FailedFacts
<1>3. QED BY <1>1, <1>2

\* Where a run is when it is in one of the phases of main.
LEMMA InPhase ==
    ASSUME JudgedInv, NEW i \in 1 .. 9, pc = Phases[i]
    PROVE  /\ Place(pc) = i /\ pc \notin {"idle", "done"} /\ TypeInv
           /\ Wants(request, Phases[i])
           /\ request.authorsOnly => i <= 2
<1>1. Place(pc) = i
  BY Places
<1>2. pc \in PhaseName
  BY PhaseNames, PhasesType DEF Range
<1>3. pc \notin {"idle", "done", "authors-outcome"}
  BY <1>2 DEF PhaseName
<1>4. Route
  BY <1>3 DEF JudgedInv
<1>5. QED BY <1>1, <1>2, <1>3, <1>4 DEF Route, JudgedInv

\* --auto-map-authors writes a line for every author, or fails.
LEMMA AutoMapJudged == ASSUME JudgedInv, TypeInv', AutoMap PROVE JudgedInv'
<1>1. PICK down \in Faulty({"log", "open", "write"}) :
        /\ Failed(down)
        /\ \E reports : Verdict(Authors(down) # {} /\ down \cap {"open", "write"} = {}, reports)
        /\ IF Authors(down) = {} THEN UNCHANGED <<file, generated>>
           ELSE /\ file' = [file EXCEPT !["authors-generated.txt"] = Written(@, down)]
                /\ generated' = AutoMapAuthors(world.authorsFile, Authors(down))
  BY DEF AutoMap
<1>2. /\ pc = "auto-map" /\ pc' = After("auto-map") /\ world' = world /\ request' = request
      /\ overlooked' = overlooked /\ mapper' = mapper /\ remote' = remote
  BY DEF AutoMap, Continue
<1>3. /\ Place(pc) = 1 /\ pc \notin {"idle", "done"} /\ TypeInv /\ Wants(request, Phases[1])
      /\ pc = Phases[1]
  BY <1>2, PhasesAre, InPhase
<1>4. success' <=> success /\ Authors(down) # {} /\ down \cap {"open", "write"} = {}
  BY <1>1, <1>3 DEF Verdict, TypeInv
<1>5. faults' \in Nat /\ faults' >= faults /\ (faults' = 0 => down = {} /\ faults = 0)
  BY <1>1, <1>3, NothingFailed DEF AnyCall
<1>6. Authors(down) # {} => world.reachable /\ Authors(down) = world.authors
  BY DEF Authors, Svn
<1>7. ASSUME success'
      PROVE  Met("auto-map")'
  <2>1. Authors(down) # {} /\ down \cap {"open", "write"} = {}
    BY <1>4, <1>7
  <2>2. Written(file["authors-generated.txt"], down) = "whole"
    BY <2>1 DEF Written
  <2>3. file'["authors-generated.txt"] = "whole"
    BY <1>1, <1>3, <2>1, <2>2 DEF TypeInv, Artifact
  <2>4. generated' = AutoMapAuthors(world.authorsFile, world.authors)
    BY <1>1, <1>6, <2>1
  <2>5. world.authors \subseteq User /\ IsFiniteSet(world.authors)
    BY <1>3, ValidateAppAssumption DEF TypeInv
  <2>6. /\ {generated'[i].user : i \in DOMAIN generated'} = world.authors
        /\ Duplicates(generated') = {}
    BY <2>4, <2>5, AutoMapped
  <2>7. QED BY <1>2, <1>6, <2>1, <2>3, <2>6 DEF Met
<1>8. success /\ ~ success' /\ faults' = 0 => ~ Possible("auto-map")
  <2> SUFFICES ASSUME success, ~ success', faults' = 0 PROVE ~ Possible("auto-map")
    OBVIOUS
  <2>1. down = {} /\ Authors(down) = {}
    BY <1>4, <1>5
  <2>2. world.reachable => world.authors = {}
    BY <2>1 DEF Authors, Svn
  <2>3. QED BY <2>2 DEF Possible
<1>9. Onward
  BY <1>2, <1>4, <1>5 DEF Onward
<1>10. Apart(1)
  <2>1. /\ file'["svn_to_git_mapping.json"] = file["svn_to_git_mapping.json"]
        /\ file'["traceability.db"] = file["traceability.db"]
    BY <1>1, <1>3 DEF TypeInv, Artifact
  <2>2. QED BY <1>2, <2>1 DEF Apart
<1>11. (success' /\ ~ overlooked' => Met(Phases[1])')
        /\ (success /\ ~ success' /\ faults' = 0 => ~ Possible(Phases[1]))
  BY <1>7, <1>8, PhasesAre
<1>12. QED BY <1>2, <1>3, <1>9, <1>10, <1>11, PhaseContinues

\* The check of the authors succeeds if and only if all are covered.
LEMMA ValidateAuthorsJudged == ASSUME JudgedInv, TypeInv', ValidateAuthors PROVE JudgedInv'
<1>1. PICK down \in Faulty({"log"}) :
        /\ Failed(down)
        /\ \E reports :
             Verdict(ValidateCoverage(world.authorsFile, Authors(down)).ok, reports)
  BY DEF ValidateAuthors
<1>2. /\ pc = "authors" /\ UNCHANGED <<world, request, run, file, remote>>
      /\ IF request.authorsOnly THEN pc' = "authors-outcome" ELSE pc' = After("authors")
  BY DEF ValidateAuthors
<1>3. /\ Place(pc) = 2 /\ pc \notin {"idle", "done"} /\ TypeInv /\ Wants(request, Phases[2])
      /\ pc = Phases[2]
  BY <1>2, PhasesAre, InPhase
<1> DEFINE ok == ValidateCoverage(world.authorsFile, Authors(down)).ok
<1>4. success' <=> success /\ ok
  BY <1>1, <1>3 DEF Verdict, TypeInv
<1>5. faults' \in Nat /\ faults' >= faults /\ (faults' = 0 => down = {} /\ faults = 0)
  BY <1>1, <1>3, NothingFailed DEF AnyCall
<1>6. ok => AuthorsCovered
  <2> SUFFICES ASSUME ok PROVE AuthorsCovered
    OBVIOUS
  <2>1. Authors(down) # {}
    BY DEF ValidateCoverage
  <2>2. world.reachable /\ Authors(down) = world.authors
    BY <2>1 DEF Authors, Svn
  <2>3. QED BY <1>3, <2>1, <2>2, AuthorsJudged DEF TypeInv
<1>7. down = {} /\ AuthorsCovered => ok
  <2> SUFFICES ASSUME down = {}, AuthorsCovered PROVE ok
    OBVIOUS
  <2>1. world.reachable /\ world.authors # {}
    BY DEF AuthorsCovered
  <2>2. Authors(down) = world.authors
    BY <2>1 DEF Authors, Svn
  <2>3. QED BY <1>3, <2>1, <2>2, AuthorsJudged DEF TypeInv
<1>8. AuthorsCovered' <=> AuthorsCovered
  BY <1>2 DEF AuthorsCovered
<1> HIDE DEF ok
<1>9. Met("authors")' <=> AuthorsCovered'
  BY DEF Met
<1>10. Possible("authors") <=> AuthorsCovered
  BY DEF Possible
<1>11. (success' /\ ~ overlooked' => Met(Phases[2])')
        /\ (success /\ ~ success' /\ faults' = 0 => ~ Possible(Phases[2]))
  BY <1>4, <1>5, <1>6, <1>7, <1>8, <1>9, <1>10, PhasesAre
<1>12. Onward /\ Apart(2) /\ remote' = remote
  BY <1>2, <1>4, <1>5 DEF Onward, Apart, run
<1>13. CASE ~ request.authorsOnly
  <2>1. pc' = After(Phases[2])
    BY <1>2, <1>3, <1>13
  <2>2. QED BY <1>3, <1>11, <1>12, <1>13, <2>1, PhaseContinues
<1>14. CASE request.authorsOnly
  <2>1. 3 \in 2 + 1 .. 9 /\ \A k \in 2 + 1 .. 3 - 1 : ~ Wants(request, Phases[k])
    OBVIOUS
  <2>2. Passed(3)' /\ Blamed'
    BY <1>3, <1>11, <1>12, <2>1, PhasePassed
  <2>3. pc' = "authors-outcome" /\ Place(pc') = 3
    BY <1>2, <1>14, Places
  <2>4. Route'
    BY <1>2, <1>14, <2>3 DEF Route, PhaseName, Pushing
  <2>5. Passed(Place(pc))'
    BY <2>2, <2>3 DEF Passed
  <2>6. remote'.branches = "all" => world'.usable
    BY <1>2 DEF JudgedInv
  <2>7. QED BY <2>2, <2>3, <2>4, <2>5, <2>6 DEF JudgedInv, Ended
<1>15. QED BY <1>13, <1>14

\* The dry run succeeds if and only if the configuration is good.
LEMMA DryRunJudged == ASSUME JudgedInv, TypeInv', DryRun PROVE JudgedInv'
<1> DEFINE yamlOk == ~ request.orchestration \/ world.yaml = "good"
           ok == AuthorsFilePasses(world.authorsFile) /\ ValidRules(world.rules) /\ yamlOk
<1>1. \E reports : Verdict(ok, reports)
  BY DEF DryRun
<1>2. /\ pc = "dry-run" /\ pc' = After("dry-run")
      /\ UNCHANGED <<world, request, faults, run, file, remote>>
  BY DEF DryRun, Continue
<1>3. /\ Place(pc) = 3 /\ pc \notin {"idle", "done"} /\ TypeInv /\ Wants(request, Phases[3])
      /\ pc = Phases[3] /\ ~ request.authorsOnly
  BY <1>2, PhasesAre, InPhase
<1>4. success' <=> success /\ ok
  BY <1>1, <1>3 DEF Verdict, TypeInv
<1>5. Met("dry-run")' <=> ok
  BY <1>2 DEF Met
<1>6. Possible("dry-run") <=> ok
  BY DEF Possible
<1> HIDE DEF ok
<1>7. (success' /\ ~ overlooked' => Met(Phases[3])')
        /\ (success /\ ~ success' /\ faults' = 0 => ~ Possible(Phases[3]))
  BY <1>4, <1>5, <1>6, PhasesAre
<1>8. faults \in Nat
  BY <1>3, ValidateAppAssumption DEF TypeInv
<1>9. Onward /\ Apart(3) /\ remote' = remote
  BY <1>2, <1>4, <1>8 DEF Onward, Apart, run
<1>10. QED BY <1>2, <1>3, <1>7, <1>9, PhaseContinues

\* The report on the Subversion side needs its revisions and authors.
LEMMA SvnReportJudged == ASSUME JudgedInv, TypeInv', SvnReport PROVE JudgedInv'
<1> DEFINE ok(down) == (Svn("info", down) /\ Svn("log", down))
                         /\ world.revisions > 0 /\ world.authors # {}
<1>1. PICK down \in Faulty({"info", "log", "count", "size"}) :
        Failed(down) /\ \E reports : Verdict(ok(down), reports)
  BY DEF SvnReport
<1>2. /\ pc = "svn-report" /\ pc' = After("svn-report")
      /\ UNCHANGED <<world, request, run, file, remote>>
  BY DEF SvnReport, Continue
<1>3. /\ Place(pc) = 4 /\ pc \notin {"idle", "done"} /\ TypeInv /\ Wants(request, Phases[4])
      /\ pc = Phases[4] /\ ~ request.authorsOnly
  BY <1>2, PhasesAre, InPhase
<1>4. success' <=> success /\ ok(down)
  BY <1>1, <1>3 DEF Verdict, TypeInv
<1>5. faults' \in Nat /\ faults' >= faults /\ (faults' = 0 => down = {} /\ faults = 0)
  BY <1>1, <1>3, NothingFailed DEF AnyCall
<1>6. ok(down) => Met("svn-report")'
  BY <1>2 DEF Met, Svn
<1>7. down = {} /\ Possible("svn-report") => ok(down)
  BY DEF Possible, Svn
<1> HIDE DEF ok
<1>8. (success' /\ ~ overlooked' => Met(Phases[4])')
        /\ (success /\ ~ success' /\ faults' = 0 => ~ Possible(Phases[4]))
  BY <1>4, <1>5, <1>6, <1>7, PhasesAre
<1>9. Onward /\ Apart(4) /\ remote' = remote
  BY <1>2, <1>4, <1>5 DEF Onward, Apart, run
<1>10. QED BY <1>2, <1>3, <1>8, <1>9, PhaseContinues

\* What the listings of a layout amount to.
LEMMA Discovery ==
    ASSUME NEW down, Discover(down)
    PROVE  /\ layout' # {} => world.reachable
           /\ ~ overlooked' => ~ overlooked /\ layout' \in {{}, DOMAIN world.tree}
           /\ down = {} /\ world.reachable => layout' = DOMAIN world.tree
BY DEF Discover, Discovered, Svn

\* The coverage of the rules.
LEMMA CoverageStepJudged == ASSUME JudgedInv, TypeInv', Coverage PROVE JudgedInv'
<1>1. PICK down \in Faulty({"root", "branches", "tags", "count"}) :
        /\ Failed(down)
        /\ IF ~ValidRules(world.rules) THEN Verdict(FALSE, TRUE) /\ UNCHANGED <<layout, overlooked>>
           ELSE /\ Discover(down)
                /\ LET unmapped == UnmappedDirs(Rules, layout')
                   IN  IF layout' = {} THEN Verdict(FALSE, TRUE)
                       ELSE Verdict(unmapped = {}, unmapped # {} \/ "count" \in down)
  BY DEF Coverage
<1>2. /\ pc = "coverage" /\ pc' = After("coverage")
      /\ UNCHANGED <<world, request, generated, mapper, file, remote>>
  BY DEF Coverage, Continue
<1>3. /\ Place(pc) = 5 /\ pc \notin {"idle", "done"} /\ TypeInv /\ Wants(request, Phases[5])
      /\ pc = Phases[5] /\ ~ request.authorsOnly
  BY <1>2, PhasesAre, InPhase
<1> DEFINE ok == /\ ValidRules(world.rules) /\ layout' # {} /\ UnmappedDirs(Rules, layout') = {}
<1>4. success' <=> success /\ ok
  BY <1>1, <1>3 DEF Verdict, TypeInv
<1>5. faults' \in Nat /\ faults' >= faults /\ (faults' = 0 => down = {} /\ faults = 0)
  BY <1>1, <1>3, NothingFailed DEF AnyCall
<1>6. UnmappedDirs(Rules, DOMAIN world.tree) = {} <=> EverythingHasARule
  BY <1>3, CoverageJudged DEF TypeInv
<1>7. EverythingHasARule' <=> EverythingHasARule
  BY <1>2, WorldStands
<1>8. ok /\ ~ overlooked' => CoverageComplete'
  <2> SUFFICES ASSUME ok, ~ overlooked' PROVE CoverageComplete'
    OBVIOUS
  <2>1. Discover(down)
    BY <1>1
  <2>2. world.reachable /\ layout' = DOMAIN world.tree
    BY <2>1, Discovery
  <2>3. QED BY <1>2, <1>6, <1>7, <2>2 DEF CoverageComplete
<1>9. down = {} /\ CoverageComplete => ok
  <2> SUFFICES ASSUME down = {}, CoverageComplete PROVE ok
    OBVIOUS
  <2>1. Discover(down)
    BY <1>1 DEF CoverageComplete
  <2>2. layout' = DOMAIN world.tree
    BY <2>1, Discovery DEF CoverageComplete
  <2>3. QED BY <1>6, <2>2 DEF CoverageComplete
<1> HIDE DEF ok
<1>10. overlooked => overlooked'
  BY <1>1, Discovery
<1>11. (Met("coverage")' <=> CoverageComplete') /\ (Possible("coverage") <=> CoverageComplete)
  BY DEF Met, Possible
<1>12. (success' /\ ~ overlooked' => Met(Phases[5])')
        /\ (success /\ ~ success' /\ faults' = 0 => ~ Possible(Phases[5]))
  BY <1>4, <1>5, <1>8, <1>9, <1>11, PhasesAre
<1>13. Onward /\ Apart(5) /\ remote' = remote
  BY <1>2, <1>4, <1>5, <1>10 DEF Onward, Apart
<1>14. QED BY <1>2, <1>3, <1>12, <1>13, PhaseContinues

\* What the map of a history says of a commit, if all commits carry metadata or none does.
LEMMA MapIsComplete ==
    ASSUME NEW commits, IsHistory(commits), NEW m, m = Recorded(commits), NEW i \in DOMAIN commits
    PROVE  LET real == commits[i][1]
               others == {j \in DOMAIN commits \ {i} : commits[j][1] = real}
               found == FindSvnRevisionByGitCommit(m, commits[i][2])
           IN  \/ \E j, k \in DOMAIN commits : commits[j][1] > 0 /\ ~(commits[k][1] > 0)
               \/ IF \E j \in DOMAIN commits : commits[j][1] > 0
                  THEN /\ real > 0 /\ others = {} => found = real
                       /\ ~(real > 0) => found = NoRevision
                  ELSE found = i
<1>1. (\A j \in DOMAIN commits \ {i} : RevisionOf(commits, j) # RevisionOf(commits, i))
        => FindSvnRevisionByGitCommit(m, commits[i][2]) = RevisionOf(commits, i)
  BY RecordedIsComplete
<1>2. CASE UseMetadata(commits)
  <2>1. \A j \in DOMAIN commits : RevisionOf(commits, j) = commits[j][1]
    BY <1>2 DEF RevisionOf
  <2>2. \A j \in DOMAIN commits : commits[j][1] > 0
    BY <1>2 DEF UseMetadata
  <2>3. ASSUME {j \in DOMAIN commits \ {i} : commits[j][1] = commits[i][1]} = {}
        PROVE  FindSvnRevisionByGitCommit(m, commits[i][2]) = commits[i][1]
    <3>1. \A j \in DOMAIN commits \ {i} : RevisionOf(commits, j) # RevisionOf(commits, i)
      BY <2>1, <2>3
    <3>2. QED BY <1>1, <2>1, <3>1
  <2>4. QED BY <2>2, <2>3
<1>3. CASE ~ UseMetadata(commits)
  <2>1. \A j \in DOMAIN commits : RevisionOf(commits, j) = j
    BY <1>3 DEF RevisionOf
  <2>2. \E j \in DOMAIN commits : ~(commits[j][1] > 0)
    BY <1>3 DEF UseMetadata
  <2>3. FindSvnRevisionByGitCommit(m, commits[i][2]) = i
    BY <1>1, <2>1
  <2>4. QED BY <2>2, <2>3
<1>4. QED BY <1>2, <1>3

\* The traceability artifacts.
LEMMA TraceabilityJudged == ASSUME JudgedInv, TypeInv', GenerateTraceability PROVE JudgedInv'
<1>1. PICK down \in Faulty({"log", "json", "db"}) :
        /\ Failed(down)
        /\ LET commits == IF Git("log", down) THEN world.commits ELSE <<>>
               partial == \E i \in DOMAIN commits : commits[i][1] > 0
           IN  IF commits = <<>> THEN Verdict(FALSE, TRUE) /\ UNCHANGED <<mapper, file>>
               ELSE /\ Verdict(down = {}, partial /\ ~UseMetadata(commits))
                    /\ mapper' = Recorded(commits)
                    /\ \E json \in Left("json", down, {file["svn_to_git_mapping.json"], "partial"}),
                          db \in Left("db", down, {file["traceability.db"], "absent", "partial"}) :
                         file' = [file EXCEPT !["svn_to_git_mapping.json"] = json,
                                              !["traceability.db"] = db]
  BY DEF GenerateTraceability
<1>2. /\ pc = "traceability" /\ pc' = After("traceability")
      /\ UNCHANGED <<world, request, overlooked, generated, remote>>
  BY DEF GenerateTraceability, Continue
<1>3. /\ Place(pc) = 6 /\ pc \notin {"idle", "done"} /\ TypeInv /\ Wants(request, Phases[6])
      /\ pc = Phases[6] /\ ~ request.authorsOnly
  BY <1>2, PhasesAre, InPhase
<1> DEFINE ok == Git("log", down) /\ world.commits # <<>> /\ down = {}
<1>4. success' <=> success /\ ok
  BY <1>1, <1>3 DEF Verdict, TypeInv
<1>5. faults' \in Nat /\ faults' >= faults /\ (faults' = 0 => down = {} /\ faults = 0)
  BY <1>1, <1>3, NothingFailed DEF AnyCall
<1>6. file \in [Artifact -> States]
  BY <1>3 DEF TypeInv
<1>7. ok => Traced'
  <2> SUFFICES ASSUME ok PROVE Traced'
    OBVIOUS
  <2>1. /\ mapper' = Recorded(world.commits)
        /\ \E json \in Left("json", down, {file["svn_to_git_mapping.json"], "partial"}),
              db \in Left("db", down, {file["traceability.db"], "absent", "partial"}) :
             file' = [file EXCEPT !["svn_to_git_mapping.json"] = json, !["traceability.db"] = db]
    BY <1>1
  <2>2. file' = [file EXCEPT !["svn_to_git_mapping.json"] = "whole", !["traceability.db"] = "whole"]
    BY <2>1 DEF Left
  <2>3. file'["svn_to_git_mapping.json"] = "whole" /\ file'["traceability.db"] = "whole"
    BY <1>6, <2>2 DEF Artifact
  <2>4. IsHistory(world.commits)
    BY <1>3, ValidateAppAssumption DEF IsHistory, TypeInv
  <2>5. (PartlyEmbedded \/ MapComplete)'
    BY <1>2, <2>1, <2>4, MapIsComplete DEF MapComplete, PartlyEmbedded
  <2>6. world'.usable /\ world'.commits # <<>>
    BY <1>2 DEF Git
  <2>7. QED BY <2>3, <2>5, <2>6 DEF Traced
<1>8. down = {} /\ Possible("traceability") => ok
  BY DEF Possible, Git
<1> HIDE DEF ok
<1>9. Met("traceability")' <=> Traced'
  BY DEF Met
<1>10. (success' /\ ~ overlooked' => Met(Phases[6])')
        /\ (success /\ ~ success' /\ faults' = 0 => ~ Possible(Phases[6]))
  BY <1>4, <1>5, <1>7, <1>8, <1>9, PhasesAre
<1>11. file'["authors-generated.txt"] = file["authors-generated.txt"]
  BY <1>1, <1>6 DEF Artifact
<1>12. Onward /\ Apart(6) /\ remote' = remote
  BY <1>2, <1>4, <1>5, <1>11 DEF Onward, Apart
<1>13. QED BY <1>2, <1>3, <1>10, <1>12, PhaseContinues

\* A run between two refs of verify().
LEMMA InContent ==
    ASSUME JudgedInv, pc = "content"
    PROVE  /\ Place(pc) = 7 /\ pc \notin {"idle", "done"} /\ TypeInv /\ Comparing
           /\ request.verify /\ Wants(request, Phases[7]) /\ ~ request.authorsOnly
<1>1. Route /\ Place(pc) = 7 /\ TypeInv
  BY Places DEF JudgedInv
<1>2. request.verify /\ Comparing /\ ~ request.authorsOnly
  BY <1>1 DEF Route
<1>3. Wants(request, Phases[7])
  BY <1>2, PhasesAre DEF Wants
<1>4. QED BY <1>1, <1>2, <1>3

\* A run that stays with verify().
LEMMA ContentGoesOn ==
    ASSUME JudgedInv, TypeInv', Place(pc) = 7, pc \notin {"idle", "done"}, pc' = "content",
           Onward, Apart(7), remote' = remote,
           Wants(request, Phases[7]), ~ request.authorsOnly,
           success /\ ~ success' /\ faults' = 0 => ~ Possible(Phases[7]), Comparing'
    PROVE  JudgedInv'
<1>1. 7 \in 1 .. 8 /\ 7 \in 7 .. 9 /\ ~ (7 > 7) /\ \A k \in 7 + 1 .. 7 - 1 : FALSE
  OBVIOUS
<1>2. Passed(7)' /\ Blamed'
  BY <1>1, PhasePassed
<1>3. Place(pc') = 7
  BY Places
<1>4. Passed(Place(pc))'
  BY <1>2, <1>3 DEF Passed
<1>5. request' = request /\ world' = world
  BY DEF Onward
<1>6. request.verify
  BY PhasesAre DEF Wants
<1>7. Route'
  BY <1>5, <1>6 DEF Route, PhaseName, Pushing
<1>8. remote'.branches = "all" => world'.usable
  BY <1>5 DEF JudgedInv
<1>9. QED BY <1>2, <1>4, <1>7, <1>8 DEF JudgedInv, Ended

\* What is compared with what.
LEMMA VerifyContentJudged == ASSUME JudgedInv, TypeInv', VerifyContent PROVE JudgedInv'
<1> DEFINE mappings == IF request.rules THEN MapWithRules(Rules, layout')
                       ELSE StandardLayoutMappings(layout')
           unmapped == request.rules /\ UnmappedDirs(Rules, layout') # {}
           refused == layout' = {} \/ (request.rules /\ ~ValidRules(world.rules))
<1>1. PICK down \in Faulty({"root", "branches", "tags", "rev-parse"}) :
        /\ Failed(down) /\ Discover(down)
        /\ \/ refused /\ Verdict(FALSE, TRUE) /\ pc' = After("verify")
           \/ pc' = "done" /\ exit' = 2
           \/ /\ ~ refused
              /\ \E reports : Verdict(~ unmapped, reports)
              /\ contentOk' = Git("rev-parse", down)
              /\ pending' = IF ~ contentOk' THEN {}
                            ELSE IF request.rules THEN Selected(mappings) ELSE mappings
              /\ pc' = "content"
  BY DEF VerifyContent
<1>2. /\ pc = "verify" /\ UNCHANGED <<world, request, generated, mapper, file, remote>>
  BY DEF VerifyContent
<1>3. /\ Place(pc) = 7 /\ pc \notin {"idle", "done"} /\ TypeInv /\ Wants(request, Phases[7])
      /\ pc = Phases[7] /\ ~ request.authorsOnly
  BY <1>2, PhasesAre, InPhase
<1>4. faults' \in Nat /\ faults' >= faults /\ (faults' = 0 => down = {} /\ faults = 0)
  BY <1>1, <1>3, NothingFailed DEF AnyCall
<1>5. /\ layout' # {} => world.reachable
      /\ ~ overlooked' => ~ overlooked /\ layout' \in {{}, DOMAIN world.tree}
      /\ down = {} /\ world.reachable => layout' = DOMAIN world.tree
  BY <1>1, Discovery
<1>6. UnmappedDirs(Rules, DOMAIN world.tree) = {} <=> EverythingHasARule
  BY <1>3, CoverageJudged DEF TypeInv
<1>7. Apart(7) /\ remote' = remote
  BY <1>2 DEF Apart
<1>8. (Met("verify")' <=> SampleSame') /\ (Possible("verify") <=> ContentSame)
  BY DEF Met, Possible
<1>9. ContentSame => /\ world.reachable /\ world.usable /\ DOMAIN world.tree # {}
                     /\ request.rules => ValidRules(world.rules) /\ EverythingHasARule
  BY DEF ContentSame, Comparable
<1>10. CASE refused /\ Verdict(FALSE, TRUE) /\ pc' = After("verify")
  <2>1. ~ success'
    BY <1>10 DEF Verdict
  <2>2. Onward
    BY <1>2, <1>4, <1>5, <2>1 DEF Onward
  <2>3. faults' = 0 => ~ ContentSame
    BY <1>4, <1>5, <1>9, <1>10
  <2>4. (success' /\ ~ overlooked' => Met(Phases[7])')
        /\ (success /\ ~ success' /\ faults' = 0 => ~ Possible(Phases[7]))
    BY <1>8, <2>1, <2>3, PhasesAre
  <2>5. pc' = After(Phases[7])
    BY <1>10, PhasesAre
  <2>6. QED BY <1>3, <1>7, <2>2, <2>4, <2>5, PhaseContinues
<1>11. CASE pc' = "done" /\ exit' = 2
  <2>1. remote'.branches = "all" => world'.usable
    BY <1>2 DEF JudgedInv
  <2>2. QED BY <1>11, <2>1 DEF JudgedInv, Ended
<1>12. CASE /\ ~ refused
            /\ \E reports : Verdict(~ unmapped, reports)
            /\ contentOk' = Git("rev-parse", down)
            /\ pending' = IF ~ contentOk' THEN {}
                          ELSE IF request.rules THEN Selected(mappings) ELSE mappings
            /\ pc' = "content"
  <2>1. success' <=> success /\ ~ unmapped
    BY <1>3, <1>12 DEF Verdict, TypeInv
  <2>2. Onward
    BY <1>2, <1>4, <1>5, <2>1 DEF Onward
  <2>3. faults' = 0 /\ ContentSame => layout' = DOMAIN world.tree /\ ~ unmapped
    BY <1>4, <1>5, <1>6, <1>9
  <2>4. success /\ ~ success' /\ faults' = 0 => ~ Possible(Phases[7])
    BY <1>8, <2>1, <2>3, PhasesAre
  <2>5. /\ Expected' = Expected /\ (ContentSame' <=> ContentSame)
        /\ (EverythingHasARule' <=> EverythingHasARule)
    BY <1>2, WorldStands
  <2>6. layout' = DOMAIN world.tree /\ contentOk' => pending' = Expected
    BY <1>12 DEF Expected
  <2>7. ASSUME success', ~ overlooked', contentOk'
        PROVE  /\ world'.reachable /\ world'.usable /\ DOMAIN world'.tree # {}
               /\ request'.rules => ValidRules(world'.rules) /\ EverythingHasARule'
               /\ pending' = Expected'
    <3>1. layout' = DOMAIN world.tree /\ layout' # {} /\ world.reachable
      BY <1>5, <1>12, <2>7
    <3>2. world.usable
      BY <1>12, <2>7 DEF Git
    <3>3. request.rules => ValidRules(world.rules) /\ EverythingHasARule
      BY <1>6, <1>12, <2>1, <2>7, <3>1
    <3>4. QED BY <1>2, <2>5, <2>6, <2>7, <3>1, <3>2, <3>3
  <2>8. ASSUME faults' = 0, ContentSame'
        PROVE  contentOk' /\ pending' = Expected'
    <3>1. world.usable /\ down = {} /\ layout' = DOMAIN world.tree
      BY <1>4, <1>9, <2>3, <2>5, <2>8
    <3>2. contentOk'
      BY <1>12, <3>1 DEF Git
    <3>3. QED BY <2>5, <2>6, <3>1, <3>2
  <2>9. Comparing'
    BY <2>7, <2>8 DEF Comparing
  <2>10. QED BY <1>3, <1>7, <1>12, <2>2, <2>4, <2>9, ContentGoesOn
<1>13. QED BY <1>1, <1>10, <1>11, <1>12

\* A ref that is found good has the sample; one that has everything is found good.
LEMMA RefJudged ==
    ASSUME TypeInv, NEW m, m.dir \in DOMAIN world.tree
    PROVE  /\ \A unhashed :
                m.ref \in DOMAIN world.refs
                  /\ RefContentOk(world.tree[m.dir], world.refs[m.ref], m.prefix, request.samples,
                                  unhashed) => Sampled(m)
           /\ m.ref \in DOMAIN world.refs /\ (\A f \in DOMAIN world.tree[m.dir] : Same(m, f))
                => RefContentOk(world.tree[m.dir], world.refs[m.ref], m.prefix, request.samples, {})
<1> DEFINE files == world.tree[m.dir]
           blobs == world.refs[m.ref]
<1>1. /\ DOMAIN files \subseteq Int /\ IsFiniteSet(DOMAIN files) /\ request.samples \in Int
  BY ValidateAppAssumption DEF TypeInv
<1>2. ASSUME m.ref \in DOMAIN world.refs
      PROVE  \A f : /\ Kept(m, f) <=> <<m.prefix, f>> \in DOMAIN blobs
                    /\ Same(m, f) <=> /\ <<m.prefix, f>> \in DOMAIN blobs
                                      /\ blobs[<<m.prefix, f>>] = files[f]
  BY <1>2 DEF Kept, Same
<1>3. ASSUME NEW unhashed, m.ref \in DOMAIN world.refs,
             RefContentOk(files, blobs, m.prefix, request.samples, unhashed)
      PROVE  Sampled(m)
  <2>1. /\ \A f \in DOMAIN files : <<m.prefix, f>> \in DOMAIN blobs
        /\ Cardinality(SameIn(files, blobs, m.prefix)) >=
             IF request.samples \in 1 .. Cardinality(DOMAIN files) THEN request.samples
             ELSE Cardinality(DOMAIN files)
    BY <1>1, <1>3, GoodRef
  <2>2. SameIn(files, blobs, m.prefix) = {f \in DOMAIN files : Same(m, f)}
    BY <1>2, <1>3 DEF SameIn
  <2>3. QED BY <1>2, <1>3, <2>1, <2>2 DEF Sampled
<1>4. ASSUME m.ref \in DOMAIN world.refs, \A f \in DOMAIN files : Same(m, f)
      PROVE  RefContentOk(files, blobs, m.prefix, request.samples, {})
  BY <1>1, <1>2, <1>4, SameRef
<1>5. QED BY <1>3, <1>4

\* One ref.
LEMMA VerifyRefJudged == ASSUME JudgedInv, TypeInv', VerifyRef PROVE JudgedInv'
<1> DEFINE m == CHOOSE m \in pending : TRUE
           listed(down) == Svn("list", down) /\ Git("ls-tree", down) /\ m.ref \in DOMAIN world.refs
           ok(down, unhashed) ==
             listed(down) /\ RefContentOk(world.tree[m.dir], world.refs[m.ref], m.prefix,
                                          request.samples, unhashed)
<1>1. PICK down \in Faulty({"list", "ls-tree", "rev-parse", "hash"}) :
        /\ Failed(down)
        /\ \E unhashed \in SUBSET (DOMAIN world.tree[m.dir]) :
             /\ (unhashed # {}) <=> ("hash" \in down)
             /\ contentOk' = (contentOk /\ ok(down, unhashed))
  BY DEF VerifyRef
<1>2. PICK unhashed \in SUBSET (DOMAIN world.tree[m.dir]) :
        /\ (unhashed # {}) <=> ("hash" \in down)
        /\ contentOk' = (contentOk /\ ok(down, unhashed))
  BY <1>1
<1>3. /\ pc = "content" /\ pending # {} /\ pending' = pending \ {m}
      /\ UNCHANGED <<world, request, pc, success, overlooked, mapper, generated, file, remote>>
  BY DEF VerifyRef
<1>4. /\ Place(pc) = 7 /\ pc \notin {"idle", "done"} /\ TypeInv /\ Comparing
      /\ Wants(request, Phases[7]) /\ ~ request.authorsOnly
  BY <1>3, InContent
<1>5. faults' \in Nat /\ faults' >= faults /\ (faults' = 0 => down = {} /\ faults = 0)
  BY <1>1, <1>4, NothingFailed DEF AnyCall
<1>6. PICK n : n = m
  OBVIOUS
<1>7. n \in pending
  BY <1>3, <1>6
<1>8. n.dir \in DOMAIN world.tree
  BY <1>4, <1>7 DEF TypeInv
<1>9. ok(down, unhashed) => world.reachable /\ world.usable /\ Sampled(n)
  BY <1>4, <1>6, <1>8, RefJudged DEF Svn, Git
<1>10. /\ Expected' = Expected /\ (ContentSame' <=> ContentSame)
       /\ (EverythingHasARule' <=> EverythingHasARule)
       /\ \A x : Sampled(x)' <=> Sampled(x)
  BY <1>3, WorldStands
<1>11. down = {} /\ ContentSame /\ n \in Expected => ok(down, unhashed)
  <2> SUFFICES ASSUME down = {}, ContentSame, n \in Expected PROVE ok(down, unhashed)
    OBVIOUS
  <2>1. /\ world.reachable /\ world.usable /\ n.ref \in DOMAIN world.refs
        /\ \A f \in DOMAIN world.tree[n.dir] : Same(n, f)
    BY DEF ContentSame, Comparable
  <2>2. unhashed = {}
    BY <1>2
  <2>3. RefContentOk(world.tree[n.dir], world.refs[n.ref], n.prefix, request.samples, {})
    BY <1>4, <1>8, <2>1, RefJudged
  <2>4. QED BY <1>6, <2>1, <2>2, <2>3 DEF Svn, Git
<1>12. contentOk' = (contentOk /\ ok(down, unhashed)) /\ pending' = pending \ {n}
  BY <1>2, <1>3, <1>6
<1>13. contentOk \in BOOLEAN
  BY <1>4 DEF TypeInv
<1> HIDE DEF m, ok
<1>14. ASSUME success', ~ overlooked', contentOk'
       PROVE  /\ world'.reachable /\ world'.usable /\ DOMAIN world'.tree # {}
              /\ request'.rules => ValidRules(world'.rules) /\ EverythingHasARule'
              /\ pending' \subseteq Expected'
              /\ \A x \in Expected' \ pending' : Sampled(x)'
  <2>1. contentOk /\ ok(down, unhashed)
    BY <1>12, <1>13, <1>14
  <2>2. /\ world.reachable /\ world.usable /\ DOMAIN world.tree # {}
        /\ request.rules => ValidRules(world.rules) /\ EverythingHasARule
        /\ pending \subseteq Expected
        /\ \A x \in Expected \ pending : Sampled(x)
    BY <1>3, <1>4, <1>14, <2>1 DEF Comparing
  <2>3. \A x \in Expected \ pending' : Sampled(x)
    BY <1>9, <1>12, <2>1, <2>2
  <2>4. QED BY <1>3, <1>10, <1>12, <2>2, <2>3
<1>15. ASSUME faults' = 0, ContentSame'
       PROVE  contentOk' /\ pending' \subseteq Expected'
  <2>1. contentOk /\ pending \subseteq Expected
    BY <1>4, <1>5, <1>10, <1>15 DEF Comparing
  <2>2. ok(down, unhashed)
    BY <1>5, <1>7, <1>10, <1>11, <1>15, <2>1
  <2>3. QED BY <1>10, <1>12, <2>1, <2>2
<1>16. Comparing'
  BY <1>14, <1>15 DEF Comparing
<1>17. Onward /\ Apart(7)
  BY <1>3, <1>5 DEF Onward, Apart
<1>18. ~ (success /\ ~ success') /\ pc' = "content" /\ remote' = remote
  BY <1>3
<1>19. QED BY <1>4, <1>16, <1>17, <1>18, ContentGoesOn

\* The end of verify().
LEMMA ContentReportJudged == ASSUME JudgedInv, TypeInv', ContentReport PROVE JudgedInv'
<1>1. PICK down \in Faulty({"open", "write"}) :
        /\ Failed(down) /\ Verdict(contentOk, down # {})
        /\ file' = [file EXCEPT !["content_validation_report.txt"] = Written(@, down)]
  BY DEF ContentReport
<1>2. /\ pc = "content" /\ pc' = After("verify") /\ pending = {}
      /\ UNCHANGED <<world, request, run, remote>>
  BY DEF ContentReport, Continue
<1>3. /\ Place(pc) = 7 /\ pc \notin {"idle", "done"} /\ TypeInv /\ Comparing
      /\ Wants(request, Phases[7]) /\ ~ request.authorsOnly
  BY <1>2, InContent
<1>4. faults' \in Nat /\ faults' >= faults /\ (faults' = 0 => down = {} /\ faults = 0)
  BY <1>1, <1>3, NothingFailed DEF AnyCall
<1>5. success' <=> success /\ contentOk
  BY <1>1, <1>3 DEF Verdict, TypeInv
<1>6. success /\ ~ overlooked /\ contentOk => SampleSame
  <2> SUFFICES ASSUME success, ~ overlooked, contentOk PROVE SampleSame
    OBVIOUS
  <2>1. /\ world.reachable /\ world.usable /\ DOMAIN world.tree # {}
        /\ request.rules => ValidRules(world.rules) /\ EverythingHasARule
        /\ \A m \in Expected : Sampled(m)
    BY <1>2, <1>3 DEF Comparing
  <2>2. Comparable
    BY <2>1 DEF Comparable, Sampled
  <2>3. QED BY <2>1, <2>2 DEF SampleSame, Sampled
<1>7. faults = 0 /\ ContentSame => contentOk
  BY <1>3 DEF Comparing
<1>8. Met("verify")' <=> Met("verify")
  BY <1>2, MetStands
<1>9. (Met("verify") <=> SampleSame) /\ (Possible("verify") <=> ContentSame)
  BY DEF Met, Possible
<1>10. overlooked' = overlooked
  BY <1>2 DEF run
<1>11. (success' /\ ~ overlooked' => Met(Phases[7])')
        /\ (success /\ ~ success' /\ faults' = 0 => ~ Possible(Phases[7]))
  BY <1>4, <1>5, <1>6, <1>7, <1>8, <1>9, <1>10, PhasesAre
<1>12. Onward
  BY <1>2, <1>4, <1>5, <1>10 DEF Onward
<1>13. Apart(7)
  <2>1. file \in [Artifact -> States]
    BY <1>3 DEF TypeInv
  <2>2. QED BY <1>1, <1>2, <2>1 DEF Apart, Artifact, run
<1>14. pc' = After(Phases[7]) /\ remote' = remote
  BY <1>2, PhasesAre
<1>15. QED BY <1>3, <1>11, <1>12, <1>13, <1>14, PhaseContinues

\* A step of phase i to where the run has come past all phases before the n-th.
LEMMA PhaseLeads ==
    ASSUME JudgedInv, TypeInv', NEW i \in 1 .. 8, Place(pc) = i, pc \notin {"idle", "done"},
           Onward, Apart(i),
           Wants(request, Phases[i]), ~ request.authorsOnly,
           success /\ ~ success' /\ faults' = 0 => ~ Possible(Phases[i]),
           NEW n \in i .. 9, \A k \in i + 1 .. n - 1 : ~ Wants(request, Phases[k]),
           n > i /\ success' /\ ~ overlooked' => Met(Phases[i])',
           Place(pc') = n, pc' \notin {"idle", "done"}, Route',
           remote'.branches = "all" => world.usable
    PROVE  JudgedInv'
<1>1. Passed(n)' /\ Blamed'
  BY PhasePassed
<1>2. Passed(Place(pc))'
  BY <1>1 DEF Passed
<1>3. world' = world
  BY DEF Onward
<1>4. QED BY <1>1, <1>2, <1>3 DEF JudgedInv, Ended

\* A run on its way to the outcome.
LEMMA ToTheOutcome ==
    ASSUME pc' = "outcome", request' = request, ~ request.authorsOnly
    PROVE  Route' /\ Place(pc') = 9 /\ pc' \notin {"idle", "done"}
<1>1. Place(pc') = 9
  BY Places
<1>2. Wants(request', pc')
  BY DEF Wants
<1>3. QED BY <1>1, <1>2 DEF Route, Pushing

\* The guard of the push.
LEMMA ValidateIntegrityJudged == ASSUME JudgedInv, TypeInv', ValidateIntegrity PROVE JudgedInv'
<1> DEFINE ok(down) == Git("fsck", down) /\ Intact
<1>1. PICK down \in Faulty({"fsck"}) :
        /\ Failed(down)
        /\ \E reports : Verdict(ok(down), reports)
        /\ pc' = IF ok(down) THEN "push-all" ELSE "outcome"
  BY DEF ValidateIntegrity
<1>2. pc = "push" /\ UNCHANGED <<world, request, run, file, remote>>
  BY DEF ValidateIntegrity
<1>3. /\ Place(pc) = 8 /\ pc \notin {"idle", "done"} /\ TypeInv /\ Wants(request, Phases[8])
      /\ pc = Phases[8] /\ ~ request.authorsOnly
  BY <1>2, PhasesAre, InPhase
<1>4. faults' \in Nat /\ faults' >= faults /\ (faults' = 0 => down = {} /\ faults = 0)
  BY <1>1, <1>3, NothingFailed DEF AnyCall
<1>5. success' <=> success /\ ok(down)
  BY <1>1, <1>3 DEF Verdict, TypeInv
<1>6. ok(down) => world.usable /\ Intact
  BY DEF Git
<1>7. down = {} /\ Possible("push") => ok(down)
  BY DEF Possible, Git
<1>8. Onward /\ Apart(8)
  BY <1>2, <1>4, <1>5 DEF Onward, Apart, run
<1> HIDE DEF ok
<1>9. success /\ ~ success' /\ faults' = 0 => ~ Possible(Phases[8])
  BY <1>4, <1>5, <1>7, PhasesAre
<1>10. remote'.branches = "all" => world.usable
  BY <1>2 DEF JudgedInv
<1>11. CASE ok(down)
  <2>1. pc' = "push-all" /\ Place(pc') = 8
    BY <1>1, <1>11, Places
  <2>2. Intact'
    BY <1>2, <1>6, <1>11 DEF Intact
  <2>3. request.push
    BY <1>3, PhasesAre DEF Wants
  <2>4. Route'
    BY <1>2, <1>3, <1>6, <1>11, <2>1, <2>2, <2>3 DEF Route, PhaseName, Pushing
  <2>5. 8 \in 8 .. 9 /\ ~ (8 > 8) /\ \A k \in 8 + 1 .. 8 - 1 : FALSE
    OBVIOUS
  <2>6. QED BY <1>3, <1>8, <1>9, <1>10, <2>1, <2>4, <2>5, PhaseLeads
<1>12. CASE ~ ok(down)
  <2>1. pc' = "outcome" /\ ~ success'
    BY <1>1, <1>5, <1>12
  <2>2. Route' /\ Place(pc') = 9 /\ pc' \notin {"idle", "done"}
    BY <1>2, <1>3, <2>1, ToTheOutcome
  <2>3. 9 \in 8 .. 9 /\ \A k \in 8 + 1 .. 9 - 1 : FALSE
    OBVIOUS
  <2>4. QED BY <1>3, <1>8, <1>9, <1>10, <2>1, <2>2, <2>3, PhaseLeads
<1>13. QED BY <1>11, <1>12

\* A run that pushes.
LEMMA InPushing ==
    ASSUME JudgedInv, pc \in Pushing
    PROVE  /\ Place(pc) = 8 /\ pc \notin {"idle", "done"} /\ TypeInv /\ Wants(request, Phases[8])
           /\ request.push /\ Intact /\ world.usable /\ ~ request.authorsOnly
           /\ pc = "push-tags" => remote.branches = "all"
<1>1. Place(pc) = 8 /\ pc \notin {"idle", "done"} /\ pc # "authors-outcome"
  BY Places DEF Pushing
<1>2. Route
  BY <1>1 DEF JudgedInv
<1>3. request.push /\ Intact /\ world.usable /\ ~ request.authorsOnly
  BY <1>1, <1>2 DEF Route
<1>4. Wants(request, Phases[8])
  BY <1>3, PhasesAre DEF Wants
<1>5. QED BY <1>1, <1>2, <1>3, <1>4 DEF Route, JudgedInv

\* The branches.
LEMMA PushAllJudged == ASSUME JudgedInv, TypeInv', PushAll PROVE JudgedInv'
<1>1. PICK down \in Faulty({"push"}) :
        /\ Failed(down) /\ Verdict(down = {}, down # {})
        /\ \E r \in Pushed(remote.branches, down) : remote' = [remote EXCEPT !.branches = r]
        /\ pc' = IF down = {} THEN "push-tags" ELSE "outcome"
  BY DEF PushAll
<1>2. pc = "push-all" /\ UNCHANGED <<world, request, run, file>>
  BY DEF PushAll
<1>3. /\ Place(pc) = 8 /\ pc \notin {"idle", "done"} /\ TypeInv /\ Wants(request, Phases[8])
      /\ request.push /\ Intact /\ world.usable /\ ~ request.authorsOnly
  BY <1>2, InPushing DEF Pushing
<1>4. faults' \in Nat /\ faults' >= faults /\ (faults' = 0 => down = {} /\ faults = 0)
  BY <1>1, <1>3, NothingFailed DEF AnyCall
<1>5. success' <=> success /\ down = {}
  BY <1>1, <1>3 DEF Verdict, TypeInv
<1>6. Onward /\ Apart(8)
  BY <1>2, <1>4, <1>5 DEF Onward, Apart, run
<1>7. success /\ ~ success' /\ faults' = 0 => ~ Possible(Phases[8])
  BY <1>4, <1>5
<1>8. CASE down = {}
  <2>1. pc' = "push-tags" /\ Place(pc') = 8
    BY <1>1, <1>8, Places
  <2>2. Intact'
    BY <1>2, <1>3 DEF Intact
  <2>3. remote'.branches = "all"
    BY <1>1, <1>3, <1>8 DEF Pushed, TypeInv
  <2>4. Route'
    BY <1>2, <1>3, <2>1, <2>2, <2>3 DEF Route, PhaseName, Pushing
  <2>5. 8 \in 8 .. 9 /\ ~ (8 > 8) /\ \A k \in 8 + 1 .. 8 - 1 : FALSE
    OBVIOUS
  <2>6. QED BY <1>3, <1>6, <1>7, <2>1, <2>4, <2>5, PhaseLeads
<1>9. CASE down # {}
  <2>1. pc' = "outcome" /\ ~ success'
    BY <1>1, <1>5, <1>9
  <2>2. Route' /\ Place(pc') = 9 /\ pc' \notin {"idle", "done"}
    BY <1>2, <1>3, <2>1, ToTheOutcome
  <2>3. 9 \in 8 .. 9 /\ \A k \in 8 + 1 .. 9 - 1 : FALSE
    OBVIOUS
  <2>4. QED BY <1>3, <1>6, <1>7, <2>1, <2>2, <2>3, PhaseLeads
<1>10. QED BY <1>8, <1>9

\* The tags.
LEMMA PushTagsJudged == ASSUME JudgedInv, TypeInv', PushTags PROVE JudgedInv'
<1>1. PICK down \in Faulty({"push"}) :
        /\ Failed(down) /\ Verdict(down = {}, down # {})
        /\ \E r \in Pushed(remote.tags, down) : remote' = [remote EXCEPT !.tags = r]
  BY DEF PushTags
<1>2. pc = "push-tags" /\ pc' = "outcome" /\ UNCHANGED <<world, request, run, file>>
  BY DEF PushTags
<1>3. /\ Place(pc) = 8 /\ pc \notin {"idle", "done"} /\ TypeInv /\ Wants(request, Phases[8])
      /\ request.push /\ Intact /\ world.usable /\ ~ request.authorsOnly
      /\ remote.branches = "all"
  BY <1>2, InPushing DEF Pushing
<1>4. faults' \in Nat /\ faults' >= faults /\ (faults' = 0 => down = {} /\ faults = 0)
  BY <1>1, <1>3, NothingFailed DEF AnyCall
<1>5. success' <=> success /\ down = {}
  BY <1>1, <1>3 DEF Verdict, TypeInv
<1>6. Onward /\ Apart(8)
  BY <1>2, <1>4, <1>5 DEF Onward, Apart, run
<1>7. success /\ ~ success' /\ faults' = 0 => ~ Possible(Phases[8])
  BY <1>4, <1>5
<1>8. success' => Met(Phases[8])'
  <2> SUFFICES ASSUME success' PROVE Met(Phases[8])'
    OBVIOUS
  <2>1. remote' = [remote EXCEPT !.tags = "all"]
    BY <1>1, <1>5 DEF Pushed
  <2>2. remote' = [branches |-> "all", tags |-> "all"]
    BY <1>3, <2>1 DEF TypeInv
  <2>3. Intact'
    BY <1>2, <1>3 DEF Intact
  <2>4. Met("push")'
    BY <2>2, <2>3 DEF Met
  <2>5. QED BY <2>4, PhasesAre
<1>9. Route' /\ Place(pc') = 9 /\ pc' \notin {"idle", "done"}
  BY <1>2, <1>3, ToTheOutcome
<1>10. 9 \in 8 .. 9 /\ \A k \in 8 + 1 .. 9 - 1 : FALSE
  OBVIOUS
<1>11. QED BY <1>3, <1>6, <1>7, <1>8, <1>9, <1>10, PhaseLeads

\* What the run has passed, and what is to blame, stands when only the records are written.
LEMMA RecordsChangeNothing ==
    ASSUME TypeInv, TypeInv', NEW n, Passed(n), Blamed, Onward, overlooked' = overlooked,
           \A i \in 1 .. 9 : Apart(i), remote' = remote,
           success /\ ~ success' => faults' # 0
    PROVE  Passed(n)' /\ Blamed'
<1>1. /\ world' = world /\ request' = request /\ faults \in Nat /\ faults' \in Nat
      /\ success \in BOOLEAN /\ success' \in BOOLEAN /\ faults' >= faults
      /\ (success' => success)
  BY ValidateAppAssumption DEF TypeInv, Onward
<1>2. /\ generated' = generated /\ mapper' = mapper
      /\ file'["authors-generated.txt"] = file["authors-generated.txt"]
      /\ file'["svn_to_git_mapping.json"] = file["svn_to_git_mapping.json"]
      /\ file'["traceability.db"] = file["traceability.db"]
  <2>1. Apart(1) /\ Apart(6)
    OBVIOUS
  <2>2. QED BY <2>1 DEF Apart
<1>3. \A p : Met(p)' <=> Met(p)
  BY <1>1, <1>2, MetStands
<1>4. \A p : Possible(p)' <=> Possible(p)
  BY <1>1, WorldStands
<1>5. Passed(n)'
  BY <1>1, <1>3 DEF Passed
<1>6. Blamed'
  <2> SUFFICES ASSUME ~ success', faults' = 0
               PROVE  \E j \in 1 .. 8 : /\ Wants(request', Phases[j]) /\ ~ Possible(Phases[j])'
                                        /\ request'.authorsOnly => j <= 2
    BY DEF Blamed
  <2>1. ~ success /\ faults = 0
    BY <1>1
  <2>2. QED BY <1>1, <1>4, <2>1 DEF Blamed
<1>7. QED BY <1>5, <1>6

\* The trail.
LEMMA OutcomeJudged == ASSUME JudgedInv, TypeInv', Outcome PROVE JudgedInv'
<1>1. PICK down \in Faulty({"open", "write"}) :
        /\ Failed(down)
        /\ file' = [file EXCEPT !["audit.log"] = Written(@, down)]
        /\ success' = (success /\ TrailWritten(down))
  BY DEF Outcome
<1>2. pc = "outcome" /\ pc' = "report" /\ UNCHANGED <<world, request, run, remote>>
  BY DEF Outcome
<1>3. 9 \in 1 .. 9 /\ pc = Phases[9]
  BY <1>2, PhasesAre
<1>4. Place(pc) = 9 /\ TypeInv /\ ~ request.authorsOnly
  BY <1>3, InPhase
<1>5. faults' \in Nat /\ faults' >= faults /\ (faults' = 0 => down = {} /\ faults = 0)
  BY <1>1, <1>4, NothingFailed DEF AnyCall
<1>6. Passed(9) /\ Blamed
  BY <1>2, <1>4 DEF JudgedInv
<1>7. Onward
  BY <1>1, <1>2, <1>5 DEF Onward, run
<1>8. \A i \in 1 .. 9 : Apart(i)
  <2>1. file \in [Artifact -> States]
    BY <1>4 DEF TypeInv
  <2>2. QED BY <1>1, <1>2, <2>1 DEF Apart, Artifact, run
<1>9. success /\ ~ success' => faults' # 0
  BY <1>1, <1>5 DEF TrailWritten
<1>10. overlooked' = overlooked
  BY <1>2 DEF run
<1>11. Passed(9)' /\ Blamed'
  BY <1>2, <1>4, <1>6, <1>7, <1>8, <1>9, <1>10, RecordsChangeNothing
<1>12. Place(pc') = 9
  BY <1>2, Places
<1>13. Passed(Place(pc))'
  BY <1>11, <1>12 DEF Passed
<1>14. Route'
  BY <1>2, <1>4 DEF Route, PhaseName, Pushing
<1>15. remote'.branches = "all" => world'.usable
  BY <1>2 DEF JudgedInv
<1>16. QED BY <1>2, <1>11, <1>13, <1>14, <1>15 DEF JudgedInv, Ended

\* The end of a run.
LEMMA EndJudged ==
    ASSUME JudgedInv, TypeInv', pc' = "done", exit' = (IF success THEN 0 ELSE 1),
           UNCHANGED <<world, request, success, run, remote>>, faults' >= faults,
           \A i \in 1 .. 9 : Apart(i),
           Passed(IF request.authorsOnly THEN 3 ELSE 9), Blamed
    PROVE  JudgedInv'
<1> DEFINE n == IF request.authorsOnly THEN 3 ELSE 9
<1>1. TypeInv /\ overlooked' = overlooked
  BY DEF JudgedInv, run
<1>2. Onward
  BY <1>1 DEF Onward
<1> HIDE DEF n
<1>3. Passed(n)
  BY DEF n
<1>4. PICK k : k = n
  OBVIOUS
<1>5. Passed(k)
  BY <1>3, <1>4 DEF Passed
<1>6. Passed(k)' /\ Blamed'
  BY <1>1, <1>2, <1>5, RecordsChangeNothing
<1>7. n' = n
  BY DEF n
<1>8. Passed(n)'
  BY <1>4, <1>6, <1>7 DEF Passed
<1>9. Passed(IF request.authorsOnly THEN 3 ELSE 9)'
  BY <1>8 DEF n
<1>10. success' <=> exit' = 0
  BY <1>1 DEF TypeInv
<1>11. remote'.branches = "all" => world'.usable
  BY DEF JudgedInv
<1>12. QED BY <1>6, <1>9, <1>10, <1>11 DEF JudgedInv

\* The end of a run of the phases.
LEMMA ReportJudged == ASSUME JudgedInv, TypeInv', Report PROVE JudgedInv'
<1>1. PICK down \in Faulty({"open", "write"}) :
        /\ Failed(down)
        /\ file' = [file EXCEPT !["error_report.txt"] = IF reported THEN Written(@, down) ELSE @]
  BY DEF Report
<1>2. /\ pc = "report" /\ pc' = "done" /\ exit' = (IF success THEN 0 ELSE 1)
      /\ UNCHANGED <<world, request, success, run, remote>>
  BY DEF Report, Exits
<1>3. Place(pc) = 9 /\ TypeInv
  BY <1>2, Places DEF JudgedInv
<1>4. Passed(9) /\ Blamed /\ Route
  BY <1>2, <1>3 DEF JudgedInv
<1>5. ~ request.authorsOnly
  BY <1>2, <1>3, <1>4 DEF Route
<1>6. Passed(IF request.authorsOnly THEN 3 ELSE 9)
  BY <1>4, <1>5 DEF Passed
<1>7. faults' >= faults
  BY <1>1, <1>3, NothingFailed DEF AnyCall
<1>8. \A i \in 1 .. 9 : Apart(i)
  <2>1. file \in [Artifact -> States]
    BY <1>3 DEF TypeInv
  <2>2. QED BY <1>1, <1>2, <2>1 DEF Apart, Artifact, run
<1>9. QED BY <1>2, <1>4, <1>6, <1>7, <1>8, EndJudged

\* The end of a run that only checks the authors.
LEMMA AuthorsOutcomeJudged == ASSUME JudgedInv, TypeInv', AuthorsOutcome PROVE JudgedInv'
<1>1. PICK trail, report \in Faulty({"open", "write"}) :
        /\ faults' = faults + Cardinality(trail) + Cardinality(report)
        /\ file' = [file EXCEPT
                      !["audit.log"] = Written(@, trail),
                      !["error_report.txt"] = IF success THEN @ ELSE Written(@, report)]
  BY DEF AuthorsOutcome
<1>2. /\ pc = "authors-outcome" /\ pc' = "done" /\ exit' = (IF success THEN 0 ELSE 1)
      /\ UNCHANGED <<world, request, success, run, remote>>
  BY DEF AuthorsOutcome, Exits
<1>3. Place(pc) = 3 /\ TypeInv
  BY <1>2, Places DEF JudgedInv
<1>4. Passed(3) /\ Blamed /\ Route
  BY <1>2, <1>3 DEF JudgedInv
<1>5. request.authorsOnly
  BY <1>2, <1>4 DEF Route
<1>6. Passed(IF request.authorsOnly THEN 3 ELSE 9)
  BY <1>4, <1>5 DEF Passed
<1>7. faults' >= faults
  <2>1. trail \in SUBSET AnyCall /\ report \in SUBSET AnyCall
    BY DEF Faulty, AnyCall
  <2>2. Cardinality(trail) \in Nat /\ Cardinality(report) \in Nat
    BY <2>1, CallsAreFinite, FS_Subset, FS_CardinalityType
  <2>3. faults \in Nat
    BY <1>3, ValidateAppAssumption DEF TypeInv
  <2>4. QED BY <1>1, <2>2, <2>3
<1>8. \A i \in 1 .. 9 : Apart(i)
  <2>1. file \in [Artifact -> States]
    BY <1>3 DEF TypeInv
  <2>2. QED BY <1>1, <1>2, <2>1 DEF Apart, Artifact, run
<1>9. QED BY <1>2, <1>4, <1>6, <1>7, <1>8, EndJudged

\* A run that is given up for want of a repository.
LEMMA LacksGitRepoJudged == ASSUME JudgedInv, TypeInv', LacksGitRepo PROVE JudgedInv'
<1>1. pc' = "done" /\ exit' = 2 /\ world' = world /\ remote' = remote
  BY DEF LacksGitRepo, Exits
<1>2. remote'.branches = "all" => world'.usable
  BY <1>1 DEF JudgedInv
<1>3. QED BY <1>1, <1>2 DEF JudgedInv, Ended

\* A new run.
LEMMA StartJudged == ASSUME JudgedInv, TypeInv', Start PROVE JudgedInv'
<1>1. /\ exit' = Usage(request') /\ success' = TRUE /\ world' = world /\ remote' = remote
      /\ pc' = IF exit' = Running THEN Upcoming(request', 1) ELSE "done"
  BY DEF Start
<1>2. remote'.branches = "all" => world'.usable
  BY <1>1 DEF JudgedInv
<1>3. CASE exit' # Running
  <2>1. pc' = "done" /\ ~ Ended'
    BY <1>1, <1>3 DEF Ended
  <2>2. QED BY <1>2, <2>1 DEF JudgedInv
<1>4. CASE exit' = Running
  <2>1. PICK r : r = request'
    OBVIOUS
  <2>2. PICK n \in 1 .. 9 : /\ Upcoming(r, 1) = Phases[n] /\ Wants(r, Phases[n])
                            /\ \A k \in 1 .. n - 1 : ~ Wants(r, Phases[k])
    <3>1. 1 \in 1 .. 9
      OBVIOUS
    <3>2. QED BY <3>1, UpcomingSkips
  <2>3. pc' = Phases[n] /\ Place(pc') = n
    BY <1>1, <1>4, <2>1, <2>2, Places
  <2>4. pc' \in PhaseName
    BY <2>3, PhaseNames, PhasesType DEF Range
  <2>5. r.authorsOnly => n <= 2
    <3> SUFFICES ASSUME r.authorsOnly, n > 2 PROVE FALSE
      OBVIOUS
    <3>1. Wants(r, Phases[2]) /\ 2 \in 1 .. n - 1
      BY PhasesAre DEF Wants
    <3>2. QED BY <2>2, <3>1
  <2>6. Route'
    BY <2>1, <2>2, <2>3, <2>4, <2>5 DEF Route, PhaseName, Pushing
  <2>7. Passed(Place(pc))'
    <3>1. \A i \in 1 .. 8 : i < n => ~ Wants(r, Phases[i])
      BY <2>2
    <3>2. QED BY <2>1, <2>3, <3>1 DEF Passed
  <2>8. Blamed'
    BY <1>1 DEF Blamed
  <2>9. pc' \notin {"idle", "done"}
    BY <2>4 DEF PhaseName
  <2>10. QED BY <1>2, <2>6, <2>7, <2>8, <2>9 DEF JudgedInv, Ended
<1>5. QED BY <1>3, <1>4

\* Before the first run.
LEMMA InitJudged == Init => JudgedInv
<1> SUFFICES ASSUME Init PROVE JudgedInv
  OBVIOUS
<1>1. TypeInv
  BY InitTypes
<1>2. pc = "idle" /\ remote.branches = "none"
  BY DEF Init
<1>3. QED BY <1>1, <1>2 DEF JudgedInv, Ended

\* Between two steps.
LEMMA StutterJudged == ASSUME JudgedInv, TypeInv', UNCHANGED vars PROVE JudgedInv'
<1>1. /\ UNCHANGED <<world, request, pc, success, exit, faults, file, remote>>
      /\ UNCHANGED <<pending, contentOk, mapper, generated, layout, overlooked>>
  BY DEF vars, run
<1>2. /\ Expected' = Expected /\ (ContentSame' <=> ContentSame)
      /\ (EverythingHasARule' <=> EverythingHasARule) /\ (Intact' <=> Intact)
      /\ Usage(request)' = Usage(request)
      /\ \A p : Possible(p)' <=> Possible(p)
      /\ \A m : Sampled(m)' <=> Sampled(m)
  BY <1>1, WorldStands
<1>3. \A p : Met(p)' <=> Met(p)
  BY <1>1, MetStands
<1>4. \A n : Passed(n)' <=> Passed(n)
  BY <1>1, <1>3 DEF Passed
<1>5. Blamed' <=> Blamed
  BY <1>1, <1>2 DEF Blamed
<1>6. Comparing' <=> Comparing
  BY <1>1, <1>2 DEF Comparing
<1>7. Route' <=> Route
  BY <1>1, <1>2, <1>6 DEF Route
<1>8. Ended' <=> Ended
  BY <1>1, <1>2 DEF Ended
<1>9. Passed(Place(pc))' <=> Passed(Place(pc))
  BY <1>1, <1>3 DEF Passed
<1>10. Passed(IF request.authorsOnly THEN 3 ELSE 9)'
         <=> Passed(IF request.authorsOnly THEN 3 ELSE 9)
  BY <1>1, <1>3 DEF Passed
<1>11. QED BY <1>1, <1>5, <1>7, <1>8, <1>9, <1>10 DEF JudgedInv

\* Every step.
LEMMA StepJudged == ASSUME JudgedInv, [Next]_vars PROVE JudgedInv'
<1>1. TypeInv
  BY DEF JudgedInv
<1>2. TypeInv'
  BY <1>1, StepTypes
<1>3. CASE Start \/ AutoMap \/ ValidateAuthors \/ AuthorsOutcome \/ DryRun \/ SvnReport
  BY <1>2, <1>3, StartJudged, AutoMapJudged, ValidateAuthorsJudged, AuthorsOutcomeJudged,
     DryRunJudged, SvnReportJudged
<1>4. CASE Coverage \/ GenerateTraceability \/ LacksGitRepo
  BY <1>2, <1>4, CoverageStepJudged, TraceabilityJudged, LacksGitRepoJudged
<1>5. CASE VerifyContent \/ VerifyRef \/ ContentReport
  BY <1>2, <1>5, VerifyContentJudged, VerifyRefJudged, ContentReportJudged
<1>6. CASE ValidateIntegrity \/ PushAll \/ PushTags \/ Outcome \/ Report
  BY <1>2, <1>6, ValidateIntegrityJudged, PushAllJudged, PushTagsJudged, OutcomeJudged,
     ReportJudged
<1>7. CASE UNCHANGED vars
  BY <1>2, <1>7, StutterJudged
<1>8. QED BY <1>3, <1>4, <1>5, <1>6, <1>7 DEF Next

\* What the end of a run says.
LEMMA EndIsExact == JudgedInv => VerdictExact
<1> SUFFICES ASSUME JudgedInv, Ended PROVE VerdictExact
  BY DEF VerdictExact
<1>1. TypeInv
  BY DEF JudgedInv
<1>2. ASSUME exit # 2
      PROVE  /\ success <=> exit = 0
             /\ Passed(IF request.authorsOnly THEN 3 ELSE 9) /\ Blamed
  BY <1>2 DEF JudgedInv
<1>3. /\ request.autoMap <=> Wants(request, Phases[1])
      /\ request.authorsOnly \/ request.dryRun <=> Wants(request, Phases[2])
      /\ request.dryRun <=> Wants(request, Phases[3])
      /\ request.dryRun <=> Wants(request, Phases[4])
      /\ request.coverage <=> Wants(request, Phases[5])
      /\ request.traceability <=> Wants(request, Phases[6])
      /\ request.verify <=> Wants(request, Phases[7])
      /\ request.push <=> Wants(request, Phases[8])
  BY PhasesAre DEF Wants
<1>4. AuthorsCovered =>
        (AuthorsFilePasses(world.authorsFile) <=>
           /\ world.authorsFile.lines # <<>>
           /\ \A i \in DOMAIN world.authorsFile.lines :
                world.authorsFile.lines[i].identity = "valid")
  BY <1>1, FileJudged DEF TypeInv
<1>5. ASSUME exit = 0, ~ overlooked
      PROVE  Requested(SampleSame)
  <2>1. \A i \in 1 .. 8 : i < (IF request.authorsOnly THEN 3 ELSE 9) /\ Wants(request, Phases[i])
                            => Met(Phases[i])
    BY <1>2, <1>5 DEF Passed
  <2>2. request.autoMap => Met("auto-map")
    <3>1. 1 \in 1 .. 8 /\ 1 < 3 /\ 1 < 9
      OBVIOUS
    <3>2. QED BY <1>3, <2>1, <3>1, PhasesAre
  <2>3. request.authorsOnly \/ request.dryRun => Met("authors")
    <3>1. 2 \in 1 .. 8 /\ 2 < 3 /\ 2 < 9
      OBVIOUS
    <3>2. QED BY <1>3, <2>1, <3>1, PhasesAre
  <2>4. ASSUME ~ request.authorsOnly
        PROVE  /\ request.dryRun => Met("dry-run") /\ Met("svn-report")
               /\ request.coverage => Met("coverage")
               /\ request.traceability => Met("traceability")
               /\ request.verify => Met("verify")
               /\ request.push => Met("push")
    <3>1. \A i \in 1 .. 8 : Wants(request, Phases[i]) => Met(Phases[i])
      BY <2>1, <2>4
    <3>2. 3 \in 1 .. 8 /\ 4 \in 1 .. 8 /\ 5 \in 1 .. 8 /\ 6 \in 1 .. 8 /\ 7 \in 1 .. 8 /\ 8 \in 1 .. 8
      OBVIOUS
    <3>3. QED BY <1>3, <3>1, <3>2, PhasesAre
  <2>5. request.autoMap => /\ world.reachable /\ world.authors # {}
                           /\ file["authors-generated.txt"] = "whole"
                           /\ {generated[i].user : i \in DOMAIN generated} = world.authors
                           /\ Duplicates(generated) = {}
    BY <2>2 DEF Met
  <2>6. request.authorsOnly \/ request.dryRun => AuthorsCovered
    BY <2>3 DEF Met
  <2>7. ASSUME ~ request.authorsOnly, request.dryRun
        PROVE  ConfigurationGood
    <3>1. /\ AuthorsFilePasses(world.authorsFile) /\ ValidRules(world.rules)
          /\ request.orchestration => world.yaml = "good"
      BY <2>4, <2>7 DEF Met
    <3>2. world.revisions > 0
      BY <2>4, <2>7 DEF Met
    <3>3. QED BY <1>4, <2>6, <2>7, <3>1, <3>2 DEF ConfigurationGood
  <2>8. ASSUME ~ request.authorsOnly
        PROVE  /\ request.coverage => CoverageComplete
               /\ request.traceability => Traced
               /\ request.verify => SampleSame
               /\ request.push => /\ world.fsck = "clean"
                                  /\ remote = [branches |-> "all", tags |-> "all"]
    BY <2>4, <2>8 DEF Met, Intact
  <2>9. QED BY <2>5, <2>6, <2>7, <2>8 DEF Requested
<1>6. ASSUME exit = 1, faults = 0, Requested(ContentSame)
      PROVE  FALSE
  <2>1. PICK i \in 1 .. 8 : /\ Wants(request, Phases[i]) /\ ~ Possible(Phases[i])
                            /\ request.authorsOnly => i <= 2
    BY <1>2, <1>6 DEF Blamed
  <2>2. i \in {1, 2, 3, 4, 5, 6, 7, 8} /\ (i > 2 => ~ request.authorsOnly)
    BY <2>1
  <2>3. CASE i = 1
    BY <1>3, <1>6, <2>1, <2>3, PhasesAre DEF Requested, Possible
  <2>4. CASE i = 2
    BY <1>3, <1>6, <2>1, <2>4, PhasesAre DEF Requested, Possible
  <2>5. CASE i = 3
    <3>1. AuthorsCovered /\ ConfigurationGood
      BY <1>3, <1>6, <2>1, <2>2, <2>5 DEF Requested
    <3>2. Possible("dry-run")
      BY <1>4, <3>1 DEF ConfigurationGood, Possible
    <3>3. QED BY <2>1, <2>5, <3>2, PhasesAre
  <2>6. CASE i = 4
    <3>1. AuthorsCovered /\ ConfigurationGood
      BY <1>3, <1>6, <2>1, <2>2, <2>6 DEF Requested
    <3>2. Possible("svn-report")
      BY <3>1 DEF AuthorsCovered, ConfigurationGood, Possible
    <3>3. QED BY <2>1, <2>6, <3>2, PhasesAre
  <2>7. CASE i = 5
    BY <1>3, <1>6, <2>1, <2>2, <2>7, PhasesAre DEF Requested, Possible
  <2>8. CASE i = 6
    BY <1>3, <1>6, <2>1, <2>2, <2>8, PhasesAre DEF Requested, Possible, Traced
  <2>9. CASE i = 7
    BY <1>3, <1>6, <2>1, <2>2, <2>9, PhasesAre DEF Requested, Possible
  <2>10. CASE i = 8
    <3>1. world.fsck = "clean" /\ remote = [branches |-> "all", tags |-> "all"]
      BY <1>3, <1>6, <2>1, <2>2, <2>10 DEF Requested
    <3>2. world.usable
      BY <3>1 DEF JudgedInv
    <3>3. Possible("push")
      BY <3>1, <3>2 DEF Possible, Intact
    <3>4. QED BY <2>1, <2>10, <3>3, PhasesAre
  <2>11. QED BY <2>2, <2>3, <2>4, <2>5, <2>6, <2>7, <2>8, <2>9, <2>10
<1>7. QED BY <1>5, <1>6 DEF VerdictExact

\* The exit code of svn2git-validate is a verdict on the world, for any worlds, command
\* lines and failures: 0 only when everything asked for is as it should be, and 1 without a
\* failing call only when something is not.
THEOREM VerdictIsExact == Spec => []VerdictExact
<1>1. JudgedInv /\ [Next]_vars => JudgedInv'
  BY StepJudged
<1>2. JudgedInv => VerdictExact
  BY EndIsExact
<1>3. QED BY InitJudged, <1>1, <1>2, PTL DEF Spec
=============================================================================
