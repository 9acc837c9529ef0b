----------------------------- MODULE ValidateApp -----------------------------
(***************************************************************************)
(* svn2git-validate, run after run in one directory: main of               *)
(* src/src/svn_to_git_app.cpp with the validators it calls.  Every phase   *)
(* that asks svn, git or the disk may find them failing.  What the world   *)
(* is like does not change, so that a verdict can be held against it.      *)
(***************************************************************************)
EXTENDS ContentCheck, AuthorsFile, RevisionMap

CONSTANTS
    World,          \* what Subversion, git and the configuration files may be like
    Request(_),     \* the command lines to be tried in a world
    BranchDir, TagDir,
    ValidRules(_),  \* RulesValidator::validate, module RulesFiles
    MaxFaults,      \* bound: failing calls of one run
    MaxRuns         \* bound: runs

(* A world has:                                                                       *)
(*   reachable, revisions, authors   the Subversion repository answers; its youngest  *)
(*              revision, 0 if svn info says it in another language; its authors      *)
(*   tree       its directories of the layout at HEAD, and the content of their files *)
(*   usable, refs, commits, fsck     the git repository can be used; the blobs of its *)
(*              refs; the commits from oldest to newest as <<embedded revision or -1, *)
(*              name>>; what git fsck would find: "clean", "dangling" or "corrupt"    *)
(*   rules, authorsFile, yaml        the configuration; yaml: "good", "bad", "absent" *)

ASSUME ValidateAppAssumption ==
    /\ MaxFaults \in Nat /\ MaxRuns \in Nat
    /\ \A w \in World :
         /\ w.reachable \in BOOLEAN /\ w.usable \in BOOLEAN
         /\ w.revisions \in Nat /\ w.yaml \in {"good", "bad", "absent"}
         /\ w.authors \subseteq User /\ IsFiniteSet(w.authors)
         /\ w.authorsFile.readable \in BOOLEAN /\ w.authorsFile.lines \in Seq(AuthorsLine)
         /\ w.rules.rules \in Seq(Range(w.rules.rules))
         /\ \A d \in DOMAIN w.tree :
              DOMAIN w.tree[d] \subseteq Int /\ IsFiniteSet(DOMAIN w.tree[d])
         /\ w.commits \in Seq(Int \X FullSha)
         /\ \A i, j \in DOMAIN w.commits : i # j => w.commits[i][2] # w.commits[j][2]
         /\ Request(w) # {} /\ \A r \in Request(w) : r.samples \in Int

Artifact == {"audit.log", "error_report.txt", "authors-generated.txt",
             "content_validation_report.txt", "svn_to_git_mapping.json", "traceability.db"}

VARIABLES
    world,
    request,        \* Options of the run
    pc,             \* the phase of main that comes next; "idle" before the first run
    success,
    exit,           \* the exit code, Running until there is one
    reported,       \* reporter.hasErrors()
    faults,         \* calls of this run that failed
    layout,         \* branches and tags, as discoverLayout found them
    overlooked,     \* a listing of this run failed and others did not; for the properties
    pending,        \* mappings verify() has not come to
    contentOk,      \* ContentReport::ok
    mapper,         \* the RevisionMapper
    generated,      \* the lines of authors-generated.txt
    file,           \* the artifacts: "absent", left by an "earlier" run, by this one
                    \* "whole" or "partial"
    auditSays,      \* the outcome in audit.log
    nRuns,          \* runs started
    remote          \* what the remote has of the branches and of the tags

run == <<pending, contentOk, mapper, generated, layout, overlooked>>
vars == <<world, request, pc, success, exit, reported, faults, run, file, auditSays, nRuns, remote>>

Running == 3

Reached == {"none", "some", "all"}

Init ==
    /\ world \in World
    /\ request = CHOOSE r \in Request(world) : TRUE
    /\ pc = "idle"
    /\ success = TRUE /\ exit = Running /\ reported = FALSE /\ faults = 0
    /\ layout = {} /\ overlooked = FALSE
    /\ pending = {} /\ contentOk = TRUE
    /\ mapper = EmptyMap /\ generated = <<>>
    /\ file = [f \in Artifact |-> "absent"]
    /\ auditSays = FALSE /\ nRuns = 0
    /\ remote = [branches |-> "none", tags |-> "none"]

(* ------------------------- what the phases have in common ------------------------- *)

Phases == <<"auto-map", "authors", "dry-run", "svn-report", "coverage", "traceability",
            "verify", "push", "outcome">>

Wants(r, phase) ==
    \/ phase = "auto-map" /\ r.autoMap
    \/ phase = "authors" /\ (r.authorsOnly \/ r.dryRun)
    \/ phase \in {"dry-run", "svn-report"} /\ r.dryRun
    \/ phase = "coverage" /\ r.coverage
    \/ phase = "traceability" /\ r.traceability
    \/ phase = "verify" /\ r.verify
    \/ phase = "push" /\ r.push
    \/ phase = "outcome"

\* The phase from the i-th on that comes next, those that were not asked for skipped.
Upcoming(r, i) == Phases[Min({j \in i .. Len(Phases) : Wants(r, Phases[j])})]

After(phase) == Upcoming(request, 1 + CHOOSE i \in DOMAIN Phases : Phases[i] = phase)

Continue(phase) == pc' = After(phase) /\ UNCHANGED <<world, request, exit, nRuns>>

\* The calls that may fail together, and that some did.
Faulty(calls) == {down \in SUBSET calls : faults + Cardinality(down) <= MaxFaults}
Failed(down) == faults' = faults + Cardinality(down)

Svn(call, down) == world.reachable /\ call \notin down
Git(call, down) == world.usable /\ call \notin down

Verdict(ok, reports) ==
    /\ success' = (success /\ ok)
    /\ reported' = (reported \/ reports)

\* A file that cannot be opened stays as it was.
Written(before, down) ==
    CASE "open" \in down                         -> before
      [] "open" \notin down /\ "write" \in down -> "partial"
      [] down \cap {"open", "write"} = {}        -> "whole"

Exits(code) ==
    /\ pc' = "done" /\ exit' = code
    /\ UNCHANGED <<world, request, success, reported, run, nRuns, remote>>

Authors(down) == IF Svn("log", down) THEN world.authors ELSE {}

(* --------------------------------- command line ----------------------------------- *)

NeedsSvnUrl(r) == ~r.debugRules /\ ~(r.traceability /\ r.gitRepo)

Usage(r) ==
    CASE r.bad                                   -> 2
      [] ~r.bad /\ r.help                        -> 0
      [] ~r.bad /\ ~r.help /\ NeedsSvnUrl(r) /\ ~r.url -> 2
      [] ~r.bad /\ ~r.help /\ r.debugRules       -> 0
      [] OTHER                                   -> Running

Start ==
    /\ pc \in {"idle", "done"}
    /\ nRuns < MaxRuns /\ nRuns' = nRuns + 1
    /\ request' \in Request(world)
    /\ exit' = Usage(request')
    /\ pc' = IF exit' = Running THEN Upcoming(request', 1) ELSE "done"
    /\ success' = TRUE /\ reported' = FALSE /\ faults' = 0
    /\ layout' = {} /\ overlooked' = FALSE
    /\ pending' = {} /\ contentOk' = TRUE
    /\ mapper' = EmptyMap /\ generated' = <<>>
    /\ file' = [f \in Artifact |-> IF file[f] = "absent" THEN "absent" ELSE "earlier"]
    /\ UNCHANGED <<world, auditSays, remote>>

(* ----------------------------------- the phases ----------------------------------- *)

AutoMap ==
    /\ pc = "auto-map"
    /\ \E down \in Faulty({"log", "open", "write"}) :
         LET authors == Authors(down)
             written == down \cap {"open", "write"} = {}
         IN  /\ Failed(down)
             /\ Verdict(authors # {} /\ written,
                        \/ authors = {} \/ ~written
                        \/ LoadAuthorsFile(world.authorsFile).reports # {})
             /\ IF authors = {} THEN UNCHANGED <<file, generated>>
                ELSE /\ file' = [file EXCEPT !["authors-generated.txt"] = Written(@, down)]
                     /\ generated' = AutoMapAuthors(world.authorsFile, authors)
    /\ Continue("auto-map")
    /\ UNCHANGED <<layout, overlooked, pending, contentOk, mapper, auditSays,
                   remote>>

ValidateAuthors ==
    /\ pc = "authors"
    /\ \E down \in Faulty({"log"}) :
         LET report == ValidateCoverage(world.authorsFile, Authors(down))
         IN  /\ Failed(down)
             /\ Verdict(report.ok, report.reported)
    /\ IF request.authorsOnly THEN pc' = "authors-outcome" ELSE pc' = After("authors")
    /\ UNCHANGED <<world, request, nRuns, exit, run, file, auditSays, remote>>

\* --validate-authors-only: the result of writing the trail is not looked at.
AuthorsOutcome ==
    /\ pc = "authors-outcome"
    /\ \E trail, report \in Faulty({"open", "write"}) :
         /\ success => report = {}
         /\ faults' = faults + Cardinality(trail) + Cardinality(report)
         /\ faults' <= MaxFaults
         /\ auditSays' = IF "open" \in trail THEN auditSays ELSE success
         /\ file' = [file EXCEPT
                       !["audit.log"] = Written(@, trail),
                       !["error_report.txt"] = IF success THEN @ ELSE Written(@, report)]
    /\ Exits(IF success THEN 0 ELSE 1)

\* ConfigValidator::validateAll and the dry run of the rules; the sample paths, if svn
\* lists any, are only shown with the rules they match.
DryRun ==
    /\ pc = "dry-run"
    /\ LET yamlOk == ~request.orchestration \/ world.yaml = "good"
           reports == \/ LoadAuthorsFile(world.authorsFile).reports # {}
                      \/ ~ValidRules(world.rules)
                      \/ request.orchestration /\ world.yaml = "absent"
       IN  Verdict(AuthorsFilePasses(world.authorsFile) /\ ValidRules(world.rules) /\ yamlOk,
                   reports)
    /\ Continue("dry-run")
    /\ UNCHANGED <<faults, run, file, auditSays, remote>>

\* generatePreMigrationReport: info and the authors decide; counts and sizes that cannot
\* be had are reported and left out.
SvnReport ==
    /\ pc = "svn-report"
    /\ \E down \in Faulty({"info", "log", "count", "size"}) :
         LET answered == Svn("info", down) /\ Svn("log", down)
         IN  /\ Failed(down)
             /\ Verdict(answered /\ world.revisions > 0 /\ world.authors # {},
                        \/ ~answered \/ "size" \in down
                        \/ "count" \in down /\ DOMAIN world.tree # {})
    /\ Continue("svn-report")
    /\ UNCHANGED <<run, file, auditSays, remote>>

Listing(dir) ==
    CASE dir = Trunk -> "root" [] dir \in BranchDir -> "branches" [] dir \in TagDir -> "tags"

\* discoverLayout: a listing that fails is an empty listing.
Discovered(down) == {d \in DOMAIN world.tree : Svn(Listing(d), down)}

Discover(down) ==
    /\ layout' = Discovered(down)
    /\ overlooked' = (overlooked \/ layout' \notin {{}, DOMAIN world.tree})

Rules == world.rules.rules

\* Commits are counted for display, branch by branch and tag by tag.
Coverage ==
    /\ pc = "coverage"
    /\ \E down \in Faulty({"root", "branches", "tags", "count"}) :
         /\ Failed(down)
         /\ IF ~ValidRules(world.rules) THEN Verdict(FALSE, TRUE) /\ UNCHANGED <<layout, overlooked>>
            ELSE /\ Discover(down)
                 /\ LET unmapped == UnmappedDirs(Rules, layout')
                    IN  IF layout' = {} THEN Verdict(FALSE, TRUE)
                        ELSE Verdict(unmapped = {}, unmapped # {} \/ "count" \in down)
    /\ Continue("coverage")
    /\ UNCHANGED <<pending, contentOk, mapper, generated, file, auditSays,
                   remote>>

(* traceability *)

\* Mutant: real revisions as soon as one commit carries one.
UseMetadataOfAny(commits) == \E i \in DOMAIN commits : commits[i][1] > 0

\* withMetadata == commits.size(): real revisions if every commit carries one.
UseMetadata(commits) == \A i \in DOMAIN commits : commits[i][1] > 0

\* The revision the i-th commit is recorded with: its own, or its place.
RevisionOf(commits, i) == IF UseMetadata(commits) THEN commits[i][1] ELSE i

Recorded(commits) ==
    LET after[n \in 0 .. Len(commits)] ==
          IF n = 0 THEN EmptyMap
          ELSE RecordMapping(after[n - 1], RevisionOf(commits, n), commits[n][2])
    IN  after[Len(commits)]

Left(call, down, states) == IF call \in down THEN states ELSE {"whole"}

\* Neither artifact is given up for the other; that one cannot be written is only logged.
\* What is left of the database module RevisionMapper has in detail.
GenerateTraceability ==
    /\ pc = "traceability" /\ request.gitRepo
    /\ \E down \in Faulty({"log", "json", "db"}) :
         /\ Failed(down)
         /\ LET commits == IF Git("log", down) THEN world.commits ELSE <<>>
                partial == \E i \in DOMAIN commits : commits[i][1] > 0
            IN  IF commits = <<>> THEN Verdict(FALSE, TRUE) /\ UNCHANGED <<mapper, file>>
                ELSE /\ Verdict(down = {}, partial /\ ~UseMetadata(commits))
                     /\ mapper' = Recorded(commits)
                     /\ \E json \in Left("json", down, {file["svn_to_git_mapping.json"], "partial"}),
                           db \in Left("db", down, {file["traceability.db"], "absent", "partial"}) :
                          file' = [file EXCEPT !["svn_to_git_mapping.json"] = json,
                                               !["traceability.db"] = db]
    /\ Continue("traceability")
    /\ UNCHANGED <<layout, overlooked, pending, contentOk, generated, auditSays, remote>>

LacksGitRepo ==
    /\ pc \in {"traceability", "verify", "push"} /\ ~request.gitRepo
    /\ Exits(2)
    /\ UNCHANGED <<faults, file, auditSays>>

(* content *)

Repositories(mappings) == {m.repository : m \in mappings}

Selected(mappings) ==
    {m \in mappings : request.target = NoName \/ m.repository = request.target}

\* The target names a repository of no rule, or is missing though there are several.
Ambiguous(mappings) ==
    IF request.target # NoName THEN Selected(mappings) = {}
    ELSE Cardinality(Repositories(mappings)) > 1

\* The layout and what it is to be compared with.  Without a scratch file every file
\* counts as one that cannot be hashed, which a single failing hash stands for.
VerifyContent ==
    /\ pc = "verify" /\ request.gitRepo
    /\ \E down \in Faulty({"root", "branches", "tags", "rev-parse"}) :
         /\ Failed(down)
         /\ Discover(down)
         /\ LET mappings == IF request.rules THEN MapWithRules(Rules, layout')
                            ELSE StandardLayoutMappings(layout')
                unmapped == request.rules /\ UnmappedDirs(Rules, layout') # {}
            IN  IF layout' = {} \/ (request.rules /\ ~ValidRules(world.rules))
                THEN /\ Verdict(FALSE, TRUE)
                     /\ pc' = After("verify")
                     /\ UNCHANGED <<exit, pending, contentOk>>
                ELSE IF request.rules /\ Ambiguous(mappings)
                THEN /\ Verdict(~unmapped, unmapped)
                     /\ pc' = "done" /\ exit' = 2
                     /\ UNCHANGED <<pending, contentOk>>
                ELSE /\ Verdict(~unmapped, unmapped \/ ~Git("rev-parse", down))
                     /\ contentOk' = Git("rev-parse", down)
                     /\ pending' = IF ~contentOk' THEN {}
                                   ELSE IF request.rules THEN Selected(mappings) ELSE mappings
                     /\ pc' = "content" /\ UNCHANGED exit
    /\ UNCHANGED <<world, request, nRuns, mapper, generated, file, auditSays, remote>>

\* One turn of the loop of verify().  A ref that cannot be listed is missing or, if it can
\* be resolved all the same, a failure of git.
VerifyRef ==
    /\ pc = "content" /\ pending # {}
    /\ LET m == CHOOSE m \in pending : TRUE
           svnFiles == world.tree[m.dir]
       IN  \E down \in Faulty({"list", "ls-tree", "rev-parse", "hash"}) :
             /\ Failed(down)
             /\ LET listed == Svn("list", down) /\ Git("ls-tree", down) /\ m.ref \in DOMAIN world.refs
                IN  \E unhashed \in SUBSET (DOMAIN svnFiles) :
                      /\ (unhashed # {}) <=> ("hash" \in down)
                      /\ LET ok == listed /\ RefContentOk(svnFiles, world.refs[m.ref], m.prefix,
                                                          request.samples, unhashed)
                         IN  /\ contentOk' = (contentOk /\ ok)
                             /\ reported' = (reported \/ ~ok)
             /\ pending' = pending \ {m}
    /\ UNCHANGED <<world, request, nRuns, pc, success, exit, layout, overlooked, mapper, generated,
                   file, auditSays, remote>>

\* A content report that cannot be written is an error, not a failure.
ContentReport ==
    /\ pc = "content" /\ pending = {}
    /\ \E down \in Faulty({"open", "write"}) :
         /\ Failed(down)
         /\ Verdict(contentOk, down # {})
         /\ file' = [file EXCEPT !["content_validation_report.txt"] = Written(@, down)]
    /\ Continue("verify")
    /\ UNCHANGED <<run, auditSays, remote>>

(* push *)

\* Mutant: dangling commits are not looked for.
IntactUnlessCorrupt == world.fsck # "corrupt"

Intact == world.fsck = "clean"

\* validateRepositoryIntegrity, the guard of the push; earlier failures are none.
ValidateIntegrity ==
    /\ pc = "push" /\ request.gitRepo
    /\ \E down \in Faulty({"fsck"}) :
         LET ok == Git("fsck", down) /\ Intact
         IN  /\ Failed(down)
             /\ Verdict(ok, ~ok)
             /\ pc' = IF ok THEN "push-all" ELSE "outcome"
    /\ UNCHANGED <<world, request, nRuns, exit, run, file, auditSays, remote>>

\* A push that fails may have reached some refs.
Pushed(before, down) ==
    IF down = {} THEN {"all"} ELSE {before, IF before = "all" THEN "all" ELSE "some"}

PushAll ==
    /\ pc = "push-all"
    /\ \E down \in Faulty({"push"}) :
         /\ Failed(down)
         /\ Verdict(down = {}, down # {})
         /\ \E r \in Pushed(remote.branches, down) : remote' = [remote EXCEPT !.branches = r]
         /\ pc' = IF down = {} THEN "push-tags" ELSE "outcome"
    /\ UNCHANGED <<world, request, nRuns, exit, run, file, auditSays>>

PushTags ==
    /\ pc = "push-tags"
    /\ \E down \in Faulty({"push"}) :
         /\ Failed(down)
         /\ Verdict(down = {}, down # {})
         /\ \E r \in Pushed(remote.tags, down) : remote' = [remote EXCEPT !.tags = r]
    /\ pc' = "outcome"
    /\ UNCHANGED <<world, request, nRuns, exit, run, file, auditSays>>

(* the end *)

\* Mutant: nobody looks whether the trail was written.
TrailIgnored(down) == TRUE

TrailWritten(down) == down = {}

\* The outcome goes into the trail before it is known whether the trail can be written.
Outcome ==
    /\ pc = "outcome"
    /\ \E down \in Faulty({"open", "write"}) :
         /\ Failed(down)
         /\ auditSays' = IF "open" \in down THEN auditSays ELSE success
         /\ file' = [file EXCEPT !["audit.log"] = Written(@, down)]
         /\ success' = (success /\ TrailWritten(down))
    /\ pc' = "report"
    /\ UNCHANGED <<world, request, nRuns, exit, reported, run, remote>>

\* The error report; nobody asks whether it was written.
Report ==
    /\ pc = "report"
    /\ \E down \in Faulty({"open", "write"}) :
         /\ ~reported => down = {}
         /\ Failed(down)
         /\ file' = [file EXCEPT !["error_report.txt"] = IF reported THEN Written(@, down) ELSE @]
    /\ Exits(IF success THEN 0 ELSE 1)
    /\ UNCHANGED auditSays

Next ==
    \/ Start \/ AutoMap \/ ValidateAuthors \/ AuthorsOutcome \/ DryRun \/ SvnReport
    \/ Coverage \/ GenerateTraceability \/ LacksGitRepo
    \/ VerifyContent \/ VerifyRef \/ ContentReport
    \/ ValidateIntegrity \/ PushAll \/ PushTags \/ Outcome \/ Report

Spec == Init /\ [][Next]_vars

(* --------------------------------- properties ------------------------------------- *)

TypeOK ==
    /\ request \in Request(world)
    /\ pc \in Range(Phases) \cup {"idle", "authors-outcome", "content", "push-all", "push-tags",
                                  "report", "done"}
    /\ exit \in {0, 1, 2, Running}
    /\ {success, reported, overlooked, contentOk, auditSays} \subseteq BOOLEAN
    /\ faults \in 0 .. MaxFaults
    /\ layout \subseteq DOMAIN world.tree
    /\ \A m \in pending : m.dir \in layout
    /\ DOMAIN mapper.byRevision \cup mapper.duplicateRevisions \subseteq Nat \ {0}
    /\ Range(generated) \subseteq AuthorsLine
    /\ file \in [Artifact -> {"absent", "earlier", "partial", "whole"}]
    /\ remote \in [branches : Reached, tags : Reached]

\* What the checks are there to establish, said of the world.

AuthorsCovered ==
    LET lines == world.authorsFile.lines
    IN  /\ world.reachable /\ world.authors # {}
        /\ world.authorsFile.readable
        /\ \A u \in world.authors :
             \E i \in DOMAIN lines :
               /\ lines[i] = [user |-> u, identity |-> "valid"]
               /\ \A j \in DOMAIN lines : j # i => ~(lines[j].user = u /\ IsMapping(lines[j]))
        /\ \A i, j \in DOMAIN lines :
             IsMapping(lines[i]) /\ IsMapping(lines[j]) /\ lines[i].user = lines[j].user => i = j

ConfigurationGood ==
    LET lines == world.authorsFile.lines
    IN  /\ lines # <<>>
        /\ \A i \in DOMAIN lines : lines[i].identity = "valid"
        /\ ValidRules(world.rules)
        /\ request.orchestration => world.yaml = "good"
        /\ world.revisions > 0

\* Every directory of the layout has a rule that looks at it.
EverythingHasARule ==
    \A d \in DOMAIN world.tree :
      \E i \in DOMAIN Rules : Rules[i].pattern \notin BadPattern /\ MatchesPath(Rules[i].pattern, d)

CoverageComplete ==
    /\ world.reachable /\ ValidRules(world.rules)
    /\ DOMAIN world.tree # {}
    /\ EverythingHasARule

\* Some commits carry the metadata of their revision and some do not.
PartlyEmbedded ==
    \E i, j \in DOMAIN world.commits : world.commits[i][1] > 0 /\ ~(world.commits[j][1] > 0)

\* The map leads from every commit that carries a revision to that revision, if no other
\* commit has it; positions are in the map only when no commit carries one.
MapComplete ==
    \A i \in DOMAIN world.commits :
      LET real == world.commits[i][1]
          others == {j \in DOMAIN world.commits \ {i} : world.commits[j][1] = real}
          found == FindSvnRevisionByGitCommit(mapper, world.commits[i][2])
      IN  IF \E j \in DOMAIN world.commits : world.commits[j][1] > 0
          THEN /\ real > 0 /\ others = {} => found = real
               /\ ~(real > 0) => found = NoRevision
          ELSE found = i

Traced ==
    /\ world.usable /\ world.commits # <<>>
    /\ file["svn_to_git_mapping.json"] = "whole" /\ file["traceability.db"] = "whole"
    /\ PartlyEmbedded \/ MapComplete

\* A file of Subversion is in git, or is there with the same content.
Kept(m, f) == m.ref \in DOMAIN world.refs /\ <<m.prefix, f>> \in DOMAIN world.refs[m.ref]
Same(m, f) == Kept(m, f) /\ world.refs[m.ref][<<m.prefix, f>>] = world.tree[m.dir][f]

\* Where the directories the run is about are to be found.
Expected ==
    IF request.rules THEN Selected(MapWithRules(Rules, DOMAIN world.tree))
    ELSE StandardLayoutMappings(DOMAIN world.tree)

Comparable ==
    /\ world.reachable /\ world.usable
    /\ DOMAIN world.tree # {}
    /\ request.rules => ValidRules(world.rules) /\ EverythingHasARule
    /\ \A m \in Expected :
         m.ref \in DOMAIN world.refs /\ \A f \in DOMAIN world.tree[m.dir] : Kept(m, f)

ContentSame ==
    Comparable /\ \A m \in Expected : \A f \in DOMAIN world.tree[m.dir] : Same(m, f)

\* As many files as were asked for were compared and are the same.
SampleSame ==
    /\ Comparable
    /\ \A m \in Expected :
         LET size == Cardinality(DOMAIN world.tree[m.dir])
         IN  Cardinality({f \in DOMAIN world.tree[m.dir] : Same(m, f)}) >=
               IF request.samples \in 1 .. size THEN request.samples ELSE size

Requested(contentSame) ==
    /\ request.autoMap => /\ world.reachable /\ world.authors # {}
                          /\ file["authors-generated.txt"] = "whole"
                          /\ {generated[i].user : i \in DOMAIN generated} = world.authors
                          /\ Duplicates(generated) = {}
    /\ request.authorsOnly \/ request.dryRun => AuthorsCovered
    /\ ~request.authorsOnly =>
         /\ request.dryRun => ConfigurationGood
         /\ request.coverage => CoverageComplete
         /\ request.traceability => Traced
         /\ request.verify => contentSame
         /\ request.push => world.fsck = "clean" /\ remote = [branches |-> "all", tags |-> "all"]

Ended == pc = "done" /\ Usage(request) = Running

\* The exit code is a verdict on the world: 0 is only returned when everything that was
\* asked for is as it should be, for content as far as it was sampled, and if no call has
\* failed 1 is only returned when something is not.  A listing that fails while another
\* one works is excepted, see NoPartialLayout, and so is what the map says of commits only
\* some of which carry metadata, see RealRevisionsKept.
VerdictExact ==
    Ended =>
      /\ exit = 0 /\ ~overlooked => Requested(SampleSame)
      /\ exit = 1 /\ faults = 0 => ~Requested(ContentSame)

\* The claim of src/README.md:52, that --validate-rules-coverage checks "trunk + every real
\* branch and tag": a run that finds the rules complete has looked at every directory.
NoPartialLayout ==
    Ended /\ exit = 0 /\ request.coverage => EverythingHasARule

\* "Only when NO commit carries metadata does the tool fall back to sequential numbering"
\* (svn_to_git_app.cpp:350-352): a run that succeeds has not given the revisions of a
\* history away for positions.
RealRevisionsKept ==
    Ended /\ exit = 0 /\ request.traceability /\ ~request.authorsOnly => MapComplete

\* audit.log and error_report.txt of a run agree with its exit code: the trail says
\* success when the code is 0, and is there unless only the authors were checked; an error
\* report is written only when there was something to report, and nothing that failed goes
\* without one unless the disk failed or the cause is one that is only logged.
RecordsAgree ==
    Ended /\ exit # 2 =>
      /\ file["audit.log"] = "whole" => (auditSays <=> exit = 0)
      /\ exit = 0 /\ ~request.authorsOnly => file["audit.log"] = "whole"
      /\ file["error_report.txt"] \in {"partial", "whole"} => reported
      /\ exit = 1 /\ faults = 0 =>
           \/ file["error_report.txt"] = "whole"
           \/ /\ request.dryRun
              /\ \/ world.yaml = "bad" \/ world.revisions = 0
                 \/ ~\E i \in DOMAIN world.authorsFile.lines : IsMapping(world.authorsFile.lines[i])

\* Nothing reaches the remote from a repository that git fsck complains of, nor a tag
\* without all branches, in whatever order runs fail and are repeated.
OnlySoundPushed ==
    [][/\ remote' # remote => world.fsck = "clean" /\ request.gitRepo
       /\ remote'.tags # remote.tags => remote.branches = "all"]_vars
=============================================================================
