------------------------------ MODULE RuleLines ------------------------------
(***************************************************************************)
(* A rules file, line by line, as its two readers see it: Rules::load of   *)
(* the converter (src/src/ruleparser.cpp) and parseFile of the validator   *)
(* (src/src/rules_validator.cpp).  A line is a keyword and its argument,   *)
(* comments and blank lines taken out; what a single line does to an open  *)
(* block is here, the files and the blocks are in module RulesFiles.       *)
(***************************************************************************)
EXTENDS Integers, Sequences, FiniteSets, SequencesExt

CONSTANTS
    File,             \* names of rules files
    Name,             \* names of repositories, branches and prefixes
    Pattern,          \* regular expressions
    Variable,         \* texts with a ${...}, where a name or a pattern may stand
    BackReference,    \* the names and such texts with a \1 for what the pattern captured
    Expand(_, _, _),  \* Expand(n, p, path): n with \1 filled in where p matches path
    BadPattern,       \* the patterns that do not compile
    Path,             \* Subversion paths
    MatchesPath(_, _),\* MatchesPath(p, path): p matches path from its start
    NoName,           \* the empty string
    NoArg,            \* an argument that is missing or of the wrong form
    Loose             \* arguments of a form that only the validator takes: NAME= without
                      \* a value, a repository or branch of several words

ASSUME RuleLinesAssumption ==
    /\ BadPattern \subseteq Pattern
    /\ BackReference \subseteq Name \cup Variable

Unset == -1           \* minRevision and maxRevision without a line of their own

Line(keyword, arg) == [keyword |-> keyword, arg |-> arg]

IsEnd(l, block) == l.keyword = "end" /\ l.arg = block

\* Rules::Match and MatchRule.  The validator has no action, annotate or substitutions.
NewRule(pattern) ==
    [pattern |-> pattern, repository |-> NoName, branch |-> NoName, prefix |-> NoName,
     min |-> Unset, max |-> Unset,
     action |-> "ignore", annotate |-> FALSE, substituted |-> FALSE]

\* Rules::Repository and RepositoryRule, of which the validator fills in the name.
NewRepository(name) ==
    [name |-> name, forwardTo |-> NoName, prefix |-> NoName,
     described |-> FALSE, branches |-> {}]

Set(rule, keyword, value) ==
    CASE keyword = "repository" -> [rule EXCEPT !.repository = value]
      [] keyword = "branch"     -> [rule EXCEPT !.branch = value]
      [] keyword = "prefix"     -> [rule EXCEPT !.prefix = value]
      [] keyword = "min"        -> [rule EXCEPT !.min = value]
      [] keyword = "max"        -> [rule EXCEPT !.max = value]
      [] keyword = "action"     -> [rule EXCEPT !.action = value]
      [] keyword = "annotated"  -> [rule EXCEPT !.annotate = value = "true"]
      [] keyword = "substitute" -> [rule EXCEPT !.substituted = TRUE]

Actions == {"ignore", "export", "recurse"}

\* The validator, inside a match block: the keywords it knows ...
ValidatorKnows(l) ==
    l.keyword \in {"repository", "branch", "prefix", "min", "max", "action"}

\* ... those of them it complains about (a missing number is stored as -1) ...
ValidatorRejects(l) ==
    \/ ~ValidatorKnows(l)
    \/ l.keyword \in {"min", "max"} /\ l.arg = NoArg
    \/ l.keyword = "action" /\ l.arg \notin Actions

\* Mutant: a number that cannot be read is stored as it is.
ValidatorSetUnparsed(rule, l) ==
    IF ~ValidatorKnows(l) \/ l.keyword = "action" THEN rule
    ELSE Set(rule, l.keyword, l.arg)

\* ... and what it keeps; an action is checked and forgotten, an empty argument taken.
ValidatorSet(rule, l) ==
    IF ~ValidatorKnows(l) \/ l.keyword = "action" THEN rule
    ELSE IF l.arg # NoArg THEN Set(rule, l.keyword, l.arg)
    ELSE Set(rule, l.keyword, IF l.keyword \in {"min", "max"} THEN Unset ELSE NoName)

\* The converter, inside a match block.  What it does not know here it reads as a line
\* outside of any block.
ConverterKnows(l) ==
    /\ l.keyword \in {"repository", "branch", "prefix", "min", "max", "action",
                      "annotated", "substitute"}
    /\ l.arg \notin {NoArg} \cup Loose

ConverterAborts(l) ==
    \/ l.keyword = "action" /\ l.arg \notin Actions
    \/ l.keyword = "substitute" /\ l.arg = "malformed"

\* A rule with a repository exports, whatever its action says.
ConverterEnds(rule) ==
    IF rule.repository # NoName THEN [rule EXCEPT !.action = "export"] ELSE rule

\* The converter, inside a repository block.
ConverterKnowsOfRepository(l) ==
    /\ l.keyword \in {"repository", "branch", "prefix", "description"}
    /\ l.arg \notin {NoArg} \cup Loose

SetRepository(repo, l) ==
    CASE l.keyword = "repository"  -> [repo EXCEPT !.forwardTo = l.arg]
      [] l.keyword = "branch"      -> [repo EXCEPT !.branches = @ \cup {l.arg}]
      [] l.keyword = "prefix"      -> [repo EXCEPT !.prefix = l.arg]
      [] l.keyword = "description" -> [repo EXCEPT !.described = TRUE]

Contradicts(repo) ==
    repo.forwardTo # NoName /\ (repo.described \/ repo.branches # {})

\* RulesValidator::analyze: what makes rules that parse invalid all the same.
DuplicateRepository(repositories) ==
    \E i, j \in DOMAIN repositories : i # j /\ repositories[i] = repositories[j]

\* A repository with a back-reference is known only when a path is matched.
\* Mutant: the patterns are not compiled.
AnalyzeRejectsNoPattern(rules, repositories) ==
    \/ DuplicateRepository(repositories)
    \/ rules = <<>>
    \/ \E i \in DOMAIN rules :
         \/ rules[i].repository \notin Range(repositories) \cup {NoName} \cup BackReference
         \/ rules[i].min >= 0 /\ rules[i].max >= 0 /\ rules[i].min > rules[i].max

AnalyzeRejects(rules, repositories) ==
    \/ DuplicateRepository(repositories)
    \/ rules = <<>>
    \/ \E i \in DOMAIN rules :
         \/ rules[i].pattern \in BadPattern
         \/ rules[i].repository \notin Range(repositories) \cup {NoName} \cup BackReference
         \/ rules[i].min >= 0 /\ rules[i].max >= 0 /\ rules[i].min > rules[i].max

NoRule == 0

First(rules, Good(_)) == SelectInSeq(rules, Good)

\* RulesValidator::firstMatch, the dry run: revisions are ignored.
FirstMatch(rules, path) ==
    First(rules, LAMBDA r : r.pattern \notin BadPattern /\ MatchesPath(r.pattern, path))

\* dryRun: the paths that "would be dropped"; they are only warned about.
DryRunUnmatched(rules, paths) == {path \in paths : FirstMatch(rules, path) = NoRule}

\* Mutant: a rule that has ended is tried in its turn.
ResolvingRuleInOrder(rules, path) == FirstMatch(rules, path)

\* resolveTarget: rules without an end first, the others if there is none.
ResolvingRule(rules, path) ==
    LET unbounded == First(rules, LAMBDA r : /\ r.max < 0
                                             /\ r.pattern \notin BadPattern
                                             /\ MatchesPath(r.pattern, path))
    IN  IF unbounded # NoRule THEN unbounded ELSE FirstMatch(rules, path)

Unmapped == [kind |-> "unmapped"]
Ignored  == [kind |-> "ignored"]
Mapped(repository, branch, prefix) ==
    [kind |-> "mapped", repository |-> repository, branch |-> branch, prefix |-> prefix]

Master == "master"

ResolveTarget(rules, path) ==
    LET i == ResolvingRule(rules, path)
    IN  IF i = NoRule THEN Unmapped
        ELSE IF rules[i].repository = NoName THEN Ignored
        ELSE LET Expanded(text) == Expand(text, rules[i].pattern, path)
             IN  Mapped(Expanded(rules[i].repository),
                        IF rules[i].branch = NoName THEN Master ELSE Expanded(rules[i].branch),
                        Expanded(rules[i].prefix))

\* findMatchRule of svn.cpp: the rule the converter goes by at a revision.
FindMatchRule(rules, revnum, path) ==
    First(rules, LAMBDA r : /\ r.min <= revnum
                            /\ r.max = Unset \/ r.max >= revnum
                            /\ MatchesPath(r.pattern, path))
=============================================================================
