------------------------------ MODULE RulesFiles ------------------------------
(***************************************************************************)
(* A rules file and the files it includes go through svn2git-validate and  *)
(* then, accepted or not, through the converter: RulesValidator::validate  *)
(* of src/src/rules_validator.cpp and Rules::load of src/src/ruleparser.cpp.*)
(* Both recurse into an include; the recursion is kept here as a stack of  *)
(* files that are open, the innermost last.                                *)
(***************************************************************************)
EXTENDS RuleLines

CONSTANTS
    VariableIn(_),      \* the variable ${...} of such a text
    Filled(_, _),       \* Filled(x, value): the text x with that value in its place
    Unslashed(_),       \* a prefix without the '/' it may begin with
    Root,               \* the file given with --rules
    Contents,           \* the contents the files may have: functions from File
    Missing,            \* in place of the lines of a file that cannot be opened
    kMaxIncludeDepth,   \* 16 in the code
    MaxOpen,            \* files that fit on the stack of a process
    HEAD                \* the youngest revision

\* What may stand where a repository or a branch is named.
Text == Name \cup Variable \cup Loose

\* The argument a reader's regular expression can find behind a keyword.
TypedLine(l) ==
    /\ l = Line(l.keyword, l.arg)
    /\ l.keyword = "include" => l.arg \in File \cup {NoArg}
    /\ l.keyword \in {"create", "repository", "branch", "prefix"} =>
           l.arg \in Text \cup {NoArg}
    /\ l.keyword = "match" => l.arg \in Pattern \cup Variable \cup {NoArg}
    /\ l.keyword \in {"min", "max"} => l.arg \in Nat \cup {NoArg}
    /\ l.keyword = "declare" => l.arg \in (Variable \X Name) \cup {NoArg} \cup Loose
    /\ l.arg \in Loose => l.keyword \in {"create", "repository", "branch", "declare"}

\* A file is missing or a sequence of such lines.
TypedFile(lines) ==
    \/ lines = Missing
    \/ /\ Len(lines) \in Nat /\ DOMAIN lines = 1 .. Len(lines)
       /\ \A i \in DOMAIN lines : TypedLine(lines[i])

ASSUME RulesFilesAssumption ==
    /\ Root \in File
    /\ \A f \in Contents : DOMAIN f = File /\ \A x \in File : TypedFile(f[x])
    /\ NoName \notin Text /\ NoArg \notin Actions
    /\ Loose \cap (Name \cup {NoArg}) = {}
    /\ \A x \in Variable : x \notin Nat \cup {NoArg} \cup Loose
    /\ \A x \in Variable : VariableIn(x) \in Variable /\ \A n \in Name : Filled(x, n) \in Name
    /\ \A n \in Name \cup Variable : Unslashed(n) \in Name \cup Variable \cup {NoName}
    /\ kMaxIncludeDepth \in Nat \ {0} /\ MaxOpen \in Nat \ {0} /\ HEAD \in Nat

VARIABLES
    files,          \* the rules files; neither program changes them
    phase,          \* "validate", "analyze", "load" or "done"
    stack,          \* the open files of the running program
    visited,        \* the files the validator has opened, in all
    errors,         \* RulesValidationResult::errors is not empty
    rules,          \* m_matchRules of the validator
    repositories,   \* m_repositories of the validator, by name
    loadedRules,    \* m_matchRules of the converter
    loadedRepositories,
    variables,      \* m_variables of the converter
    accepted,       \* RulesValidationResult::valid
    outcome         \* what became of the converter: "none" as yet, "loaded", "fatal"
                    \* (qFatal) or "overflow"

validator == <<visited, errors, rules, repositories, accepted>>
converter == <<loadedRules, loadedRepositories, variables>>
vars == <<files, phase, stack, validator, converter, outcome>>

Opened(file) ==
    [file |-> file, line |-> 1, block |-> "None",
     rule |-> NewRule(NoArg), repo |-> NewRepository(NoName)]

Init ==
    /\ files \in Contents
    /\ phase = "validate"
    /\ stack = <<Opened(Root)>>
    /\ visited = {Root}
    /\ errors = FALSE
    /\ rules = <<>> /\ repositories = <<>>
    /\ loadedRules = <<>> /\ loadedRepositories = <<>>
    /\ variables = [v \in {} |-> NoName]
    /\ accepted = FALSE
    /\ outcome = "none"

Top == Last(stack)
Readable == files[Top.file] # Missing
HasLine == Readable /\ Top.line <= Len(files[Top.file])
Current == files[Top.file][Top.line]
AtEnd == Readable /\ Top.line > Len(files[Top.file])

\* The line has been read and left the innermost frame as given.
Read(frame) == [stack EXCEPT ![Len(stack)] = [frame EXCEPT !.line = @ + 1]]

Validating == phase = "validate" /\ stack # <<>>

(* ------------------------------ the validator ------------------------------ *)

ValidatorOpens ==
    /\ Validating /\ HasLine /\ Top.block = "None"
    /\ Current.keyword \in {"create", "match"}
    /\ IF Current.arg = NoArg THEN stack' = Read(Top) /\ errors' = TRUE
       ELSE /\ stack' = Read(IF Current.keyword = "create"
                             THEN [Top EXCEPT !.block = "Repository",
                                              !.repo = NewRepository(Current.arg)]
                             ELSE [Top EXCEPT !.block = "Match",
                                              !.rule = NewRule(Current.arg)])
            /\ UNCHANGED errors
    /\ UNCHANGED <<files, phase, visited, rules, repositories, accepted, converter, outcome>>

\* Mutant: neither guard of parseFile.
MayIncludeAnything(file) == TRUE

\* depth is one less than the files open; visited is never taken back.
MayInclude(file) == Len(stack) < kMaxIncludeDepth /\ file \notin visited

ValidatorIncludes ==
    /\ Validating /\ HasLine /\ Top.block = "None"
    /\ Current.keyword = "include"
    /\ IF Current.arg # NoArg /\ MayInclude(Current.arg)
       THEN /\ Len(stack) < MaxOpen
            /\ stack' = Append(Read(Top), Opened(Current.arg))
            /\ visited' = visited \cup {Current.arg}
            /\ UNCHANGED errors
       ELSE stack' = Read(Top) /\ errors' = TRUE /\ UNCHANGED visited
    /\ UNCHANGED <<files, phase, rules, repositories, accepted, converter, outcome>>

\* A declaration is looked at for its '=' only; its argument is the pair it declares.
ValidatorReadsOther ==
    /\ Validating /\ HasLine /\ Top.block = "None"
    /\ Current.keyword \notin {"create", "match", "include"}
    /\ stack' = Read(Top)
    /\ errors' = (errors \/ Current.keyword # "declare" \/ Current.arg = NoArg)
    /\ UNCHANGED <<files, phase, visited, rules, repositories, accepted, converter, outcome>>

\* Whatever stands in a repository block is accepted up to its end.
ValidatorInRepository ==
    /\ Validating /\ HasLine /\ Top.block = "Repository"
    /\ IF IsEnd(Current, "repository")
       THEN /\ repositories' = Append(repositories, Top.repo.name)
            /\ stack' = Read([Top EXCEPT !.block = "None"])
       ELSE stack' = Read(Top) /\ UNCHANGED repositories
    /\ UNCHANGED <<files, phase, visited, errors, rules, accepted, converter, outcome>>

ValidatorInMatch ==
    /\ Validating /\ HasLine /\ Top.block = "Match"
    /\ IF IsEnd(Current, "match")
       THEN /\ rules' = Append(rules, Top.rule)
            /\ stack' = Read([Top EXCEPT !.block = "None"])
            /\ UNCHANGED errors
       ELSE /\ stack' = Read([Top EXCEPT !.rule = ValidatorSet(@, Current)])
            /\ errors' = (errors \/ ValidatorRejects(Current))
            /\ UNCHANGED rules
    /\ UNCHANGED <<files, phase, visited, repositories, accepted, converter, outcome>>

Unterminated(frame) == frame.block # "None"

\* The validator is through, the converter is started.
Judge(valid) ==
    /\ accepted' = valid
    /\ phase' = "load"
    /\ stack' = <<Opened(Root)>>

\* parseFile returns: at the end of the file, or at once if it cannot be opened.  Only
\* for the root does its result decide whether the rules are analyzed.
ValidatorReturns ==
    /\ Validating /\ ~HasLine
    /\ errors' = (errors \/ ~Readable \/ Unterminated(Top))
    /\ IF Len(stack) > 1 THEN stack' = Front(stack) /\ UNCHANGED <<phase, accepted>>
       ELSE IF Readable THEN phase' = "analyze" /\ stack' = <<>> /\ UNCHANGED accepted
       ELSE Judge(FALSE)
    /\ UNCHANGED <<files, visited, rules, repositories, converter, outcome>>

\* analyze; the rules are valid if no errors were collected from first to last.
Analyze ==
    /\ phase = "analyze"
    /\ errors' = (errors \/ AnalyzeRejects(rules, repositories))
    /\ Judge(~errors')
    /\ UNCHANGED <<files, visited, rules, repositories, converter, outcome>>

(* ------------------------------ the converter ------------------------------ *)

Loading == phase = "load" /\ stack # <<>>

Abort(how) ==
    /\ outcome' = how
    /\ phase' = "done"
    /\ UNCHANGED <<files, stack, validator, converter>>

Undeclared(l) == l.arg \in Variable /\ VariableIn(l.arg) \notin DOMAIN variables

\* ${...} in any line but an include; a text has one of them.
Substituted(l) ==
    IF l.arg \in Variable /\ ~Undeclared(l)
    THEN [l EXCEPT !.arg = Filled(@, variables[VariableIn(@)])] ELSE l

\* Set, but for the '/' a prefix may begin with; that of a repository block is kept.
ConverterSet(rule, keyword, value) ==
    Set(rule, keyword, IF keyword = "prefix" THEN Unslashed(value) ELSE value)

\* An include is followed from within any block, and nothing counts how deep.
ConverterIncludes ==
    /\ Loading /\ HasLine
    /\ Current.keyword = "include" /\ Current.arg # NoArg
    /\ IF Len(stack) < MaxOpen
       THEN /\ stack' = Append(Read(Top), Opened(Current.arg))
            /\ UNCHANGED <<files, phase, validator, converter, outcome>>
       ELSE Abort("overflow")

IsLine == Loading /\ HasLine /\ ~(Current.keyword = "include" /\ Current.arg # NoArg)

\* The lines that mean something in the block that is open; the others are read as if
\* none were.
InRepository(l) ==
    Top.block = "Repository" /\ (ConverterKnowsOfRepository(l) \/ IsEnd(l, "repository"))
InMatch(l) ==
    Top.block = "Match" /\ (ConverterKnows(l) \/ IsEnd(l, "match"))
InBlock(l) == InRepository(l) \/ InMatch(l)

IsDeclaration(l) == l.keyword = "declare" /\ l.arg \notin {NoArg} \cup Loose
OpensBlock(l) == l.keyword \in {"create", "match"} /\ l.arg \notin {NoArg} \cup Loose

ConverterInRepository ==
    /\ IsLine /\ ~Undeclared(Current)
    /\ LET l == Substituted(Current)
       IN  /\ InRepository(l)
           /\ IF l.keyword # "end"
              THEN stack' = Read([Top EXCEPT !.repo = SetRepository(@, l)])
                   /\ UNCHANGED loadedRepositories
              ELSE /\ ~Contradicts(Top.repo)
                   /\ loadedRepositories' = Append(loadedRepositories, Top.repo)
                   /\ stack' = Read([Top EXCEPT !.block = "None",
                                                !.repo = NewRepository(NoName)])
    /\ UNCHANGED <<files, phase, validator, loadedRules, variables, outcome>>

ConverterInMatch ==
    /\ IsLine /\ ~Undeclared(Current)
    /\ LET l == Substituted(Current)
       IN  /\ InMatch(l) /\ ~ConverterAborts(l)
           /\ IF l.keyword # "end"
              THEN stack' = Read([Top EXCEPT !.rule = ConverterSet(@, l.keyword, l.arg)])
                   /\ UNCHANGED loadedRules
              ELSE /\ loadedRules' = Append(loadedRules, ConverterEnds(Top.rule))
                   /\ stack' = Read([Top EXCEPT !.block = "None"])
    /\ UNCHANGED <<files, phase, validator, loadedRepositories, variables, outcome>>

\* A block is opened even if another one is open, which is lost.
ConverterOpens ==
    /\ IsLine /\ ~Undeclared(Current)
    /\ LET l == Substituted(Current)
       IN  /\ ~InBlock(l) /\ OpensBlock(l)
           /\ l.keyword = "match" => l.arg \notin BadPattern
           /\ stack' = Read(IF l.keyword = "create"
                            THEN [Top EXCEPT !.block = "Repository",
                                             !.repo = NewRepository(l.arg)]
                            ELSE [Top EXCEPT !.block = "Match",
                                             !.rule = NewRule(l.arg)])
    /\ UNCHANGED <<files, phase, validator, converter, outcome>>

ConverterDeclares ==
    /\ IsLine /\ ~InBlock(Current) /\ IsDeclaration(Current)
    /\ variables' = [v \in DOMAIN variables \cup {Current.arg[1]} |->
                       IF v = Current.arg[1] THEN Current.arg[2] ELSE variables[v]]
    /\ stack' = Read(Top)
    /\ UNCHANGED <<files, phase, validator, loadedRules, loadedRepositories, outcome>>

\* qFatal: an undeclared variable, a malformed line, pattern, action or substitution, a
\* repository that both forwards and has a description or branches.
ConverterFails ==
    /\ IsLine
    /\ LET l == Substituted(Current)
       IN  \/ Undeclared(Current)
           \/ InMatch(l) /\ ConverterAborts(l)
           \/ InRepository(l) /\ l.keyword = "end" /\ Contradicts(Top.repo)
           \/ ~InBlock(l) /\ ~IsDeclaration(l) /\ ~OpensBlock(l)
           \/ ~InBlock(l) /\ l.keyword = "match" /\ l.arg \in BadPattern
    /\ Abort("fatal")

ConverterCannotOpen == Loading /\ ~Readable /\ Abort("fatal")

\* The end of a file; a block that is still open is forgotten.
ConverterReturns ==
    /\ Loading /\ AtEnd
    /\ stack' = Front(stack)
    /\ IF Len(stack) > 1 THEN UNCHANGED <<phase, outcome>>
       ELSE phase' = "done" /\ outcome' = "loaded"
    /\ UNCHANGED <<files, validator, converter>>

Next ==
    \/ ValidatorOpens
    \/ ValidatorIncludes
    \/ ValidatorReadsOther
    \/ ValidatorInRepository
    \/ ValidatorInMatch
    \/ ValidatorReturns
    \/ Analyze
    \/ ConverterIncludes
    \/ ConverterInRepository
    \/ ConverterInMatch
    \/ ConverterOpens
    \/ ConverterDeclares
    \/ ConverterFails
    \/ ConverterCannotOpen
    \/ ConverterReturns

\* Each program reads on as long as there is a line to read.
Spec == Init /\ [][Next]_vars /\ WF_vars(Next)
-----------------------------------------------------------------------------
Revision == Nat \cup {Unset}
NameOrNone == Text \cup {NoName}

RuleType ==
    [pattern : Pattern \cup Variable \cup Name \cup {NoArg}, repository : NameOrNone,
     branch : NameOrNone, prefix : NameOrNone, min : Revision, max : Revision,
     action : Actions, annotate : BOOLEAN, substituted : BOOLEAN]

\* Everything has its type, and no more files are open than a process can have.
TypeOK ==
    /\ DOMAIN files = File
    /\ phase \in {"validate", "analyze", "load", "done"}
    /\ Len(stack) <= MaxOpen
    /\ \A i \in DOMAIN stack :
          /\ stack[i].file \in File
          /\ stack[i].block \in {"None", "Repository", "Match"}
          /\ stack[i].rule \in RuleType
    /\ visited \subseteq File
    /\ errors \in BOOLEAN
    /\ \A i \in DOMAIN rules : rules[i] \in RuleType
    /\ \A i \in DOMAIN loadedRules : loadedRules[i] \in RuleType
    /\ Range(repositories) \subseteq Text
    /\ accepted \in BOOLEAN
    /\ outcome \in {"none", "loaded", "fatal", "overflow"}

\* What both programs keep of a rule.
Core(rule) ==
    <<rule.pattern, rule.repository, rule.branch, rule.prefix, rule.min, rule.max>>

Cores(list) == [i \in DOMAIN list |-> Core(list[i])]

\* The claim of rules_validator.cpp:149, that includes are followed "mirroring the
\* converter's parser so validation sees the complete effective rule set": the rules
\* the converter loads are those that were validated.
EffectiveRulesSeen ==
    phase = "done" /\ accepted /\ outcome = "loaded" => Cores(loadedRules) = Cores(rules)

\* "Parse the file and run all static checks: syntax, regex validity, unknown repository
\* references" (rules_validator.h:69): rules that pass them are loaded by the converter.
AcceptedIsLoaded == phase = "done" /\ accepted => outcome = "loaded"

\* Line k stands in the block that line i opens.
Within(lines, block, i, k) ==
    /\ i < k
    /\ lines[i].keyword = (IF block = "repository" THEN "create" ELSE "match")
    /\ \A m \in i + 1 .. k - 1 : ~IsEnd(lines[m], block)

\* A file without what the validator overlooks: names left out or of several words, NAME=
\* without a value, variables but in the repository of a rule, where no back-reference may
\* stand beside them, prefixes with a '/' that the converter takes off, and lines of a
\* repository block that the converter does not know there or that contradict each other.
Plain(lines) ==
    /\ \A k \in DOMAIN lines :
          /\ lines[k].keyword \in {"repository", "branch", "prefix"} => lines[k].arg # NoArg
          /\ lines[k].arg \notin Loose
          /\ lines[k].arg \in Variable =>
                lines[k].keyword = "repository" /\ lines[k].arg \notin BackReference
          /\ lines[k].keyword = "prefix" => Unslashed(lines[k].arg) = lines[k].arg
    /\ \A i, k \in DOMAIN lines :
          Within(lines, "repository", i, k) =>
            /\ ConverterKnowsOfRepository(lines[k]) \/ IsEnd(lines[k], "repository")
            /\ lines[k].arg \notin Variable
            /\ ~ /\ lines[k].keyword = "end"
                 /\ \E m, n \in i + 1 .. k - 1 :
                       /\ lines[m].keyword = "repository"
                       /\ lines[n].keyword \in {"branch", "description"}
    /\ \A i, k \in DOMAIN lines :
          Within(lines, "match", i, k) /\ lines[k].keyword = "repository" =>
            \A m \in i + 1 .. k - 1 :
               lines[m].keyword = "repository" => lines[m].arg \notin Variable

AllPlain(f) == \A x \in File : f[x] = Missing \/ Plain(f[x])

\* Of files without what the validator overlooks, rules that validate() accepts are loaded
\* by the converter without qFatal, whatever includes whatever, and are the rules and
\* repositories the validator judged, in the same order.
AcceptedLoads ==
    phase = "done" /\ accepted /\ AllPlain(files) =>
      /\ outcome = "loaded"
      /\ Cores(loadedRules) = Cores(rules)
      /\ [i \in DOMAIN loadedRepositories |-> loadedRepositories[i].name] = repositories

\* What the converter does with a path, by the rule it finds.
Decision(rule, path) ==
    LET Expanded(text) == Expand(text, rule.pattern, path)
    IN  IF rule.action = "ignore" THEN Ignored
        ELSE Mapped(Expanded(rule.repository), Expanded(rule.branch), Expanded(rule.prefix))

\* "Resolve @p path through the rules exactly like the converter ... Resolution targets the
\* HEAD state" (rules_validator.h:96-101): a path the converter has a rule for at HEAD is
\* resolved as that rule says.
ResolvesLikeConverter ==
    phase = "done" /\ accepted /\ outcome = "loaded" =>
      \A path \in Path :
        LET found == FindMatchRule(loadedRules, HEAD, path)
        IN  found # NoRule => ResolveTarget(rules, path) = Decision(loadedRules[found], path)

\* A file whose rules are in force by HEAD, name a branch if they name a repository, and
\* ignore what they match if they do not.
Settled(lines) ==
    /\ \A k \in DOMAIN lines :
          /\ lines[k].keyword = "min" /\ lines[k].arg # NoArg => lines[k].arg <= HEAD
          /\ lines[k].keyword = "action" => lines[k].arg \notin Actions \ {"ignore"}
    /\ \A i, k \in DOMAIN lines :
          /\ Within(lines, "match", i, k) /\ IsEnd(lines[k], "match")
          /\ \E m \in i + 1 .. k - 1 : lines[m].keyword = "repository"
          => \E m \in i + 1 .. k - 1 : lines[m].keyword = "branch"

AllSettled(f) == \A x \in File : f[x] = Missing \/ Settled(f[x])

\* resolveTarget, which --validate-rules-coverage and --verify-content go by, sends every
\* path where the converter sends it at HEAD, past rules that have ended and rules that
\* will, unless the converter's rule is itself one with a max revision; a path the
\* converter has no rule for is mapped only by a rule that has ended, and the dry run
\* calls exactly those paths unmatched that resolveTarget calls unmapped.
SameResolution ==
    phase = "done" /\ accepted /\ AllPlain(files) /\ AllSettled(files) =>
      \A path \in Path :
        LET found == FindMatchRule(loadedRules, HEAD, path)
        IN  /\ found # NoRule =>
                 \/ ResolveTarget(rules, path) = Decision(loadedRules[found], path)
                 \/ loadedRules[found].max # Unset
            /\ found = NoRule =>
                 \/ ResolveTarget(rules, path) = Unmapped
                 \/ rules[ResolvingRule(rules, path)].max \in 0 .. HEAD - 1
            /\ path \in DryRunUnmatched(rules, Path) <=>
                 ResolveTarget(rules, path) = Unmapped

\* Whatever includes whatever, validation ends, and the converter, which has no guard of
\* its own, ends with every rule set that validation accepted.
Ends == <>(phase = "done" /\ (accepted => outcome # "overflow"))
=============================================================================
