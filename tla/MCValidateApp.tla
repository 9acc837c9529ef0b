---------------------------- MODULE MCValidateApp ----------------------------
(* ValidateApp for TLC: worlds that differ from a sound one in one respect at a time,  *)
(* and the command lines that look at it, for one check or for several.                *)
EXTENDS ValidateApp

CONSTANTS trunk, b1, t1,       \* directories of the layout and, but for trunk, their refs
          r1, r2, pre, back,   \* repositories, a prefix and the name "\1"
          bad,                 \* a pattern that does not compile
          ann, bob,            \* authors
          h, s1, s2            \* the digits of the names of two commits

MCName == {r1, r2, b1, t1, pre, back}
MCPath == {trunk, b1, t1}
MCPattern == (SUBSET MCPath) \cup {bad}
MCMatchesPath(p, path) == path \in p
MCExpand(text, p, path) == IF text = back THEN path ELSE text

To(pattern, repository, branch) ==
    [NewRule(pattern) EXCEPT !.repository = repository, !.branch = branch]

MCValidRules(rules) == ~AnalyzeRejects(rules.rules, rules.repositories)

RuleSet(list) == [rules |-> list, repositories |-> <<r1, r2>>]

TrunkRule == To({trunk}, r1, NoName)
RestRules == <<To({b1}, r1, b1), To({t1}, r1, t1)>>
GoodRules == RuleSet(<<TrunkRule>> \o RestRules)

RuleSets ==
    {GoodRules,
     RuleSet(<<[TrunkRule EXCEPT !.prefix = pre]>> \o RestRules),
     RuleSet(<<TrunkRule, To({b1}, r2, b1), To({t1}, r1, t1)>>),
     RuleSet(<<TrunkRule, To({b1, t1}, r1, back)>>),
     RuleSet(<<TrunkRule, To({t1}, r1, t1)>>),
     RuleSet(<<[To(MCPath, r1, t1) EXCEPT !.max = 1], TrunkRule, To({b1, t1}, NoName, NoName)>>),
     RuleSet(<<To({bad}, r1, NoName)>>), RuleSet(<<To(bad, r1, NoName)>> \o RestRules)}

Author(u, i) == [user |-> u, identity |-> i]

GoodAuthors == [readable |-> TRUE, lines |-> <<Author(ann, "valid"), Author(bob, "valid")>>]

AuthorsFiles ==
    {[readable |-> FALSE, lines |-> <<>>]} \cup
    {[readable |-> TRUE, lines |-> l] :
       l \in {<<>>} \cup {<<Author(ann, i)>> : i \in Identity} \cup
             {<<Author(u, i), Author(v, j)>> :
                u, v \in {ann, bob}, i, j \in Identity \cup {"malformed"}}}

\* Trunk has three files of one content.
Tree(dirs) == [d \in dirs |-> IF d = trunk THEN [f \in {1, 2, 3} |-> "a"] ELSE [f \in {1} |-> "a"]]

Blobs(prefix, content) == [p \in {prefix} \X DOMAIN content |-> content[p[2]]]

Refs(prefix, content) ==
    [r \in {Master, b1, t1} |->
       IF r = Master THEN Blobs(prefix, content) ELSE Blobs(NoName, [f \in {1} |-> "a"])]

Whole == [f \in {1, 2, 3} |-> "a"]

Sound ==
    [reachable |-> TRUE, revisions |-> 4, authors |-> {ann, bob}, tree |-> Tree(MCPath),
     usable |-> TRUE, refs |-> Refs(NoName, Whole), commits |-> <<<<1, <<h, s1>>>>>>,
     fsck |-> "clean", rules |-> GoodRules, authorsFile |-> GoodAuthors, yaml |-> "good"]

Without(r, refs) == [s \in DOMAIN refs \ {r} |-> refs[s]]

Trunks == UNION {[s -> {"a", "b"}] : s \in SUBSET {1, 2, 3}}

Commits ==
    UNION {{[i \in 1 .. n |-> <<rev[i], <<h, IF i = 1 THEN s1 ELSE s2>>>>] : rev \in [1 .. n -> {-1, 1, 2}]} : n \in 0 .. 2}

AuthorWorlds ==
    {[Sound EXCEPT !.authorsFile = f, !.authors = a] :
       f \in AuthorsFiles, a \in {{}, {ann}, {ann, bob}}}
    \cup {[Sound EXCEPT !.yaml = y] : y \in {"bad", "absent"}}
    \cup {[Sound EXCEPT !.revisions = 0]}

RuleWorlds ==
    {[Sound EXCEPT !.rules = r, !.tree = Tree(d), !.refs = Refs(p, Whole)] :
       r \in RuleSets, d \in SUBSET MCPath, p \in {NoName, pre}}

ContentWorlds ==
    {[Sound EXCEPT !.refs = Refs(NoName, c)] : c \in Trunks}
    \cup {[Sound EXCEPT !.refs = Without(b1, @)]}

GitWorlds ==
    {[Sound EXCEPT !.commits = c] : c \in Commits}
    \cup {[Sound EXCEPT !.fsck = s] : s \in {"dangling", "corrupt"}}

OtherWorlds == {Sound, [Sound EXCEPT !.reachable = FALSE], [Sound EXCEPT !.usable = FALSE]}

MCWorld == AuthorWorlds \cup RuleWorlds \cup ContentWorlds \cup GitWorlds \cup OtherWorlds

Plain ==
    [bad |-> FALSE, help |-> FALSE, url |-> TRUE, debugRules |-> FALSE, autoMap |-> FALSE,
     authorsOnly |-> FALSE, dryRun |-> FALSE, coverage |-> FALSE, traceability |-> FALSE,
     verify |-> FALSE, push |-> FALSE, rules |-> FALSE, target |-> NoName, gitRepo |-> TRUE,
     orchestration |-> FALSE, samples |-> 0]

AuthorRequests ==
    {[Plain EXCEPT !.autoMap = TRUE, !.authorsOnly = TRUE],
     [Plain EXCEPT !.dryRun = TRUE, !.orchestration = TRUE],
     [Plain EXCEPT !.dryRun = TRUE, !.authorsOnly = TRUE]}

RuleRequests ==
    {[Plain EXCEPT !.coverage = TRUE],
     [Plain EXCEPT !.coverage = TRUE, !.verify = TRUE, !.rules = TRUE],
     [Plain EXCEPT !.verify = TRUE, !.rules = TRUE, !.target = r1]}

ContentRequests ==
    {[Plain EXCEPT !.verify = TRUE], [Plain EXCEPT !.verify = TRUE, !.samples = 2, !.push = TRUE]}

GitRequests ==
    {[Plain EXCEPT !.traceability = TRUE, !.url = FALSE],
     [Plain EXCEPT !.traceability = TRUE, !.push = TRUE],
     [Plain EXCEPT !.push = TRUE]}

OtherRequests ==
    {Plain, [Plain EXCEPT !.bad = TRUE], [Plain EXCEPT !.help = TRUE], [Plain EXCEPT !.url = FALSE],
     [Plain EXCEPT !.debugRules = TRUE],
     [Plain EXCEPT !.coverage = TRUE, !.traceability = TRUE, !.gitRepo = FALSE]}

\* What is worth trying in a world: what looks at the respect in which it differs.
MCRequest(w) ==
    {r \in AuthorRequests : w \in AuthorWorlds \cup OtherWorlds}
    \cup {r \in RuleRequests : w \in RuleWorlds \cup OtherWorlds}
    \cup {r \in ContentRequests : w \in ContentWorlds \cup OtherWorlds}
    \cup {r \in GitRequests : w \in GitWorlds \cup OtherWorlds}
    \cup {r \in OtherRequests : w \in OtherWorlds}
=============================================================================
