---------------------------- MODULE MCSvnExport ----------------------------
(* SvnExport with constants for TLC. *)
EXTENDS SvnExport

\* A project with trunk, branches and tags, and a library; d is a directory, x one that is
\* ignored, and branches/f a file no rule matches.
StandardPaths ==
    << <<"branches">>,
       <<"branches", "b">>, <<"branches", "b", "d">>, <<"branches", "b", "d", "f">>,
       <<"branches", "b", "f">>, <<"branches", "f">>,
       <<"lib">>, <<"lib", "f">>,
       <<"tags">>, <<"tags", "b">>, <<"tags", "b", "f">>,
       <<"trunk">>, <<"trunk", "d">>, <<"trunk", "d", "f">>, <<"trunk", "f">>,
       <<"trunk", "x">>, <<"trunk", "x", "f">> >>

StandardFiles == {p \in ToSet(StandardPaths) : Last(p) = "f"}
StandardDirs  == ToSet(StandardPaths) \ StandardFiles

Rule(pattern, action, repository, branch, group) ==
    [pattern |-> pattern, action |-> action, repository |-> repository, branch |-> branch,
     group |-> group, prefix |-> <<>>]

StandardRules ==
    << Rule(<<"trunk", "x">>, "ignore", "", "", 0),
       Rule(<<"trunk">>, "export", "git", "master", 0),
       Rule(<<"branches", "*">>, "export", "git", "", 2),
       Rule(<<"lib">>, "export", "lib", "side", 0),
       Rule(<<"tags", "*">>, "export", "git", "refs/tags/", 2),
       Rule(<<"tags">>, "recurse", "", "", 0) >>

\* `lib` forwards to `git`.
StandardRepositories ==
    [name \in {"git", "lib"} |->
        IF name = "lib" THEN [forwardTo |-> "git", prefix |-> <<"lib">>]
        ELSE [forwardTo |-> "", prefix |-> <<>>]]

\* What revision 1 imports: the layout, with files or without; or a branch and the library,
\* without a place for tags.
Import(paths) == [p \in paths |-> IF p \in StandardFiles THEN <<p, 1>> ELSE Dir]

Layout == {<<"trunk">>, <<"branches">>, <<"tags">>}

BranchImport ==
    Import({<<"trunk">>, <<"trunk", "f">>, <<"branches">>, <<"branches", "b">>,
            <<"branches", "b", "f">>, <<"lib">>, <<"lib", "f">>})

StandardImports ==
    {Import(Layout),
     Import(Layout \cup {<<"trunk", "d">>, <<"trunk", "d", "f">>, <<"trunk", "f">>}),
     BranchImport}

\* What the theorem about AsksProperly asks for.
ASSUME OneDirectoryAssumption == OneDirectory
=============================================================================
