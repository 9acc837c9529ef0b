----------------------------- MODULE MCRulesFiles -----------------------------
(* RulesFiles for TLC.  A file is put together from blocks, most of them whole, so   *)
(* that rules of several files meet: in AgreedContents of lines that mean the same   *)
(* to both readers or that the validator refuses, in AnyContents of others as well.  *)
EXTENDS RulesFiles

CONSTANTS main, inc, deep, deeper,      \* files, each included by the one before
          lost,                         \* a file that does not exist
          r1, r2, b1, b2,               \* names
          back, slashed,                \* names "\1" and "/b2"
          v, target,                    \* the texts "${v}" and "${v}\1"
          words, unset,                 \* several words, and "v=" without a value
          p1, p2, bad,                  \* patterns
          onlyFirst, both, neither      \* paths

MCFile == {main, inc, deep, deeper, lost}
MCName == {r1, r2, b1, b2, back, slashed}
MCMatchesPath(p, path) == path = both \/ (path = onlyFirst /\ p = p1)
MCPath == {onlyFirst, both, neither}
MCExpand(text, p, path) == IF text # back THEN text ELSE IF path = onlyFirst THEN b1 ELSE b2
MCVariableIn(text) == v
MCFilled(text, value) == IF text = target THEN back ELSE value
MCUnslashed(prefix) == IF prefix = slashed THEN b2 ELSE prefix

Create(r) == <<Line("create", r), Line("end", "repository")>>
Forward == <<Line("create", r2), Line("repository", r1), Line("prefix", b2),
             Line("end", "repository")>>
Match(p, lines) == <<Line("match", p)>> \o lines \o <<Line("end", "match")>>
To(r, b) == <<Line("repository", r), Line("branch", b)>>
Include(file) == <<Line("include", file)>>

MainBlocks ==
    {Create(r1), Forward,
     Match(p1, To(r1, b1)), Match(p2, To(r1, b2)), Match(p1, <<>>),
     Match(p1, To(r1, b1) \o <<Line("max", 3)>>),
     Match(p2, To(r2, b2) \o <<Line("min", 2)>>),
     Include(inc), <<Line("declare", <<v, r1>>)>>}

IncludedBlocks ==
    {Create(r2),
     Match(p2, To(r2, b2) \o <<Line("prefix", b1)>>),
     Match(p1, To(r1, b1) \o <<Line("min", 4), Line("max", 3)>>),
     Match(bad, To(r1, b1)),
     Match(p1, <<Line("action", "ignore")>>),
     Match(p1, To(v, b1)), Match(p2, To(back, back)),
     Match(p1, To(r1, b1) \o <<Line("annotated", "true")>>),
     Match(p2, To(r1, b1) \o <<Line("min", NoArg)>>),
     <<Line("match", p1), Line("repository", r1)>>,
     <<Line("end", "match")>>,
     Include(main), Include(inc), Include(deep), Include(lost)}

Files(mains, incs, deeps) ==
    {main :> m @@ inc :> i @@ deep :> d @@ deeper :> Match(p2, To(r1, b1)) @@ lost :> Missing :
     m \in mains, i \in incs, d \in deeps}

Mains == {a \o b \o c : a, b, c \in MainBlocks}

\* What the validator accepts of these blocks means the same to both.
AgreedContents ==
    Files(Mains \cup {Create(r1) \o m : m \in Mains}, IncludedBlocks,
          {Match(p1, To(r1, b1)), Include(deeper)})
    \cup Files({Missing}, {Match(p1, To(r1, b1))}, {Match(p1, To(r1, b1))})

\* They are what the properties of RulesFiles are about.
ASSUME AgreedContentsAssumption == \A f \in AgreedContents : AllPlain(f) /\ AllSettled(f)

\* An include where the validator does not look for one.
AnyContents ==
    Files({a \o b \o c : a, b, c \in MainBlocks \cup
             {<<Line("create", r1)>> \o Include(inc) \o <<Line("end", "repository")>>}},
          {Match(p1, To(r1, b1)), Include(main)}, {Match(p1, To(r1, b1))})

\* A given block before or behind one that both parsers understand.
With(block) ==
    Files({block \o m : m \in MainBlocks} \cup {m \o block : m \in MainBlocks},
          {Create(r1) \o Match(p1, To(r1, b1))}, {Match(p1, To(r1, b1))})

\* A variable, declared or not, beside a back-reference.
TargetContents == With(Match(p1, To(target, b1)))

\* A repository whose name has several words.
WordsContents == With(Create(words))

\* A rule that ends after HEAD.
EndingContents == With(Match(p1, To(r1, b2) \o <<Line("max", 7)>>))

\* A prefix that begins with a '/'.
SlashedContents == With(Match(p1, To(r1, b1) \o <<Line("prefix", slashed)>>))

RunContents ==
    AgreedContents \cup TargetContents \cup WordsContents \cup EndingContents \cup SlashedContents
=============================================================================
