--------------------------- MODULE RulesFilesProofs ---------------------------
(***************************************************************************)
(* Proofs about module RulesFiles: its types; that the converter loads     *)
(* whatever the validator accepts, as it was judged; and that both find    *)
(* the same rule for a path.                                               *)
(*                                                                         *)
(* What the validator read without complaint is a trace of steps of which  *)
(* it approves (Reached); the converter takes the same steps one by one    *)
(* (LoadInv), and stops at none of them, since a pattern or a variable     *)
(* that would make it stop would still be there at the end of the trace,   *)
(* and would have been rejected (NeverBad).                                *)
(***************************************************************************)
EXTENDS RulesFiles, WellFoundedInduction, SequenceTheorems, TLAPS

\* A set of natural numbers has a least element.
LEMMA Least ==
    ASSUME NEW S, S \subseteq Nat, S # {}
    PROVE  \E i \in S : \A j \in S : i <= j
<1>1. PICK i \in S : \A j \in S : ~ (<<j, i>> \in OpToRel(<, Nat))
  BY NatLessThanWellFounded, WFMin
<1>2. \A j \in S : ~ (j < i)
  BY <1>1 DEF OpToRel
<1>3. QED BY <1>2

\* What holds of 0 and passes on to the next number holds up to n.
LEMMA UpTo ==
    ASSUME NEW n \in Nat, NEW S, 0 \in S, \A k \in 0 .. n - 1 : k \in S => k + 1 \in S
    PROVE  n \in S
<1> DEFINE T == {k \in 0 .. n : k \notin S}
<1>1. T \subseteq Nat
  OBVIOUS
<1> SUFFICES ASSUME n \notin S PROVE FALSE
  OBVIOUS
<1>2. T # {}
  OBVIOUS
<1>3. PICK i \in T : \A j \in T : i <= j
  BY <1>1, <1>2, Least
<1>4. i \in 0 .. n /\ i \notin S /\ i # 0
  OBVIOUS
<1>5. i - 1 \in 0 .. n - 1 /\ ~ (i <= i - 1)
  BY <1>4
<1>6. i - 1 \in S
  BY <1>3, <1>5
<1>7. (i - 1) + 1 \in S /\ (i - 1) + 1 = i
  BY <1>4, <1>5, <1>6
<1>8. QED BY <1>4, <1>7

RepoType ==
    [name : NameOrNone, forwardTo : NameOrNone, prefix : NameOrNone,
     described : BOOLEAN, branches : SUBSET NameOrNone]

\* An open file; a repository block has a name.
Frame ==
    {t \in [file : File, line : Nat \ {0}, block : {"None", "Repository", "Match"},
            rule : RuleType, repo : RepoType] :
        t.block = "Repository" => t.repo.name \in Text}

Types ==
    /\ files \in Contents
    /\ phase \in {"validate", "analyze", "load", "done"}
    /\ stack \in Seq(Frame)
    /\ Len(stack) <= MaxOpen
    /\ phase = "analyze" => stack = <<>>
    /\ visited \subseteq File
    /\ errors \in BOOLEAN
    /\ rules \in Seq(RuleType)
    /\ repositories \in Seq(Text)
    /\ loadedRules \in Seq(RuleType)
    /\ loadedRepositories \in Seq(RepoType)
    /\ DOMAIN variables \subseteq Variable
    /\ \A x \in DOMAIN variables : variables[x] \in Name
    /\ accepted \in BOOLEAN
    /\ outcome \in {"none", "loaded", "fatal", "overflow"}

(* --------------------------- sequences and lines --------------------------- *)

\* A stack with another frame at its end.
LEMMA ChangedLast ==
    ASSUME NEW S, NEW s \in Seq(S), s # <<>>, NEW x \in S
    PROVE  LET q == [s EXCEPT ![Len(s)] = x]
           IN  /\ q \in Seq(S) /\ Len(q) = Len(s) /\ q # <<>>
               /\ q[Len(s)] = x /\ \A i \in 1 .. Len(s) - 1 : q[i] = s[i]
               /\ Len(s) \in Nat \ {0}
  OBVIOUS

\* A sequence with another element.
LEMMA Longer ==
    ASSUME NEW S, NEW s \in Seq(S), NEW x \in S
    PROVE  LET q == Append(s, x)
           IN  /\ q \in Seq(S) /\ Len(q) = Len(s) + 1 /\ q # <<>>
               /\ q[Len(s) + 1] = x /\ \A i \in 1 .. Len(s) : q[i] = s[i]
               /\ Len(s) \in Nat
<1>1. Len(Append(s, x)) = Len(s) + 1 /\ Len(s) \in Nat /\ Len(<<>>) = 0
  OBVIOUS
<1>2. Append(s, x) # <<>>
  BY <1>1
<1>3. QED BY <1>1, <1>2

\* A stack without the frame at its end.
LEMMA Shorter ==
    ASSUME NEW S, NEW s \in Seq(S), s # <<>>
    PROVE  /\ Front(s) \in Seq(S) /\ Len(Front(s)) = Len(s) - 1
           /\ \A i \in 1 .. Len(s) - 1 : Front(s)[i] = s[i]
           /\ Len(s) = 1 => Front(s) = <<>>
           /\ Last(s) = s[Len(s)] /\ Last(s) \in S
           /\ Len(s) \in Nat \ {0}
<1>1. Len(s) \in Nat \ {0}
  OBVIOUS
<1>2. Front(s) = SubSeq(s, 1, Len(s) - 1)
  BY DEF Front
<1>3. /\ SubSeq(s, 1, Len(s) - 1) \in Seq(S) /\ Len(SubSeq(s, 1, Len(s) - 1)) = Len(s) - 1
      /\ \A i \in 1 .. Len(s) - 1 : SubSeq(s, 1, Len(s) - 1)[i] = s[i]
  <2>1. \A i \in 1 .. Len(s) - 1 : s[i] \in S
    OBVIOUS
  <2>2. PICK m : m = Len(s) - 1
    OBVIOUS
  <2>3. m \in Int /\ m - 1 + 1 = m /\ 1 \in Int /\ (1 <= m <=> m # 0) /\ m \in Nat
    BY <1>1, <2>2
  <2>4. /\ SubSeq(s, 1, m) \in Seq(S)
        /\ Len(SubSeq(s, 1, m)) = IF 1 <= m THEN m - 1 + 1 ELSE 0
        /\ \A i \in 1 .. m - 1 + 1 : SubSeq(s, 1, m)[i] = s[1 + i - 1]
    BY <2>1, <2>2, <2>3, SubSeqProperties
  <2>5. \A i \in 1 .. m : 1 + i - 1 = i
    BY <2>3
  <2>6. QED BY <2>2, <2>3, <2>4, <2>5
<1>5. Len(s) = 1 => SubSeq(s, 1, Len(s) - 1) = <<>>
  BY <1>3
<1>6. Last(s) = s[Len(s)] /\ Last(s) \in S
  BY <1>1 DEF Last
<1>7. QED BY <1>1, <1>2, <1>3, <1>5, <1>6

\* What is known of the files.
LEMMA FilesTyped ==
    ASSUME NEW f \in Contents
    PROVE  DOMAIN f = File /\ \A x \in File : TypedFile(f[x])
  BY RulesFilesAssumption

\* The frame a program is in, and the line it reads.
LEMMA TopFacts ==
    ASSUME Types, stack # <<>>
    PROVE  /\ Top \in Frame /\ Top = stack[Len(stack)] /\ Len(stack) \in Nat \ {0}
           /\ Top.file \in File /\ Top.line \in Nat \ {0}
           /\ Readable => /\ Len(files[Top.file]) \in Nat
                          /\ DOMAIN files[Top.file] = 1 .. Len(files[Top.file])
           /\ HasLine => /\ Top.line \in DOMAIN files[Top.file]
                         /\ TypedLine(Current)
           /\ Readable /\ ~HasLine => AtEnd
<1>1. Top \in Frame /\ Top = stack[Len(stack)] /\ Len(stack) \in Nat \ {0}
  BY Shorter DEF Types, Top
<1>2. Top.file \in File /\ Top.line \in Nat \ {0}
  BY <1>1 DEF Frame
<1>3. TypedFile(files[Top.file])
  BY <1>2, FilesTyped DEF Types
<1> DEFINE lines == files[Top.file]
<1>4. Readable => Len(lines) \in Nat /\ DOMAIN lines = 1 .. Len(lines)
                  /\ \A i \in DOMAIN lines : TypedLine(lines[i])
  BY <1>3 DEF TypedFile, Readable
<1>5. HasLine => Readable /\ Top.line <= Len(lines)
  BY DEF HasLine
<1>6. Current = lines[Top.line]
  BY DEF Current
<1>7. AtEnd <=> Readable /\ Top.line > Len(lines)
  BY DEF AtEnd
<1>8. HasLine <=> Readable /\ Top.line <= Len(lines)
  BY DEF HasLine
<1> HIDE DEF lines
<1>9. HasLine => Top.line \in DOMAIN lines /\ TypedLine(Current)
  BY <1>2, <1>4, <1>5, <1>6
<1>10. Readable /\ ~HasLine => AtEnd
  BY <1>2, <1>4, <1>7, <1>8
<1>11. QED BY <1>1, <1>2, <1>4, <1>9, <1>10 DEF lines

\* Reading on in the innermost file.
LEMMA ReadFacts ==
    ASSUME Types, stack # <<>>, NEW t \in Frame
    PROVE  /\ Read(t) \in Seq(Frame) /\ Len(Read(t)) = Len(stack) /\ Read(t) # <<>>
           /\ Read(t)[Len(stack)] = [t EXCEPT !.line = @ + 1]
           /\ \A i \in 1 .. Len(stack) - 1 : Read(t)[i] = stack[i]
           /\ [t EXCEPT !.line = @ + 1] \in Frame
<1> DEFINE x == [t EXCEPT !.line = @ + 1]
<1>1. x \in Frame
  BY DEF Frame
<1>2. Read(t) = [stack EXCEPT ![Len(stack)] = x]
  BY DEF Read
<1>3. stack \in Seq(Frame)
  BY DEF Types
<1> HIDE DEF x
<1>4. /\ Read(t) \in Seq(Frame) /\ Len(Read(t)) = Len(stack) /\ Read(t) # <<>>
      /\ Read(t)[Len(stack)] = x /\ \A i \in 1 .. Len(stack) - 1 : Read(t)[i] = stack[i]
  BY <1>1, <1>2, <1>3, ChangedLast
<1>5. QED BY <1>1, <1>4 DEF x

\* A file just opened.
LEMMA OpenedTyped ==
    ASSUME NEW x \in File
    PROVE  Opened(x) \in Frame
  BY DEF Opened, Frame, NewRule, NewRepository, RuleType, RepoType, NameOrNone, Text, Revision, Actions

(* ------------------------------- the types ------------------------------- *)

\* New rules and repositories, and what a line sets of them.
LEMMA NewTyped ==
    /\ \A x \in Pattern \cup Variable \cup Name \cup {NoArg} : NewRule(x) \in RuleType
    /\ \A x \in NameOrNone : NewRepository(x) \in RepoType /\ NewRepository(x).name = x
  BY DEF NewRule, NewRepository, RuleType, RepoType, NameOrNone, Text, Revision, Actions

\* What Set changes of a rule, for each kind of line.
LEMMA SetFacts ==
    ASSUME NEW rule, NEW value
    PROVE  /\ Set(rule, "repository", value) = [rule EXCEPT !.repository = value]
           /\ Set(rule, "branch", value) = [rule EXCEPT !.branch = value]
           /\ Set(rule, "prefix", value) = [rule EXCEPT !.prefix = value]
           /\ Set(rule, "min", value) = [rule EXCEPT !.min = value]
           /\ Set(rule, "max", value) = [rule EXCEPT !.max = value]
           /\ Set(rule, "action", value) = [rule EXCEPT !.action = value]
           /\ Set(rule, "annotated", value) = [rule EXCEPT !.annotate = value = "true"]
           /\ Set(rule, "substitute", value) = [rule EXCEPT !.substituted = TRUE]
  BY DEF Set

\* A rule stays a rule when a line of it is set.
LEMMA SetTyped ==
    ASSUME NEW rule \in RuleType, NEW k, NEW value,
           \/ k \in {"repository", "branch", "prefix"} /\ value \in NameOrNone
           \/ k \in {"min", "max"} /\ value \in Revision
           \/ k = "action" /\ value \in Actions
           \/ k \in {"annotated", "substitute"}
    PROVE  Set(rule, k, value) \in RuleType
<1>1. CASE k \in {"repository", "branch", "prefix"} /\ value \in NameOrNone
  BY <1>1, SetFacts DEF RuleType
<1>2. CASE k \in {"min", "max"} /\ value \in Revision
  BY <1>2, SetFacts DEF RuleType
<1>3. CASE k = "action" /\ value \in Actions
  BY <1>3, SetFacts DEF RuleType
<1>4. CASE k = "annotated"
  <2>1. (value = "true") \in BOOLEAN
    OBVIOUS
  <2>2. Set(rule, "annotated", value) = [rule EXCEPT !.annotate = value = "true"]
    BY SetFacts
  <2>3. QED BY <1>4, <2>1, <2>2 DEF RuleType
<1>5. CASE k = "substitute"
  <2>1. Set(rule, "substitute", value) = [rule EXCEPT !.substituted = TRUE]
    BY SetFacts
  <2>2. \A x \in BOOLEAN : [rule EXCEPT !.substituted = x] \in RuleType
    BY DEF RuleType
  <2>3. QED BY <1>5, <2>1, <2>2
<1>6. QED BY <1>1, <1>2, <1>3, <1>4, <1>5

\* The same of what the validator makes of a line.
LEMMA ValidatorSetTyped ==
    ASSUME NEW rule \in RuleType, NEW l, TypedLine(l)
    PROVE  ValidatorSet(rule, l) \in RuleType
<1>1. CASE ~ValidatorKnows(l) \/ l.keyword = "action"
  BY <1>1 DEF ValidatorSet
<1>2. CASE ValidatorKnows(l) /\ l.keyword \in {"min", "max"}
  <2>1. ValidatorSet(rule, l) = Set(rule, l.keyword, IF l.arg # NoArg THEN l.arg ELSE Unset)
    BY <1>2 DEF ValidatorSet
  <2>2. (IF l.arg # NoArg THEN l.arg ELSE Unset) \in Revision
    BY <1>2 DEF TypedLine, Text, Revision
  <2>3. QED BY <1>2, <2>1, <2>2, SetTyped
<1>3. CASE ValidatorKnows(l) /\ l.keyword \in {"repository", "branch", "prefix"}
  <2>1. ValidatorSet(rule, l) = Set(rule, l.keyword, IF l.arg # NoArg THEN l.arg ELSE NoName)
    BY <1>3 DEF ValidatorSet
  <2>2. (IF l.arg # NoArg THEN l.arg ELSE NoName) \in NameOrNone
    BY <1>3 DEF TypedLine, NameOrNone, Text
  <2>3. QED BY <1>3, <2>1, <2>2, SetTyped
<1>4. QED BY <1>1, <1>2, <1>3 DEF ValidatorKnows

\* A line with its variable replaced.
LEMMA SubstitutedFacts ==
    ASSUME Types, NEW l, TypedLine(l)
    PROVE  LET s == Substituted(l)
           IN  /\ s.keyword = l.keyword
               /\ s.arg = l.arg \/ (l.arg \in Variable /\ s.arg \in Name)
               /\ l.arg \notin Variable => s = l
<1>1. l = [keyword |-> l.keyword, arg |-> l.arg]
  BY DEF TypedLine, Text, Line
<1>2. CASE l.arg \in Variable /\ ~Undeclared(l)
  <2> DEFINE x == Filled(l.arg, variables[VariableIn(l.arg)])
  <2>1. VariableIn(l.arg) \in DOMAIN variables
    BY <1>2 DEF Undeclared
  <2>2. x \in Name
    BY <1>2, <2>1, RulesFilesAssumption DEF Types
  <2>3. Substituted(l) = [l EXCEPT !.arg = x]
    BY <1>2 DEF Substituted
  <2>4. Substituted(l).keyword = l.keyword /\ Substituted(l).arg = x
    BY <1>1, <2>3
  <2>5. QED BY <1>2, <2>2, <2>4
<1>3. CASE ~ (l.arg \in Variable /\ ~Undeclared(l))
  BY <1>3 DEF Substituted
<1>4. QED BY <1>2, <1>3

\* What the converter sets of a rule.
LEMMA SubstitutedSetTyped ==
    ASSUME Types, NEW l, TypedLine(l), NEW rule \in RuleType,
           ConverterKnows(Substituted(l)), ~ConverterAborts(Substituted(l))
    PROVE  ConverterSet(rule, Substituted(l).keyword, Substituted(l).arg) \in RuleType
<1> DEFINE s == Substituted(l)
<1>1. /\ s.keyword = l.keyword
      /\ s.arg = l.arg \/ (l.arg \in Variable /\ s.arg \in Name)
  BY SubstitutedFacts
<1>2. s.keyword \in {"repository", "branch", "prefix", "min", "max", "action",
                     "annotated", "substitute"} /\ s.arg \notin {NoArg} \cup Loose
  BY DEF ConverterKnows
<1>3. s.keyword = "action" => s.arg \in Actions
  BY DEF ConverterAborts
<1> HIDE DEF s
<1> DEFINE x == IF s.keyword = "prefix" THEN Unslashed(s.arg) ELSE s.arg
<1>4. s.keyword \in {"repository", "branch", "prefix"} => x \in NameOrNone
  <2>1. s.keyword \in {"repository", "branch", "prefix"} => s.arg \in Name \cup Variable
    BY <1>1, <1>2 DEF TypedLine, Text
  <2>2. s.keyword = "prefix" => Unslashed(s.arg) \in Name \cup Variable \cup {NoName}
    BY <2>1, RulesFilesAssumption
  <2>3. QED BY <2>1, <2>2 DEF NameOrNone, Text
<1>5. s.keyword \in {"min", "max"} => s.arg \in Revision
  BY <1>1, <1>2, RulesFilesAssumption DEF TypedLine, Text, Revision
<1>6. Set(rule, s.keyword, x) \in RuleType
  BY <1>2, <1>3, <1>4, <1>5, SetTyped
<1>7. QED BY <1>6 DEF s, ConverterSet

\* The same of a repository, which keeps its name.
LEMMA SetRepositoryTyped ==
    ASSUME NEW repo \in RepoType, NEW l,
           l.keyword \in {"repository", "branch", "prefix", "description"},
           l.keyword # "description" => l.arg \in NameOrNone
    PROVE  SetRepository(repo, l) \in RepoType /\ SetRepository(repo, l).name = repo.name
<1>1. CASE l.keyword = "repository"
  BY <1>1 DEF SetRepository, RepoType
<1>2. CASE l.keyword = "branch"
  BY <1>2 DEF SetRepository, RepoType
<1>3. CASE l.keyword = "prefix"
  BY <1>3 DEF SetRepository, RepoType
<1>4. CASE l.keyword = "description"
  BY <1>4 DEF SetRepository, RepoType
<1>5. QED BY <1>1, <1>2, <1>3, <1>4

\* The initial state is typed.
LEMMA InitTyped == ASSUME Init PROVE Types
<1>1. Opened(Root) \in Frame
  BY OpenedTyped, RulesFilesAssumption
<1>2. stack \in Seq(Frame) /\ Len(stack) = 1
  BY <1>1 DEF Init
<1>3. 1 <= MaxOpen
  BY RulesFilesAssumption
<1>4. visited \subseteq File
  BY RulesFilesAssumption DEF Init
<1>5. DOMAIN variables = {}
  BY DEF Init
<1>6. /\ rules \in Seq(RuleType) /\ repositories \in Seq(Text)
      /\ loadedRules \in Seq(RuleType) /\ loadedRepositories \in Seq(RepoType)
  BY DEF Init
<1>7. QED BY <1>2, <1>3, <1>4, <1>5, <1>6 DEF Init, Types

\* A frame read past its line is typed.
LEMMA ReadTyped ==
    ASSUME Types, stack # <<>>, NEW t \in Frame, stack' = Read(t)
    PROVE  stack' \in Seq(Frame) /\ Len(stack') <= MaxOpen /\ stack' # <<>>
  BY ReadFacts DEF Types

\* The validator opens a block.
LEMMA ValidatorOpensTyped == ASSUME Types, ValidatorOpens PROVE Types'
<1>1. stack # <<>> /\ HasLine /\ phase = "validate"
  BY DEF ValidatorOpens, Validating
<1>2. Top \in Frame /\ TypedLine(Current)
  BY <1>1, TopFacts
<1>3. PICK t \in Frame : stack' = Read(t)
  <2>1. CASE Current.arg = NoArg
    BY <1>2, <2>1 DEF ValidatorOpens
  <2>2. CASE Current.arg # NoArg /\ Current.keyword = "create"
    <3>1. Current.arg \in Text
      BY <1>2, <2>2 DEF TypedLine, Text
    <3>2. NewRepository(Current.arg) \in RepoType /\ NewRepository(Current.arg).name = Current.arg
      BY <3>1, NewTyped DEF NameOrNone, Text
    <3>3. [Top EXCEPT !.block = "Repository", !.repo = NewRepository(Current.arg)] \in Frame
      BY <1>2, <3>1, <3>2 DEF Frame
    <3>4. QED BY <2>2, <3>3 DEF ValidatorOpens
  <2>3. CASE Current.arg # NoArg /\ Current.keyword # "create"
    <3>1. Current.keyword = "match"
      BY <2>3 DEF ValidatorOpens
    <3>2. NewRule(Current.arg) \in RuleType
      BY <1>2, <3>1, NewTyped DEF TypedLine, Text
    <3>3. [Top EXCEPT !.block = "Match", !.rule = NewRule(Current.arg)] \in Frame
      BY <1>2, <3>2 DEF Frame
    <3>4. QED BY <2>3, <3>3 DEF ValidatorOpens
  <2>4. QED BY <2>1, <2>2, <2>3
<1>4. stack' \in Seq(Frame) /\ Len(stack') <= MaxOpen
  BY <1>1, <1>3, ReadTyped
<1>5. errors' \in BOOLEAN
  BY DEF ValidatorOpens, Types
<1>6. QED BY <1>1, <1>4, <1>5 DEF Types, ValidatorOpens, converter

\* The validator follows an include or refuses it.
LEMMA ValidatorIncludesTyped == ASSUME Types, ValidatorIncludes PROVE Types'
<1>1. stack # <<>> /\ HasLine /\ phase = "validate"
  BY DEF ValidatorIncludes, Validating
<1>2. Top \in Frame /\ TypedLine(Current)
  BY <1>1, TopFacts
<1>3. Read(Top) \in Seq(Frame) /\ Len(Read(Top)) = Len(stack) /\ Len(stack) <= MaxOpen
      /\ Len(stack) \in Nat
  BY <1>1, <1>2, ReadFacts, TopFacts DEF Types
<1>4. /\ stack' \in Seq(Frame) /\ Len(stack') <= MaxOpen
      /\ visited' \subseteq File /\ errors' \in BOOLEAN
  <2>1. CASE Current.arg # NoArg /\ MayInclude(Current.arg)
    <3>1. Current.arg \in File
      BY <1>2, <2>1 DEF ValidatorIncludes, TypedLine, Text
    <3>2. /\ Len(stack) < MaxOpen
          /\ stack' = Append(Read(Top), Opened(Current.arg))
          /\ visited' = visited \cup {Current.arg}
          /\ errors' = errors
      BY <2>1 DEF ValidatorIncludes
    <3>3. Opened(Current.arg) \in Frame
      BY <3>1, OpenedTyped
    <3>4. stack' \in Seq(Frame) /\ Len(stack') = Len(stack) + 1
      BY <1>3, <3>2, <3>3, Longer
    <3>5. MaxOpen \in Nat
      BY RulesFilesAssumption
    <3>6. QED BY <1>3, <3>1, <3>2, <3>4, <3>5 DEF Types
  <2>2. CASE ~(Current.arg # NoArg /\ MayInclude(Current.arg))
    <3>1. stack' = Read(Top) /\ errors' = TRUE /\ visited' = visited
      BY <2>2 DEF ValidatorIncludes
    <3>2. QED BY <1>3, <3>1 DEF Types
  <2>3. QED BY <2>1, <2>2
<1>5. QED BY <1>1, <1>4 DEF Types, ValidatorIncludes, converter

\* Another line outside of all blocks.
LEMMA ValidatorReadsOtherTyped == ASSUME Types, ValidatorReadsOther PROVE Types'
<1>1. stack # <<>> /\ HasLine /\ phase = "validate" /\ stack' = Read(Top)
  BY DEF ValidatorReadsOther, Validating
<1>2. Top \in Frame
  BY <1>1, TopFacts
<1>3. stack' \in Seq(Frame) /\ Len(stack') <= MaxOpen
  BY <1>1, <1>2, ReadTyped
<1>4. errors' \in BOOLEAN
  BY DEF ValidatorReadsOther, Types
<1>5. QED BY <1>1, <1>3, <1>4 DEF Types, ValidatorReadsOther, converter

\* A line of a repository block.
LEMMA ValidatorInRepositoryTyped == ASSUME Types, ValidatorInRepository PROVE Types'
<1>1. stack # <<>> /\ HasLine /\ phase = "validate" /\ Top.block = "Repository"
  BY DEF ValidatorInRepository, Validating
<1>2. Top \in Frame
  BY <1>1, TopFacts
<1>3. [Top EXCEPT !.block = "None"] \in Frame /\ Top.repo.name \in Text
  BY <1>1, <1>2 DEF Frame
<1>4. stack' = Read(Top) \/ stack' = Read([Top EXCEPT !.block = "None"])
  BY DEF ValidatorInRepository
<1>5. stack' \in Seq(Frame) /\ Len(stack') <= MaxOpen
  BY <1>1, <1>2, <1>3, <1>4, ReadTyped
<1>6. repositories' \in Seq(Text)
  <2>1. repositories' = repositories \/ repositories' = Append(repositories, Top.repo.name)
    BY DEF ValidatorInRepository
  <2>2. repositories \in Seq(Text)
    BY DEF Types
  <2>3. QED BY <1>3, <2>1, <2>2, Longer
<1>7. QED BY <1>1, <1>5, <1>6 DEF Types, ValidatorInRepository, converter

\* A line of a match block.
LEMMA ValidatorInMatchTyped == ASSUME Types, ValidatorInMatch PROVE Types'
<1>1. stack # <<>> /\ HasLine /\ phase = "validate"
  BY DEF ValidatorInMatch, Validating
<1>2. Top \in Frame /\ TypedLine(Current)
  BY <1>1, TopFacts
<1>3. Top.rule \in RuleType
  BY <1>2 DEF Frame
<1>4. ValidatorSet(Top.rule, Current) \in RuleType
  BY <1>2, <1>3, ValidatorSetTyped
<1>5. [Top EXCEPT !.block = "None"] \in Frame
      /\ [Top EXCEPT !.rule = ValidatorSet(@, Current)] \in Frame
  BY <1>2, <1>4 DEF Frame
<1>6. \/ stack' = Read([Top EXCEPT !.block = "None"])
      \/ stack' = Read([Top EXCEPT !.rule = ValidatorSet(@, Current)])
  BY DEF ValidatorInMatch
<1>7. stack' \in Seq(Frame) /\ Len(stack') <= MaxOpen
  BY <1>1, <1>5, <1>6, ReadTyped
<1>8. rules' \in Seq(RuleType)
  <2>1. rules' = rules \/ rules' = Append(rules, Top.rule)
    BY DEF ValidatorInMatch
  <2>2. rules \in Seq(RuleType)
    BY DEF Types
  <2>3. QED BY <1>3, <2>1, <2>2, Longer
<1>9. errors' \in BOOLEAN
  BY DEF ValidatorInMatch, Types
<1>10. QED BY <1>1, <1>7, <1>8, <1>9 DEF Types, ValidatorInMatch, converter

\* The validator leaves a file, and with the root starts the converter or the analysis.
LEMMA StartTyped == <<Opened(Root)>> \in Seq(Frame) /\ Len(<<Opened(Root)>>) = 1 /\ 1 <= MaxOpen
<1>1. Opened(Root) \in Frame
  BY OpenedTyped, RulesFilesAssumption
<1>2. 1 <= MaxOpen
  BY RulesFilesAssumption
<1>3. QED BY <1>1, <1>2

\* The end of a file.
LEMMA ValidatorReturnsTyped == ASSUME Types, ValidatorReturns PROVE Types'
<1>1. stack # <<>> /\ ~HasLine /\ phase = "validate"
  BY DEF ValidatorReturns, Validating
<1>2. stack \in Seq(Frame) /\ Len(stack) <= MaxOpen /\ MaxOpen \in Nat
  BY RulesFilesAssumption DEF Types
<1>3. /\ stack' \in Seq(Frame) /\ Len(stack') <= MaxOpen
      /\ phase' \in {"validate", "analyze", "load"} /\ (phase' = "analyze" => stack' = <<>>)
      /\ accepted' \in BOOLEAN
  <2>1. CASE Len(stack) > 1
    <3>1. stack' = Front(stack) /\ phase' = phase /\ accepted' = accepted
      BY <2>1 DEF ValidatorReturns
    <3>2. Front(stack) \in Seq(Frame) /\ Len(Front(stack)) = Len(stack) - 1 /\ Len(stack) \in Nat
      BY <1>1, <1>2, Shorter
    <3>3. QED BY <1>1, <1>2, <3>1, <3>2 DEF Types
  <2>2. CASE ~(Len(stack) > 1) /\ Readable
    <3>1. stack' = <<>> /\ phase' = "analyze" /\ accepted' = accepted
      BY <2>2 DEF ValidatorReturns
    <3>2. <<>> \in Seq(Frame) /\ Len(<<>>) = 0
      OBVIOUS
    <3>3. QED BY <1>2, <3>1, <3>2 DEF Types
  <2>3. CASE ~(Len(stack) > 1) /\ ~Readable
    <3>1. stack' = <<Opened(Root)>> /\ phase' = "load" /\ accepted' = FALSE
      BY <2>3 DEF ValidatorReturns, Judge
    <3>2. QED BY <3>1, StartTyped
  <2>4. QED BY <2>1, <2>2, <2>3
<1>4. errors' \in BOOLEAN
  BY DEF ValidatorReturns, Types
<1>5. QED BY <1>3, <1>4 DEF Types, ValidatorReturns, converter

\* The analysis.
LEMMA AnalyzeTyped == ASSUME Types, Analyze PROVE Types'
<1>1. stack' = <<Opened(Root)>> /\ phase' = "load" /\ accepted' = ~errors'
  BY DEF Analyze, Judge
<1>2. errors' \in BOOLEAN /\ accepted' \in BOOLEAN
  BY <1>1 DEF Analyze, Types
<1>3. stack' \in Seq(Frame) /\ Len(stack') <= MaxOpen
  BY <1>1, StartTyped
<1>4. QED BY <1>1, <1>2, <1>3 DEF Types, Analyze, converter

\* The converter stops.
LEMMA AbortTyped ==
    ASSUME Types, phase = "load", Abort("fatal") \/ Abort("overflow")
    PROVE  Types'
<1>1. /\ outcome' \in {"fatal", "overflow"} /\ phase' = "done"
      /\ UNCHANGED <<files, stack, validator, converter>>
  BY DEF Abort
<1>2. QED BY <1>1 DEF Types, validator, converter

\* The converter follows an include.
LEMMA ConverterIncludesTyped == ASSUME Types, ConverterIncludes PROVE Types'
<1>1. stack # <<>> /\ HasLine /\ phase = "load"
  BY DEF ConverterIncludes, Loading
<1>2. Top \in Frame /\ TypedLine(Current)
  BY <1>1, TopFacts
<1>3. CASE Len(stack) < MaxOpen
  <2>1. /\ stack' = Append(Read(Top), Opened(Current.arg))
        /\ UNCHANGED <<files, phase, validator, converter, outcome>>
    BY <1>3 DEF ConverterIncludes
  <2>2. Current.arg \in File
    BY <1>2 DEF ConverterIncludes, TypedLine, Text
  <2>3. Opened(Current.arg) \in Frame
    BY <2>2, OpenedTyped
  <2>4. Read(Top) \in Seq(Frame) /\ Len(Read(Top)) = Len(stack) /\ Len(stack) \in Nat
    BY <1>1, <1>2, ReadFacts, TopFacts
  <2>5. stack' \in Seq(Frame) /\ Len(stack') = Len(stack) + 1
    BY <2>1, <2>3, <2>4, Longer
  <2>6. MaxOpen \in Nat
    BY RulesFilesAssumption
  <2>7. Len(stack') <= MaxOpen
    BY <1>3, <2>4, <2>5, <2>6
  <2>8. QED BY <1>1, <2>1, <2>5, <2>7 DEF Types, validator, converter
<1>4. CASE ~(Len(stack) < MaxOpen)
  <2>1. Abort("overflow")
    BY <1>4 DEF ConverterIncludes
  <2>2. QED BY <1>1, <2>1, AbortTyped
<1>5. QED BY <1>3, <1>4

\* A line the converter reads, and what it makes of it.
LEMMA LineFacts ==
    ASSUME Types, IsLine
    PROVE  /\ stack # <<>> /\ HasLine /\ phase = "load"
           /\ Top \in Frame /\ TypedLine(Current)
           /\ Substituted(Current).keyword = Current.keyword
           /\ \/ Substituted(Current).arg = Current.arg
              \/ Current.arg \in Variable /\ Substituted(Current).arg \in Name
           /\ Current.arg \notin Variable => Substituted(Current) = Current
<1>1. stack # <<>> /\ HasLine /\ phase = "load"
  BY DEF IsLine, Loading
<1>2. Top \in Frame /\ TypedLine(Current)
  BY <1>1, TopFacts
<1>3. QED BY <1>1, <1>2, SubstitutedFacts

\* A line of a repository block.
LEMMA ConverterInRepositoryTyped == ASSUME Types, ConverterInRepository PROVE Types'
<1> DEFINE l == Substituted(Current)
<1>1. IsLine
  BY DEF ConverterInRepository
<1>2. /\ stack # <<>> /\ phase = "load" /\ Top \in Frame /\ TypedLine(Current)
      /\ l.keyword = Current.keyword
      /\ l.arg = Current.arg \/ (Current.arg \in Variable /\ l.arg \in Name)
  BY <1>1, LineFacts
<1>3. /\ InRepository(l)
      /\ \/ /\ l.keyword # "end"
            /\ stack' = Read([Top EXCEPT !.repo = SetRepository(@, l)])
            /\ loadedRepositories' = loadedRepositories
         \/ /\ loadedRepositories' = Append(loadedRepositories, Top.repo)
            /\ stack' = Read([Top EXCEPT !.block = "None", !.repo = NewRepository(NoName)])
      /\ UNCHANGED <<files, phase, validator, loadedRules, variables, outcome>>
  BY DEF ConverterInRepository
<1> HIDE DEF l
<1>4. Top.repo \in RepoType /\ Top.block = "Repository" /\ Top.repo.name \in Text
  BY <1>2, <1>3 DEF Frame, InRepository
<1>5. CASE /\ l.keyword # "end"
           /\ stack' = Read([Top EXCEPT !.repo = SetRepository(@, l)])
           /\ loadedRepositories' = loadedRepositories
  <2>1. ConverterKnowsOfRepository(l)
    BY <1>3, <1>5 DEF InRepository, IsEnd
  <2>2. l.keyword \in {"repository", "branch", "prefix", "description"} /\ l.arg # NoArg
    BY <2>1 DEF ConverterKnowsOfRepository
  <2>3. l.keyword # "description" => l.arg \in NameOrNone
    BY <1>2, <2>2 DEF TypedLine, NameOrNone, Text
  <2>4. /\ SetRepository(Top.repo, l) \in RepoType
        /\ SetRepository(Top.repo, l).name = Top.repo.name
    BY <1>4, <2>2, <2>3, SetRepositoryTyped
  <2>5. [Top EXCEPT !.repo = SetRepository(@, l)] \in Frame
    BY <1>2, <1>4, <2>4 DEF Frame
  <2>6. stack' \in Seq(Frame) /\ Len(stack') <= MaxOpen
    BY <1>2, <1>5, <2>5, ReadTyped
  <2>7. QED BY <1>2, <1>3, <1>5, <2>6 DEF Types, validator
<1>6. CASE /\ loadedRepositories' = Append(loadedRepositories, Top.repo)
           /\ stack' = Read([Top EXCEPT !.block = "None", !.repo = NewRepository(NoName)])
  <2>1. NewRepository(NoName) \in RepoType
    BY NewTyped DEF NameOrNone, Text
  <2>2. [Top EXCEPT !.block = "None", !.repo = NewRepository(NoName)] \in Frame
    BY <1>2, <2>1 DEF Frame
  <2>3. stack' \in Seq(Frame) /\ Len(stack') <= MaxOpen
    BY <1>2, <1>6, <2>2, ReadTyped
  <2>4. loadedRepositories \in Seq(RepoType)
    BY DEF Types
  <2>5. loadedRepositories' \in Seq(RepoType)
    BY <1>4, <1>6, <2>4, Longer
  <2>6. QED BY <1>2, <1>3, <2>3, <2>5 DEF Types, validator
<1>7. QED BY <1>3, <1>5, <1>6

\* A rule that ends.
LEMMA EndsTyped == ASSUME NEW rule \in RuleType PROVE ConverterEnds(rule) \in RuleType
  BY DEF ConverterEnds, RuleType, Actions

\* A line of a match block.
LEMMA ConverterInMatchTyped == ASSUME Types, ConverterInMatch PROVE Types'
<1> DEFINE l == Substituted(Current)
<1>1. IsLine
  BY DEF ConverterInMatch
<1>2. stack # <<>> /\ phase = "load" /\ Top \in Frame /\ TypedLine(Current)
  BY <1>1, LineFacts
<1>3. /\ InMatch(l) /\ ~ConverterAborts(l)
      /\ \/ /\ l.keyword # "end"
            /\ stack' = Read([Top EXCEPT !.rule = ConverterSet(@, l.keyword, l.arg)])
            /\ loadedRules' = loadedRules
         \/ /\ loadedRules' = Append(loadedRules, ConverterEnds(Top.rule))
            /\ stack' = Read([Top EXCEPT !.block = "None"])
      /\ UNCHANGED <<files, phase, validator, loadedRepositories, variables, outcome>>
  BY DEF ConverterInMatch
<1>4. Top.rule \in RuleType
  BY <1>2 DEF Frame
<1>5. CASE /\ l.keyword # "end"
           /\ stack' = Read([Top EXCEPT !.rule = ConverterSet(@, l.keyword, l.arg)])
           /\ loadedRules' = loadedRules
  <2>1. ConverterKnows(l)
    BY <1>3, <1>5 DEF InMatch, IsEnd
  <2>2. ConverterSet(Top.rule, l.keyword, l.arg) \in RuleType
    BY <1>2, <1>3, <1>4, <2>1, SubstitutedSetTyped
  <2> HIDE DEF l
  <2>3. [Top EXCEPT !.rule = ConverterSet(@, l.keyword, l.arg)] \in Frame
    BY <1>2, <2>2 DEF Frame
  <2>4. stack' \in Seq(Frame) /\ Len(stack') <= MaxOpen
    BY <1>2, <1>5, <2>3, ReadTyped
  <2>5. QED BY <1>2, <1>3, <1>5, <2>4 DEF Types, validator
<1>6. CASE /\ loadedRules' = Append(loadedRules, ConverterEnds(Top.rule))
           /\ stack' = Read([Top EXCEPT !.block = "None"])
  <2>1. [Top EXCEPT !.block = "None"] \in Frame
    BY <1>2 DEF Frame
  <2>2. stack' \in Seq(Frame) /\ Len(stack') <= MaxOpen
    BY <1>2, <1>6, <2>1, ReadTyped
  <2>3. loadedRules \in Seq(RuleType) /\ ConverterEnds(Top.rule) \in RuleType
    BY <1>4, EndsTyped DEF Types
  <2>4. loadedRules' \in Seq(RuleType)
    BY <1>6, <2>3, Longer
  <2>5. QED BY <1>2, <1>3, <2>2, <2>4 DEF Types, validator
<1>7. QED BY <1>3, <1>5, <1>6

\* A block is opened.
LEMMA ConverterOpensTyped == ASSUME Types, ConverterOpens PROVE Types'
<1> DEFINE l == Substituted(Current)
<1>1. IsLine
  BY DEF ConverterOpens
<1>2. /\ stack # <<>> /\ phase = "load" /\ Top \in Frame /\ TypedLine(Current)
      /\ l.keyword = Current.keyword
      /\ l.arg = Current.arg \/ (Current.arg \in Variable /\ l.arg \in Name)
  BY <1>1, LineFacts
<1>3. /\ OpensBlock(l)
      /\ stack' = Read(IF l.keyword = "create"
                       THEN [Top EXCEPT !.block = "Repository", !.repo = NewRepository(l.arg)]
                       ELSE [Top EXCEPT !.block = "Match", !.rule = NewRule(l.arg)])
      /\ UNCHANGED <<files, phase, validator, converter, outcome>>
  BY DEF ConverterOpens
<1> HIDE DEF l
<1>4. PICK t \in Frame : stack' = Read(t)
  <2>1. CASE l.keyword = "create"
    <3>1. l.arg \in Text
      BY <1>2, <1>3, <2>1 DEF TypedLine, Text, OpensBlock
    <3>2. NewRepository(l.arg) \in RepoType /\ NewRepository(l.arg).name = l.arg
      BY <3>1, NewTyped DEF NameOrNone, Text
    <3>3. [Top EXCEPT !.block = "Repository", !.repo = NewRepository(l.arg)] \in Frame
      BY <1>2, <3>1, <3>2 DEF Frame
    <3>4. QED BY <1>3, <2>1, <3>3
  <2>2. CASE l.keyword = "match"
    <3>1. l.arg \in Pattern \cup Variable \cup Name \cup {NoArg}
      BY <1>2, <2>2 DEF TypedLine, Text
    <3>2. NewRule(l.arg) \in RuleType
      BY <3>1, NewTyped
    <3>3. [Top EXCEPT !.block = "Match", !.rule = NewRule(l.arg)] \in Frame
      BY <1>2, <3>2 DEF Frame
    <3>4. QED BY <1>3, <2>2, <3>3
  <2>3. QED BY <1>3, <2>1, <2>2 DEF OpensBlock
<1>5. stack' \in Seq(Frame) /\ Len(stack') <= MaxOpen
  BY <1>2, <1>4, ReadTyped
<1>6. QED BY <1>2, <1>3, <1>5 DEF Types, validator, converter

\* A declaration.
LEMMA ConverterDeclaresTyped == ASSUME Types, ConverterDeclares PROVE Types'
<1>1. IsLine /\ IsDeclaration(Current) /\ stack' = Read(Top)
  BY DEF ConverterDeclares
<1>2. stack # <<>> /\ phase = "load" /\ Top \in Frame /\ TypedLine(Current)
  BY <1>1, LineFacts
<1>3. Current.arg \in Variable \X Name
  BY <1>1, <1>2 DEF IsDeclaration, TypedLine, Text
<1>4. Current.arg[1] \in Variable /\ Current.arg[2] \in Name
  BY <1>3
<1>5. variables' = [v \in DOMAIN variables \cup {Current.arg[1]} |->
                       IF v = Current.arg[1] THEN Current.arg[2] ELSE variables[v]]
  BY DEF ConverterDeclares
<1>6. DOMAIN variables' \subseteq Variable /\ \A x \in DOMAIN variables' : variables'[x] \in Name
  BY <1>4, <1>5 DEF Types
<1>7. stack' \in Seq(Frame) /\ Len(stack') <= MaxOpen
  BY <1>1, <1>2, ReadTyped
<1>8. QED BY <1>2, <1>6, <1>7 DEF Types, ConverterDeclares, validator

\* The end of a file.
LEMMA ConverterReturnsTyped == ASSUME Types, ConverterReturns PROVE Types'
<1>1. stack # <<>> /\ phase = "load" /\ stack' = Front(stack)
  BY DEF ConverterReturns, Loading
<1>2. stack \in Seq(Frame) /\ Len(stack) <= MaxOpen /\ MaxOpen \in Nat
  BY RulesFilesAssumption DEF Types
<1>3. stack' \in Seq(Frame) /\ Len(stack') <= MaxOpen
  BY <1>1, <1>2, Shorter
<1>4. phase' \in {"load", "done"} /\ outcome' \in {"none", "loaded", "fatal", "overflow"}
  BY <1>1 DEF ConverterReturns, Types
<1>5. QED BY <1>3, <1>4 DEF Types, ConverterReturns, validator, converter

\* Every step keeps the types.
LEMMA StepTyped == ASSUME Types, [Next]_vars PROVE Types'
<1>1. CASE ValidatorOpens
  BY <1>1, ValidatorOpensTyped
<1>2. CASE ValidatorIncludes
  BY <1>2, ValidatorIncludesTyped
<1>3. CASE ValidatorReadsOther
  BY <1>3, ValidatorReadsOtherTyped
<1>4. CASE ValidatorInRepository
  BY <1>4, ValidatorInRepositoryTyped
<1>5. CASE ValidatorInMatch
  BY <1>5, ValidatorInMatchTyped
<1>6. CASE ValidatorReturns
  BY <1>6, ValidatorReturnsTyped
<1>7. CASE Analyze
  BY <1>7, AnalyzeTyped
<1>8. CASE ConverterIncludes
  BY <1>8, ConverterIncludesTyped
<1>9. CASE ConverterInRepository
  BY <1>9, ConverterInRepositoryTyped
<1>10. CASE ConverterInMatch
  BY <1>10, ConverterInMatchTyped
<1>11. CASE ConverterOpens
  BY <1>11, ConverterOpensTyped
<1>12. CASE ConverterDeclares
  BY <1>12, ConverterDeclaresTyped
<1>13. CASE ConverterFails
  <2>1. phase = "load" /\ Abort("fatal")
    BY <1>13 DEF ConverterFails, IsLine, Loading
  <2>2. QED BY <2>1, AbortTyped
<1>14. CASE ConverterCannotOpen
  <2>1. phase = "load" /\ Abort("fatal")
    BY <1>14 DEF ConverterCannotOpen, Loading
  <2>2. QED BY <2>1, AbortTyped
<1>15. CASE ConverterReturns
  BY <1>15, ConverterReturnsTyped
<1>16. CASE UNCHANGED vars
  BY <1>16 DEF vars, validator, converter, Types
<1>17. QED
  BY <1>1, <1>2, <1>3, <1>4, <1>5, <1>6, <1>7, <1>8, <1>9, <1>10, <1>11, <1>12, <1>13,
     <1>14, <1>15, <1>16 DEF Next

\* Whatever the files hold, everything has its type, and neither program has more files
\* open than a process can have (the stack of Rules::load and of parseFile).
THEOREM RulesFilesTypes == Spec => []TypeOK
<1>1. Types => TypeOK
  <2> SUFFICES ASSUME Types PROVE TypeOK
    OBVIOUS
  <2>1. DOMAIN files = File
    BY FilesTyped DEF Types
  <2>2. \A i \in DOMAIN stack : /\ stack[i].file \in File
                                /\ stack[i].block \in {"None", "Repository", "Match"}
                                /\ stack[i].rule \in RuleType
    <3>1. \A i \in DOMAIN stack : stack[i] \in Frame
      BY DEF Types
    <3>2. QED BY <3>1 DEF Frame
  <2>3. /\ \A i \in DOMAIN rules : rules[i] \in RuleType
        /\ \A i \in DOMAIN loadedRules : loadedRules[i] \in RuleType
        /\ Range(repositories) \subseteq Text
    BY DEF Types, Range
  <2>4. QED BY <2>1, <2>2, <2>3 DEF Types, TypeOK
<1>2. Init => Types
  BY InitTyped
<1>3. Types /\ [Next]_vars => Types'
  BY StepTyped
<1>4. QED BY <1>1, <1>2, <1>3, PTL DEF Spec

(* ------------------ what the validator has read without complaint ------------------ *)

\* The validator between two lines; a configuration t with its innermost file one line on.
Config == [stack : Seq(Frame), rules : Seq(RuleType), repositories : Seq(Text)]

Now == [stack |-> stack, rules |-> rules, repositories |-> repositories]
Start == [stack |-> <<Opened(Root)>>, rules |-> <<>>, repositories |-> <<>>]

Advanced(c, t) == [c.stack EXCEPT ![Len(c.stack)] = [t EXCEPT !.line = @ + 1]]

\* From c to d by a line l, read in the frame t, of which the validator approves.
OpensStep(c, d, t, l) ==
    /\ t.block = "None" /\ l.keyword \in {"create", "match"} /\ l.arg # NoArg
    /\ d.stack = Advanced(c, IF l.keyword = "create"
                             THEN [t EXCEPT !.block = "Repository", !.repo = NewRepository(l.arg)]
                             ELSE [t EXCEPT !.block = "Match", !.rule = NewRule(l.arg)])
    /\ d.rules = c.rules /\ d.repositories = c.repositories

IncludesStep(c, d, t, l) ==
    /\ t.block = "None" /\ l.keyword = "include" /\ l.arg # NoArg
    /\ Len(c.stack) < MaxOpen
    /\ d.stack = Append(Advanced(c, t), Opened(l.arg))
    /\ d.rules = c.rules /\ d.repositories = c.repositories

DeclaresStep(c, d, t, l) ==
    /\ t.block = "None" /\ l.keyword = "declare" /\ l.arg # NoArg
    /\ d.stack = Advanced(c, t)
    /\ d.rules = c.rules /\ d.repositories = c.repositories

InRepositoryStep(c, d, t, l) ==
    /\ t.block = "Repository" /\ ~IsEnd(l, "repository")
    /\ d.stack = Advanced(c, t)
    /\ d.rules = c.rules /\ d.repositories = c.repositories

EndRepositoryStep(c, d, t, l) ==
    /\ t.block = "Repository" /\ IsEnd(l, "repository")
    /\ d.stack = Advanced(c, [t EXCEPT !.block = "None"])
    /\ d.rules = c.rules /\ d.repositories = Append(c.repositories, t.repo.name)

InMatchStep(c, d, t, l) ==
    /\ t.block = "Match" /\ ~IsEnd(l, "match") /\ ~ValidatorRejects(l)
    /\ d.stack = Advanced(c, [t EXCEPT !.rule = ValidatorSet(@, l)])
    /\ d.rules = c.rules /\ d.repositories = c.repositories

EndMatchStep(c, d, t, l) ==
    /\ t.block = "Match" /\ IsEnd(l, "match")
    /\ d.stack = Advanced(c, [t EXCEPT !.block = "None"])
    /\ d.rules = Append(c.rules, t.rule) /\ d.repositories = c.repositories

ReturnStep(c, d, t) ==
    /\ t.block = "None"
    /\ d.stack = Front(c.stack)
    /\ d.rules = c.rules /\ d.repositories = c.repositories

LineStep(c, d, t, l) ==
    \/ OpensStep(c, d, t, l)
    \/ IncludesStep(c, d, t, l)
    \/ DeclaresStep(c, d, t, l)
    \/ InRepositoryStep(c, d, t, l)
    \/ EndRepositoryStep(c, d, t, l)
    \/ InMatchStep(c, d, t, l)
    \/ EndMatchStep(c, d, t, l)

ApprovesIn(F, c, d, t) ==
    /\ F[t.file] # Missing
    /\ \/ t.line <= Len(F[t.file]) /\ LineStep(c, d, t, F[t.file][t.line])
       \/ ~(t.line <= Len(F[t.file])) /\ ReturnStep(c, d, t)

Approves(F, c, d) == c.stack # <<>> /\ ApprovesIn(F, c, d, Last(c.stack))

\* A rule with a variable for its repository has read it in the block that is open.
FrameFits(F, t) ==
    /\ t.block = "Repository" => t.repo.name \notin Variable
    /\ t.block = "Match" =>
          \E i \in 1 .. t.line - 1 :
             /\ Within(F[t.file], "match", i, t.line)
             /\ t.rule.repository \in Variable =>
                   \E m \in i + 1 .. t.line - 1 :
                      /\ F[t.file][m].keyword = "repository"
                      /\ F[t.file][m].arg \in Variable

\* Every frame of a configuration holds what the lines of its block have set so far.
Fits(F, c) ==
    /\ \A i \in 1 .. Len(c.stack) : FrameFits(F, c.stack[i])
    /\ \A i \in 1 .. Len(c.repositories) : c.repositories[i] \notin Variable

\* n steps from the start, each of which the validator approves of.
Trace(F, tr, n) ==
    /\ n \in Nat /\ tr[0] = Start
    /\ \A k \in 0 .. n : tr[k] \in Config /\ Fits(F, tr[k])
    /\ \A k \in 0 .. n - 1 : Approves(F, tr[k], tr[k + 1])

\* A configuration such steps lead to.
Reached(F, c) == \E tr : \E n : Trace(F, tr, n) /\ tr[n] = c

\* The start is reached, and what is approved of from there on.
LEMMA ReachedStart == ASSUME NEW F PROVE Reached(F, Start)
<1> DEFINE tr == [k \in {0} |-> Start]
<1>1. Opened(Root) \in Frame /\ Opened(Root).block = "None"
  BY OpenedTyped, RulesFilesAssumption DEF Opened
<1>2. Start \in Config
  BY <1>1 DEF Start, Config
<1>3. FrameFits(F, Opened(Root))
  BY <1>1 DEF FrameFits
<1>4. /\ Len(Start.stack) = 1 /\ Start.stack[1] = Opened(Root)
      /\ Len(Start.repositories) = 0
  BY DEF Start
<1>5. Fits(F, Start)
  BY <1>3, <1>4 DEF Fits
<1>6. 0 .. 0 = {0} /\ 0 .. 0 - 1 = {} /\ tr[0] = Start
  OBVIOUS
<1> HIDE DEF tr
<1>7. Trace(F, tr, 0)
  BY <1>2, <1>5, <1>6 DEF Trace
<1>8. QED BY <1>6, <1>7 DEF Reached

\* A step on from what is reached is reached.
LEMMA ReachedNext ==
    ASSUME NEW F, NEW c, NEW d, Reached(F, c), Approves(F, c, d), d \in Config, Fits(F, d)
    PROVE  Reached(F, d)
<1>1. PICK tr : \E n : Trace(F, tr, n) /\ tr[n] = c
  BY DEF Reached
<1>2. PICK n : Trace(F, tr, n) /\ tr[n] = c
  BY <1>1
<1> DEFINE new == [k \in 0 .. n + 1 |-> IF k <= n THEN tr[k] ELSE d]
<1>3. n \in Nat
  BY <1>2 DEF Trace
<1>4. (\A k \in 0 .. n : new[k] = tr[k]) /\ new[n + 1] = d
  BY <1>3
<1> HIDE DEF new
<1>5. \A k \in 0 .. n + 1 : new[k] \in Config /\ Fits(F, new[k])
  <2>1. \A k \in 0 .. n + 1 : k \in 0 .. n \/ k = n + 1
    BY <1>3
  <2>2. QED BY <1>2, <1>4, <2>1 DEF Trace
<1>6. \A k \in 0 .. (n + 1) - 1 : Approves(F, new[k], new[k + 1])
  <2>1. ASSUME NEW k \in 0 .. (n + 1) - 1 PROVE Approves(F, new[k], new[k + 1])
    <3>1. CASE k = n
      BY <1>2, <1>3, <1>4, <3>1
    <3>2. CASE k # n
      <4>1. k \in 0 .. n - 1 /\ k \in 0 .. n /\ k + 1 \in 0 .. n
        BY <1>3, <3>2
      <4>2. Approves(F, tr[k], tr[k + 1])
        BY <1>2, <4>1 DEF Trace
      <4>3. QED BY <1>4, <4>1, <4>2
    <3>3. QED BY <3>1, <3>2
  <2>2. QED BY <2>1
<1>7. new[0] = Start /\ n + 1 \in Nat
  BY <1>2, <1>3, <1>4 DEF Trace
<1>8. Trace(F, new, n + 1)
  BY <1>5, <1>6, <1>7 DEF Trace
<1>9. QED BY <1>4, <1>8 DEF Reached

(* ---------------------------- blocks and their lines ---------------------------- *)

\* The line that opens a block, and the lines behind it up to the end of the block.
LEMMA WithinFacts ==
    ASSUME NEW lines, NEW block, NEW k \in Nat \ {0}
    PROVE  /\ lines[k].keyword = (IF block = "repository" THEN "create" ELSE "match") =>
                 Within(lines, block, k, k + 1)
           /\ \A i \in 1 .. k - 1 :
                 Within(lines, block, i, k) /\ ~IsEnd(lines[k], block) =>
                    Within(lines, block, i, k + 1)
<1>1. k + 1 .. (k + 1) - 1 = {} /\ k < k + 1
  OBVIOUS
<1>2. lines[k].keyword = (IF block = "repository" THEN "create" ELSE "match") =>
         Within(lines, block, k, k + 1)
  BY <1>1 DEF Within
<1>3. ASSUME NEW i \in 1 .. k - 1, Within(lines, block, i, k), ~IsEnd(lines[k], block)
      PROVE  Within(lines, block, i, k + 1)
  <2>1. \A m \in i + 1 .. (k + 1) - 1 : m \in i + 1 .. k - 1 \/ m = k
    OBVIOUS
  <2>2. i < k + 1
    OBVIOUS
  <2>3. QED BY <1>3, <2>1, <2>2 DEF Within
<1>4. QED BY <1>2, <1>3

\* What the validator sets of a rule.
LEMMA ValidatorSetFacts ==
    ASSUME NEW rule \in RuleType, NEW l
    PROVE  LET s == ValidatorSet(rule, l)
           IN  /\ s.pattern = rule.pattern /\ s.action = rule.action
               /\ s.repository = IF l.keyword # "repository" THEN rule.repository
                                 ELSE IF l.arg # NoArg THEN l.arg ELSE NoName
               /\ s.branch = IF l.keyword # "branch" THEN rule.branch
                             ELSE IF l.arg # NoArg THEN l.arg ELSE NoName
               /\ s.min = IF l.keyword # "min" THEN rule.min
                          ELSE IF l.arg # NoArg THEN l.arg ELSE Unset
               /\ s.max = IF l.keyword # "max" THEN rule.max
                          ELSE IF l.arg # NoArg THEN l.arg ELSE Unset
               /\ ValidatorKnows(l) /\ l.keyword # "action" /\ l.arg # NoArg =>
                     s = Set(rule, l.keyword, l.arg)
<1>1. CASE ~ValidatorKnows(l) \/ l.keyword = "action"
  BY <1>1 DEF ValidatorSet, ValidatorKnows
<1>2. CASE l.keyword = "repository"
  <2>1. ValidatorSet(rule, l) = [rule EXCEPT !.repository = IF l.arg # NoArg THEN l.arg ELSE NoName]
    BY <1>2, SetFacts DEF ValidatorSet, ValidatorKnows
  <2>2. l.arg # NoArg => ValidatorSet(rule, l) = Set(rule, l.keyword, l.arg)
    BY <1>2 DEF ValidatorSet, ValidatorKnows
  <2>3. QED BY <1>2, <2>1, <2>2 DEF RuleType
<1>3. CASE l.keyword = "branch"
  <2>1. ValidatorSet(rule, l) = [rule EXCEPT !.branch = IF l.arg # NoArg THEN l.arg ELSE NoName]
    BY <1>3, SetFacts DEF ValidatorSet, ValidatorKnows
  <2>2. l.arg # NoArg => ValidatorSet(rule, l) = Set(rule, l.keyword, l.arg)
    BY <1>3 DEF ValidatorSet, ValidatorKnows
  <2>3. QED BY <1>3, <2>1, <2>2 DEF RuleType
<1>4. CASE l.keyword = "prefix"
  <2>1. ValidatorSet(rule, l) = [rule EXCEPT !.prefix = IF l.arg # NoArg THEN l.arg ELSE NoName]
    BY <1>4, SetFacts DEF ValidatorSet, ValidatorKnows
  <2>2. l.arg # NoArg => ValidatorSet(rule, l) = Set(rule, l.keyword, l.arg)
    BY <1>4 DEF ValidatorSet, ValidatorKnows
  <2>3. QED BY <1>4, <2>1, <2>2 DEF RuleType
<1>5. CASE l.keyword = "min"
  <2>1. ValidatorSet(rule, l) = [rule EXCEPT !.min = IF l.arg # NoArg THEN l.arg ELSE Unset]
    BY <1>5, SetFacts DEF ValidatorSet, ValidatorKnows
  <2>2. l.arg # NoArg => ValidatorSet(rule, l) = Set(rule, l.keyword, l.arg)
    BY <1>5 DEF ValidatorSet, ValidatorKnows
  <2>3. QED BY <1>5, <2>1, <2>2 DEF RuleType
<1>6. CASE l.keyword = "max"
  <2>1. ValidatorSet(rule, l) = [rule EXCEPT !.max = IF l.arg # NoArg THEN l.arg ELSE Unset]
    BY <1>6, SetFacts DEF ValidatorSet, ValidatorKnows
  <2>2. l.arg # NoArg => ValidatorSet(rule, l) = Set(rule, l.keyword, l.arg)
    BY <1>6 DEF ValidatorSet, ValidatorKnows
  <2>3. QED BY <1>6, <2>1, <2>2 DEF RuleType
<1>7. QED BY <1>1, <1>2, <1>3, <1>4, <1>5, <1>6 DEF ValidatorKnows

\* A configuration with its innermost frame read past its line.
LEMMA AdvancedFacts ==
    ASSUME NEW c \in Config, c.stack # <<>>, NEW t \in Frame
    PROVE  LET q == Advanced(c, t)
           IN  /\ q \in Seq(Frame) /\ Len(q) = Len(c.stack) /\ Len(c.stack) \in Nat \ {0}
               /\ q[Len(c.stack)] = [t EXCEPT !.line = @ + 1]
               /\ \A i \in 1 .. Len(c.stack) - 1 : q[i] = c.stack[i]
<1> DEFINE x == [t EXCEPT !.line = @ + 1]
<1>1. x \in Frame
  BY DEF Frame
<1>2. Advanced(c, t) = [c.stack EXCEPT ![Len(c.stack)] = x]
  BY DEF Advanced
<1>3. c.stack \in Seq(Frame)
  BY DEF Config
<1> HIDE DEF x
<1>4. QED BY <1>1, <1>2, <1>3, ChangedLast DEF x

\* The frame a configuration reads in, and its line.
LEMMA ConfigFacts ==
    ASSUME NEW F \in Contents, NEW c \in Config, c.stack # <<>>
    PROVE  LET t == Last(c.stack)
           IN  /\ t \in Frame /\ t = c.stack[Len(c.stack)] /\ Len(c.stack) \in Nat \ {0}
               /\ t.file \in File /\ t.line \in Nat \ {0} /\ t.rule \in RuleType
               /\ t.repo \in RepoType /\ t.block \in {"None", "Repository", "Match"}
               /\ F[t.file] # Missing /\ t.line <= Len(F[t.file]) =>
                     /\ t.line \in DOMAIN F[t.file] /\ TypedLine(F[t.file][t.line])
                     /\ DOMAIN F[t.file] = 1 .. Len(F[t.file])
                     /\ Len(F[t.file]) \in Nat
<1>1. PICK t : t = Last(c.stack)
  OBVIOUS
<1>2. c.stack \in Seq(Frame)
  BY DEF Config
<1>3. t \in Frame /\ t = c.stack[Len(c.stack)] /\ Len(c.stack) \in Nat \ {0}
  BY <1>1, <1>2, Shorter
<1>4. /\ t.file \in File /\ t.line \in Nat \ {0} /\ t.rule \in RuleType
      /\ t.repo \in RepoType /\ t.block \in {"None", "Repository", "Match"}
  BY <1>3 DEF Frame
<1>5. TypedFile(F[t.file])
  BY <1>4, FilesTyped
<1>6. F[t.file] # Missing => /\ Len(F[t.file]) \in Nat
                             /\ DOMAIN F[t.file] = 1 .. Len(F[t.file])
                             /\ \A i \in DOMAIN F[t.file] : TypedLine(F[t.file][i])
  BY <1>5 DEF TypedFile
<1>7. QED BY <1>1, <1>3, <1>4, <1>6

\* If the frame read on fits, so do all frames.
LEMMA AdvancedFits ==
    ASSUME NEW F \in Contents, NEW c \in Config, c.stack # <<>>, NEW t \in Frame,
           Fits(F, c), FrameFits(F, [t EXCEPT !.line = @ + 1])
    PROVE  \A i \in 1 .. Len(Advanced(c, t)) : FrameFits(F, Advanced(c, t)[i])
<1> DEFINE q == Advanced(c, t)
<1>1. /\ Len(q) = Len(c.stack) /\ Len(c.stack) \in Nat \ {0}
      /\ q[Len(c.stack)] = [t EXCEPT !.line = @ + 1]
      /\ \A i \in 1 .. Len(c.stack) - 1 : q[i] = c.stack[i]
  BY AdvancedFacts
<1> HIDE DEF q
<1>2. ASSUME NEW i \in 1 .. Len(q) PROVE FrameFits(F, q[i])
  <2>1. CASE i = Len(c.stack)
    BY <1>1, <2>1
  <2>2. CASE i # Len(c.stack)
    <3>1. i \in 1 .. Len(c.stack) - 1 /\ i \in 1 .. Len(c.stack)
      BY <1>1, <2>2
    <3>2. QED BY <1>1, <3>1 DEF Fits
  <2>3. QED BY <2>1, <2>2
<1>3. QED BY <1>2 DEF q

\* Reading a line of which the validator approves keeps the fit.
LEMMA FitsStep ==
    ASSUME NEW F \in Contents, AllPlain(F), NEW c \in Config, NEW d \in Config,
           Fits(F, c), Approves(F, c, d)
    PROVE  Fits(F, d)
<1>0. PICK t : t = Last(c.stack)
  OBVIOUS
<1>1. PICK l : l = F[t.file][t.line]
  OBVIOUS
<1>2. c.stack # <<>> /\ ApprovesIn(F, c, d, t)
  BY <1>0 DEF Approves
<1>3. /\ t \in Frame /\ t = c.stack[Len(c.stack)] /\ Len(c.stack) \in Nat \ {0}
      /\ t.file \in File /\ t.line \in Nat \ {0} /\ t.rule \in RuleType
      /\ t.repo \in RepoType /\ t.block \in {"None", "Repository", "Match"}
  BY <1>0, <1>2, ConfigFacts
<1>4. FrameFits(F, t)
  BY <1>3 DEF Fits
<1>5. \A i \in 1 .. Len(c.repositories) : c.repositories[i] \notin Variable
  BY DEF Fits
<1>6. PICK lines : lines = F[t.file]
  OBVIOUS
<1>7. CASE t.line <= Len(lines) /\ LineStep(c, d, t, l)
  <2>0. lines # Missing
    BY <1>2, <1>6 DEF ApprovesIn
  <2>1. t.line \in DOMAIN lines /\ TypedLine(l)
    BY <1>0, <1>1, <1>2, <1>6, <1>7, <2>0, ConfigFacts
  <2>2. Plain(lines)
    BY <1>3, <1>6, <2>0 DEF AllPlain
  <2>3. /\ l.arg \in Variable => l.keyword = "repository"
        /\ l.arg \notin Loose
    BY <1>1, <1>6, <2>1, <2>2 DEF Plain
  <2>4. /\ lines[t.line].keyword = "match" => Within(lines, "match", t.line, t.line + 1)
        /\ \A i \in 1 .. t.line - 1 :
              Within(lines, "match", i, t.line) /\ ~IsEnd(l, "match") =>
                 Within(lines, "match", i, t.line + 1)
    BY <1>1, <1>3, <1>6, WithinFacts
  <2>5. ASSUME NEW u \in Frame, d.stack = Advanced(c, u),
               FrameFits(F, [u EXCEPT !.line = @ + 1])
        PROVE  \A i \in 1 .. Len(d.stack) : FrameFits(F, d.stack[i])
    BY <1>2, <2>5, AdvancedFits
  <2>6. ASSUME NEW u \in Frame, d.stack = Advanced(c, u), u.block = "None"
        PROVE  \A i \in 1 .. Len(d.stack) : FrameFits(F, d.stack[i])
    <3>1. [u EXCEPT !.line = @ + 1].block = "None"
      BY <2>6 DEF Frame
    <3>2. FrameFits(F, [u EXCEPT !.line = @ + 1])
      BY <3>1 DEF FrameFits
    <3>3. QED BY <2>5, <2>6, <3>2
  <2>7. CASE OpensStep(c, d, t, l)
    <3>1. CASE l.keyword = "create"
      <4>1. PICK u : u = [t EXCEPT !.block = "Repository", !.repo = NewRepository(l.arg)]
        OBVIOUS
      <4>2. l.arg \in Name /\ l.arg \notin Variable
        BY <2>1, <2>3, <2>7, <3>1 DEF TypedLine, Text, OpensStep
      <4>3. NewRepository(l.arg) \in RepoType /\ NewRepository(l.arg).name = l.arg
        BY <4>2, NewTyped DEF NameOrNone, Text
      <4>4. u \in Frame /\ u.block = "Repository" /\ u.repo.name = l.arg
        BY <1>3, <4>1, <4>2, <4>3 DEF Frame, Text
      <4>5. [u EXCEPT !.line = @ + 1].block = "Repository"
            /\ [u EXCEPT !.line = @ + 1].repo.name = l.arg
        BY <4>4 DEF Frame
      <4>6. FrameFits(F, [u EXCEPT !.line = @ + 1])
        BY <4>2, <4>5 DEF FrameFits
      <4>7. d.stack = Advanced(c, u) /\ d.repositories = c.repositories
        BY <2>7, <3>1, <4>1 DEF OpensStep
      <4>8. QED BY <1>5, <2>5, <4>4, <4>6, <4>7 DEF Fits
    <3>2. CASE l.keyword = "match"
      <4>1. PICK u : u = [t EXCEPT !.block = "Match", !.rule = NewRule(l.arg)]
        OBVIOUS
      <4>2. NewRule(l.arg) \in RuleType /\ NewRule(l.arg).repository = NoName
        BY <2>1, <3>2, NewTyped DEF TypedLine, Text, NewRule
      <4>3. u \in Frame /\ u.block = "Match" /\ u.rule = NewRule(l.arg)
            /\ u.line = t.line /\ u.file = t.file
        BY <1>3, <4>1, <4>2 DEF Frame
      <4>4. PICK v : v = [u EXCEPT !.line = @ + 1]
        OBVIOUS
      <4>5. v.block = "Match" /\ v.line = t.line + 1 /\ v.file = t.file
            /\ v.rule.repository = NoName
        BY <4>2, <4>3, <4>4 DEF Frame
      <4>6. Within(lines, "match", t.line, t.line + 1)
        BY <1>1, <1>6, <2>4, <3>2
      <4>7. FrameFits(F, v)
        BY <1>3, <1>6, <4>5, <4>6, RulesFilesAssumption DEF FrameFits, Text
      <4>8. d.stack = Advanced(c, u) /\ d.repositories = c.repositories
        BY <2>7, <3>2, <4>1 DEF OpensStep
      <4>9. QED BY <1>5, <2>5, <4>3, <4>4, <4>7, <4>8 DEF Fits
    <3>3. QED BY <2>7, <3>1, <3>2 DEF OpensStep
  <2>8. CASE IncludesStep(c, d, t, l)
    <3>1. d.stack = Append(Advanced(c, t), Opened(l.arg)) /\ t.block = "None"
          /\ d.repositories = c.repositories /\ l.arg \in File
      BY <2>1, <2>8 DEF IncludesStep, TypedLine, Text
    <3>2. PICK q : q = Advanced(c, t)
      OBVIOUS
    <3>3. [t EXCEPT !.line = @ + 1].block = "None"
      BY <1>3, <3>1 DEF Frame
    <3>4. FrameFits(F, [t EXCEPT !.line = @ + 1])
      BY <3>3 DEF FrameFits
    <3>5. \A i \in 1 .. Len(q) : FrameFits(F, q[i])
      BY <1>2, <1>3, <3>2, <3>4, AdvancedFits
    <3>6. q \in Seq(Frame) /\ Opened(l.arg) \in Frame
      BY <1>2, <1>3, <3>1, <3>2, AdvancedFacts, OpenedTyped
    <3>7. FrameFits(F, Opened(l.arg))
      BY DEF FrameFits, Opened
    <3>8. /\ Len(d.stack) = Len(q) + 1 /\ d.stack[Len(q) + 1] = Opened(l.arg)
          /\ Len(q) \in Nat /\ \A i \in 1 .. Len(q) : d.stack[i] = q[i]
      BY <3>1, <3>2, <3>6, Longer
    <3>9. \A i \in 1 .. Len(d.stack) : i \in 1 .. Len(q) \/ i = Len(q) + 1
      BY <3>8
    <3>10. \A i \in 1 .. Len(d.stack) : FrameFits(F, d.stack[i])
      BY <3>5, <3>7, <3>8, <3>9
    <3>11. QED BY <1>5, <3>1, <3>10 DEF Fits
  <2>9. CASE DeclaresStep(c, d, t, l)
    BY <1>3, <1>5, <2>6, <2>9 DEF DeclaresStep, Fits
  <2>10. CASE InRepositoryStep(c, d, t, l)
    <3>1. t.block = "Repository" /\ d.stack = Advanced(c, t) /\ d.repositories = c.repositories
      BY <2>10 DEF InRepositoryStep
    <3>2. [t EXCEPT !.line = @ + 1].block = "Repository"
          /\ [t EXCEPT !.line = @ + 1].repo = t.repo
      BY <1>3, <3>1 DEF Frame
    <3>3. FrameFits(F, [t EXCEPT !.line = @ + 1])
      BY <1>4, <3>1, <3>2 DEF FrameFits
    <3>4. QED BY <1>3, <1>5, <2>5, <3>1, <3>3 DEF Fits
  <2>11. CASE EndRepositoryStep(c, d, t, l)
    <3>1. PICK u : u = [t EXCEPT !.block = "None"]
      OBVIOUS
    <3>2. u \in Frame /\ u.block = "None"
      BY <1>3, <3>1 DEF Frame
    <3>3. d.stack = Advanced(c, u) /\ d.repositories = Append(c.repositories, t.repo.name)
          /\ t.block = "Repository"
      BY <2>11, <3>1 DEF EndRepositoryStep
    <3>4. \A i \in 1 .. Len(d.stack) : FrameFits(F, d.stack[i])
      BY <2>6, <3>2, <3>3
    <3>5. t.repo.name \notin Variable /\ t.repo.name \in Text
      BY <1>3, <1>4, <3>3 DEF FrameFits, Frame
    <3>6. c.repositories \in Seq(Text)
      BY DEF Config
    <3>7. /\ Len(d.repositories) = Len(c.repositories) + 1 /\ Len(c.repositories) \in Nat
          /\ d.repositories[Len(c.repositories) + 1] = t.repo.name
          /\ \A i \in 1 .. Len(c.repositories) : d.repositories[i] = c.repositories[i]
      BY <3>3, <3>5, <3>6, Longer
    <3>8. \A i \in 1 .. Len(d.repositories) : i \in 1 .. Len(c.repositories)
                                               \/ i = Len(c.repositories) + 1
      BY <3>7
    <3>9. QED BY <1>5, <3>4, <3>5, <3>7, <3>8 DEF Fits
  <2>12. CASE InMatchStep(c, d, t, l)
    <3>1. t.block = "Match" /\ ~IsEnd(l, "match")
          /\ d.stack = Advanced(c, [t EXCEPT !.rule = ValidatorSet(@, l)])
          /\ d.repositories = c.repositories
      BY <2>12 DEF InMatchStep
    <3>2. PICK r : r = ValidatorSet(t.rule, l)
      OBVIOUS
    <3>3. r \in RuleType
      BY <1>3, <2>1, <3>2, ValidatorSetTyped
    <3>4. r.repository \in Variable =>
             \/ l.keyword = "repository" /\ l.arg \in Variable
             \/ t.rule.repository \in Variable
      BY <1>3, <3>2, ValidatorSetFacts, RulesFilesAssumption DEF Text
    <3>5. PICK u : u = [t EXCEPT !.rule = r]
      OBVIOUS
    <3>6. u \in Frame /\ u.block = "Match" /\ u.rule = r /\ u.line = t.line /\ u.file = t.file
      BY <1>3, <3>1, <3>3, <3>5 DEF Frame
    <3>7. d.stack = Advanced(c, u)
      BY <3>1, <3>2, <3>5
    <3>8. PICK v : v = [u EXCEPT !.line = @ + 1]
      OBVIOUS
    <3>9. v.block = "Match" /\ v.line = t.line + 1 /\ v.file = t.file /\ v.rule = r
      BY <3>6, <3>8 DEF Frame
    <3>10. PICK i \in 1 .. t.line - 1 :
             /\ Within(lines, "match", i, t.line)
             /\ t.rule.repository \in Variable =>
                   \E m \in i + 1 .. t.line - 1 :
                      lines[m].keyword = "repository" /\ lines[m].arg \in Variable
      BY <1>4, <1>6, <3>1 DEF FrameFits
    <3>11. Within(lines, "match", i, t.line + 1) /\ i \in 1 .. (t.line + 1) - 1
           /\ i < t.line
      BY <1>3, <2>4, <3>1, <3>10
    <3>12. (\A m \in i + 1 .. t.line - 1 : m \in i + 1 .. (t.line + 1) - 1)
           /\ t.line \in i + 1 .. (t.line + 1) - 1
      BY <1>3, <3>11
    <3>13. r.repository \in Variable =>
              \E m \in i + 1 .. (t.line + 1) - 1 :
                 lines[m].keyword = "repository" /\ lines[m].arg \in Variable
      BY <1>1, <1>6, <3>4, <3>10, <3>12
    <3>14. FrameFits(F, v)
      BY <1>6, <3>9, <3>11, <3>13 DEF FrameFits
    <3>15. QED BY <1>5, <2>5, <3>1, <3>6, <3>7, <3>8, <3>14 DEF Fits
  <2>13. CASE EndMatchStep(c, d, t, l)
    <3>1. PICK u : u = [t EXCEPT !.block = "None"]
      OBVIOUS
    <3>2. u \in Frame /\ u.block = "None"
      BY <1>3, <3>1 DEF Frame
    <3>3. QED BY <1>5, <2>6, <2>13, <3>1, <3>2 DEF EndMatchStep, Fits
  <2>14. QED
    BY <1>7, <2>7, <2>8, <2>9, <2>10, <2>11, <2>12, <2>13 DEF LineStep
<1>8. CASE ReturnStep(c, d, t)
  <2>1. d.stack = Front(c.stack) /\ d.repositories = c.repositories
    BY <1>8 DEF ReturnStep
  <2>2. c.stack \in Seq(Frame)
    BY DEF Config
  <2>3. Len(d.stack) = Len(c.stack) - 1 /\ \A i \in 1 .. Len(c.stack) - 1 : d.stack[i] = c.stack[i]
    BY <1>2, <2>1, <2>2, Shorter
  <2>4. \A i \in 1 .. Len(d.stack) : i \in 1 .. Len(c.stack) - 1 /\ i \in 1 .. Len(c.stack)
    BY <1>3, <2>3
  <2>5. QED BY <1>5, <2>1, <2>3, <2>4 DEF Fits
<1>9. QED BY <1>1, <1>2, <1>6, <1>7, <1>8 DEF ApprovesIn

\* What the running validator does without complaint is a step it approves of.
LEMMA ValidatorApproves ==
    ASSUME Types, Types', ~errors',
           \/ ValidatorOpens \/ ValidatorIncludes \/ ValidatorReadsOther
           \/ ValidatorInRepository \/ ValidatorInMatch
           \/ ValidatorReturns /\ phase' # "load"
    PROVE  ~errors /\ Approves(files, Now, Now')
<1> DEFINE d == [stack |-> stack', rules |-> rules', repositories |-> repositories']
<1>1. /\ Now.stack = stack /\ Now.rules = rules /\ Now.repositories = repositories
      /\ d.stack = stack' /\ d.rules = rules' /\ d.repositories = repositories'
  BY DEF Now
<1>2. Now' = d
  BY DEF Now
<1> HIDE DEF d
<1>3. \A t : Advanced(Now, t) = Read(t)
  BY <1>1 DEF Advanced, Read
<1>4. ASSUME NEW t, t = Top, NEW l, l = Current, HasLine, stack # <<>>, LineStep(Now, d, t, l)
      PROVE  Approves(files, Now, d)
  BY <1>1, <1>4 DEF Approves, ApprovesIn, Top, Current, HasLine, Readable
<1>6. CASE ValidatorOpens
  <2>1. HasLine /\ stack # <<>> /\ Current.arg # NoArg /\ ~errors
    BY <1>6 DEF ValidatorOpens, Validating
  <2>2. OpensStep(Now, d, Top, Current)
    BY <1>1, <1>3, <1>6, <2>1 DEF ValidatorOpens, OpensStep
  <2>3. QED BY <1>2, <1>4, <2>1, <2>2 DEF LineStep
<1>7. CASE ValidatorIncludes
  <2>1. HasLine /\ stack # <<>> /\ Current.arg # NoArg /\ MayInclude(Current.arg) /\ ~errors
    BY <1>7 DEF ValidatorIncludes, Validating
  <2>2. IncludesStep(Now, d, Top, Current)
    BY <1>1, <1>3, <1>7, <2>1 DEF ValidatorIncludes, IncludesStep
  <2>3. QED BY <1>2, <1>4, <2>1, <2>2 DEF LineStep
<1>8. CASE ValidatorReadsOther
  <2>1. HasLine /\ stack # <<>> /\ Current.arg # NoArg /\ Current.keyword = "declare" /\ ~errors
    BY <1>8 DEF ValidatorReadsOther, Validating
  <2>2. DeclaresStep(Now, d, Top, Current)
    BY <1>1, <1>3, <1>8, <2>1 DEF ValidatorReadsOther, DeclaresStep
  <2>3. QED BY <1>2, <1>4, <2>1, <2>2 DEF LineStep
<1>9. CASE ValidatorInRepository
  <2>1. HasLine /\ stack # <<>> /\ ~errors /\ Top.block = "Repository"
    BY <1>9 DEF ValidatorInRepository, Validating
  <2>2. InRepositoryStep(Now, d, Top, Current) \/ EndRepositoryStep(Now, d, Top, Current)
    <3>1. CASE IsEnd(Current, "repository")
      BY <1>1, <1>3, <1>9, <2>1, <3>1 DEF ValidatorInRepository, EndRepositoryStep
    <3>2. CASE ~IsEnd(Current, "repository")
      BY <1>1, <1>3, <1>9, <2>1, <3>2 DEF ValidatorInRepository, InRepositoryStep
    <3>3. QED BY <3>1, <3>2
  <2>3. QED BY <1>2, <1>4, <2>1, <2>2 DEF LineStep
<1>10. CASE ValidatorInMatch
  <2>1. HasLine /\ stack # <<>> /\ ~errors /\ Top.block = "Match"
    BY <1>10 DEF ValidatorInMatch, Validating
  <2>2. InMatchStep(Now, d, Top, Current) \/ EndMatchStep(Now, d, Top, Current)
    <3>1. CASE IsEnd(Current, "match")
      BY <1>1, <1>3, <1>10, <2>1, <3>1 DEF ValidatorInMatch, EndMatchStep
    <3>2. CASE ~IsEnd(Current, "match")
      <4>1. ~ValidatorRejects(Current)
        BY <1>10, <3>2 DEF ValidatorInMatch
      <4>2. QED BY <1>1, <1>3, <1>10, <2>1, <3>2, <4>1 DEF ValidatorInMatch, InMatchStep
    <3>3. QED BY <3>1, <3>2
  <2>3. QED BY <1>2, <1>4, <2>1, <2>2 DEF LineStep
<1>11. CASE ValidatorReturns /\ phase' # "load"
  <2>1. stack # <<>> /\ ~errors /\ Readable /\ ~Unterminated(Top) /\ ~HasLine
    BY <1>11 DEF ValidatorReturns, Validating, Types
  <2>2. stack' = Front(stack)
    <3>1. CASE Len(stack) > 1
      BY <1>11, <3>1 DEF ValidatorReturns
    <3>2. CASE ~(Len(stack) > 1)
      <4>1. stack' = <<>>
        BY <1>11, <2>1, <3>2 DEF ValidatorReturns
      <4>2. Len(stack) \in Nat \ {0}
        BY <2>1, TopFacts
      <4>3. Len(stack) = 1
        <5>1. \A m \in Nat \ {0} : ~(m > 1) => m = 1
          OBVIOUS
        <5>2. QED BY <3>2, <4>2, <5>1
      <4>4. QED BY <2>1, <4>1, <4>3, Shorter DEF Types
    <3>3. QED BY <3>1, <3>2
  <2>3. ReturnStep(Now, d, Top)
    BY <1>1, <1>11, <2>1, <2>2 DEF ReturnStep, Unterminated, ValidatorReturns
  <2>4. QED BY <1>1, <1>2, <2>1, <2>3 DEF Approves, ApprovesIn, Top, HasLine, Readable
<1>12. QED BY <1>6, <1>7, <1>8, <1>9, <1>10, <1>11

\* Whatever the validator has read without complaint, it has reached by steps it approves of.
ValidatorInv == phase \in {"validate", "analyze"} /\ ~errors => Reached(files, Now)

\* Every step of the validator keeps this.
LEMMA ValidatorKeeps ==
    ASSUME Types, Types', AllPlain(files), ValidatorInv,
           \/ ValidatorOpens \/ ValidatorIncludes \/ ValidatorReadsOther
           \/ ValidatorInRepository \/ ValidatorInMatch \/ ValidatorReturns
    PROVE  ValidatorInv'
<1>1. SUFFICES ASSUME phase' \in {"validate", "analyze"}, ~errors'
               PROVE  Reached(files', Now')
  BY DEF ValidatorInv
<1>2. phase = "validate" /\ files' = files
  BY DEF ValidatorOpens, ValidatorIncludes, ValidatorReadsOther, ValidatorInRepository,
         ValidatorInMatch, ValidatorReturns, Validating
<1>3. ~errors /\ Approves(files, Now, Now')
  <2>1. phase' # "load"
    BY <1>1
  <2>2. QED BY <1>1, <2>1, ValidatorApproves
<1>4. Reached(files, Now)
  BY <1>2, <1>3 DEF ValidatorInv
<1>5. Now \in Config /\ Now' \in Config /\ files \in Contents
  BY DEF Types, Now, Config
<1>6. Fits(files, Now)
  <2>1. PICK tr : \E n : Trace(files, tr, n) /\ tr[n] = Now
    BY <1>4 DEF Reached
  <2>2. PICK n : Trace(files, tr, n) /\ tr[n] = Now
    BY <2>1
  <2>3. n \in Nat /\ n \in 0 .. n
    BY <2>2 DEF Trace
  <2>4. QED BY <2>2, <2>3 DEF Trace
<1>7. Fits(files, Now')
  BY <1>3, <1>5, <1>6, FitsStep
<1>8. QED BY <1>2, <1>3, <1>4, <1>5, <1>7, ReachedNext

(* ------------------------- what validation will reject ------------------------- *)

\* A rule that will be rejected: nothing takes its pattern back, and in a plain file
\* nothing takes back a variable for its repository.
BadRule(rule) ==
    rule.pattern \in BadPattern \/ rule.repository \in Variable \ BackReference

\* A rule of a configuration, finished or not, is bad.
Bad(c) ==
    \/ \E i \in 1 .. Len(c.rules) : BadRule(c.rules[i])
    \/ \E i \in 1 .. Len(c.stack) : c.stack[i].block = "Match" /\ BadRule(c.stack[i].rule)

\* Nothing the validator approves of makes a bad rule good.
LEMMA BadStays ==
    ASSUME NEW F \in Contents, AllPlain(F), NEW c \in Config, NEW d \in Config,
           Fits(F, c), Approves(F, c, d), Bad(c)
    PROVE  Bad(d)
<1>0. PICK t : t = Last(c.stack)
  OBVIOUS
<1>1. PICK l : l = F[t.file][t.line]
  OBVIOUS
<1>2. c.stack # <<>> /\ ApprovesIn(F, c, d, t)
  BY <1>0 DEF Approves
<1>3. /\ t \in Frame /\ t = c.stack[Len(c.stack)] /\ Len(c.stack) \in Nat \ {0}
      /\ t.file \in File /\ t.line \in Nat \ {0} /\ t.rule \in RuleType
  BY <1>0, <1>2, ConfigFacts
<1>4. c.rules \in Seq(RuleType) /\ c.stack \in Seq(Frame)
  BY DEF Config
\* The rules that are through stay.
<1>5. /\ Len(c.rules) \in Nat /\ Len(d.rules) \in Nat /\ Len(c.rules) <= Len(d.rules)
      /\ \A i \in 1 .. Len(c.rules) : d.rules[i] = c.rules[i]
      /\ EndMatchStep(c, d, t, l) => /\ Len(c.rules) + 1 = Len(d.rules)
                                     /\ d.rules[Len(c.rules) + 1] = t.rule
  <2>1. d.rules = c.rules \/ d.rules = Append(c.rules, t.rule)
    BY <1>1, <1>2 DEF ApprovesIn, LineStep, ReturnStep, OpensStep, IncludesStep, DeclaresStep,
                InRepositoryStep, EndRepositoryStep, InMatchStep, EndMatchStep
  <2>2. /\ Len(Append(c.rules, t.rule)) = Len(c.rules) + 1 /\ Len(c.rules) \in Nat
        /\ Append(c.rules, t.rule)[Len(c.rules) + 1] = t.rule
        /\ \A i \in 1 .. Len(c.rules) : Append(c.rules, t.rule)[i] = c.rules[i]
    BY <1>3, <1>4, Longer
  <2>3. EndMatchStep(c, d, t, l) => d.rules = Append(c.rules, t.rule)
    BY DEF EndMatchStep
  <2>4. QED BY <2>1, <2>2, <2>3
<1>6. CASE \E i \in 1 .. Len(c.rules) : BadRule(c.rules[i])
  <2>1. PICK i \in 1 .. Len(c.rules) : BadRule(c.rules[i])
    BY <1>6
  <2>2. i \in 1 .. Len(d.rules) /\ d.rules[i] = c.rules[i]
    BY <1>5, <2>1
  <2>3. QED BY <2>1, <2>2 DEF Bad
\* So do the frames of the files that wait.
<1>8. /\ \A i \in 1 .. Len(c.stack) - 1 : d.stack[i] = c.stack[i]
      /\ Len(d.stack) >= Len(c.stack) - 1 /\ Len(d.stack) \in Nat
  <2>1. d.stack \in Seq(Frame) /\ Len(d.stack) \in Nat
    BY DEF Config
  <2>2. ASSUME NEW u, d.stack = [c.stack EXCEPT ![Len(c.stack)] = u]
        PROVE  /\ \A i \in 1 .. Len(c.stack) - 1 : d.stack[i] = c.stack[i]
               /\ Len(d.stack) >= Len(c.stack) - 1
    <3>1. DOMAIN d.stack = DOMAIN c.stack
      BY <2>2
    <3>2. Len(d.stack) = Len(c.stack)
      BY <1>4, <2>1, <3>1
    <3>3. QED BY <1>3, <1>4, <2>2, <3>2
  <2>3. ASSUME NEW u, d.stack = Advanced(c, u)
        PROVE  /\ \A i \in 1 .. Len(c.stack) - 1 : d.stack[i] = c.stack[i]
               /\ Len(d.stack) >= Len(c.stack) - 1
    BY <2>2, <2>3 DEF Advanced
  <2>4. CASE ReturnStep(c, d, t)
    <3>1. d.stack = Front(c.stack)
      BY <2>4 DEF ReturnStep
    <3>2. Len(d.stack) = Len(c.stack) - 1 /\ \A i \in 1 .. Len(c.stack) - 1 : d.stack[i] = c.stack[i]
      BY <1>2, <1>4, <3>1, Shorter
    <3>3. QED BY <1>3, <2>1, <3>2
  <2>5. CASE IncludesStep(c, d, t, l)
    <3>1. d.stack = Append(Advanced(c, t), Opened(l.arg))
      BY <2>5 DEF IncludesStep
    <3>2. PICK q : q = Advanced(c, t)
      OBVIOUS
    <3>3. q \in Seq(Frame) /\ Len(q) = Len(c.stack)
          /\ \A i \in 1 .. Len(c.stack) - 1 : q[i] = c.stack[i]
      <4>1. c.stack # <<>> /\ t \in Frame
        BY <1>2, <1>3
      <4>2. /\ Advanced(c, t) \in Seq(Frame) /\ Len(Advanced(c, t)) = Len(c.stack)
            /\ \A i \in 1 .. Len(c.stack) - 1 : Advanced(c, t)[i] = c.stack[i]
        BY ONLY c \in Config, <4>1, AdvancedFacts
      <4>3. QED BY ONLY <3>2, <4>2
    <3>4. Len(d.stack) = Len(q) + 1 /\ \A i \in 1 .. Len(q) : d.stack[i] = q[i]
      BY <3>1, <3>2, <3>3
    <3>5. \A i \in 1 .. Len(c.stack) - 1 : i \in 1 .. Len(q)
      BY <1>3, <3>3
    <3>6. \A i \in 1 .. Len(c.stack) - 1 : d.stack[i] = c.stack[i]
      BY <3>3, <3>4, <3>5
    <3>7. PICK m : m = Len(c.stack)
      OBVIOUS
    <3>8. Len(d.stack) = m + 1 /\ m \in Nat
      BY <1>3, <3>3, <3>4, <3>7
    <3>9. Len(d.stack) >= m - 1
      BY <3>8
    <3>10. QED BY <3>6, <3>7, <3>9
  <2>6. CASE LineStep(c, d, t, l) /\ ~IncludesStep(c, d, t, l)
    <3>1. \E u : d.stack = Advanced(c, u)
      BY <2>6 DEF LineStep, OpensStep, DeclaresStep, InRepositoryStep, EndRepositoryStep,
                  InMatchStep, EndMatchStep
    <3>2. QED BY <2>1, <2>3, <3>1
  <2>7. QED BY <1>1, <1>2, <2>1, <2>4, <2>5, <2>6 DEF ApprovesIn
<1>9. CASE \E i \in 1 .. Len(c.stack) : c.stack[i].block = "Match" /\ BadRule(c.stack[i].rule)
  <2>1. PICK i \in 1 .. Len(c.stack) : c.stack[i].block = "Match" /\ BadRule(c.stack[i].rule)
    BY <1>9
  <2>2. CASE i # Len(c.stack)
    <3>1. i \in 1 .. Len(c.stack) - 1 /\ i \in 1 .. Len(d.stack)
      BY <1>3, <1>8, <2>1, <2>2
    <3>2. QED BY <1>8, <2>1, <3>1 DEF Bad
  <2>3. CASE i = Len(c.stack)
    <3>1. t.block = "Match" /\ BadRule(t.rule)
      BY <1>3, <2>1, <2>3
    <3>2. /\ F[t.file] # Missing /\ t.line <= Len(F[t.file])
          /\ InMatchStep(c, d, t, l) \/ EndMatchStep(c, d, t, l)
      BY <1>1, <1>2, <3>1
         DEF ApprovesIn, LineStep, ReturnStep, OpensStep, IncludesStep, DeclaresStep,
             InRepositoryStep, EndRepositoryStep
    <3>3. CASE EndMatchStep(c, d, t, l)
      <4>1. Len(d.rules) \in 1 .. Len(d.rules) /\ d.rules[Len(d.rules)] = t.rule
        BY <1>5, <3>3
      <4>2. QED BY <3>1, <4>1 DEF Bad
    <3>4. CASE InMatchStep(c, d, t, l)
      <4>1. PICK lines : lines = F[t.file]
        OBVIOUS
      <4>2. /\ t.line \in DOMAIN lines /\ TypedLine(l) /\ DOMAIN lines = 1 .. Len(lines)
            /\ Len(lines) \in Nat
        BY <1>0, <1>1, <1>2, <3>2, <4>1, ConfigFacts
      <4>3. Plain(lines)
        BY <1>3, <3>2, <4>1 DEF AllPlain
      <4>4. FrameFits(F, t)
        BY <1>3 DEF Fits
      <4>5. PICK j \in 1 .. t.line - 1 :
               /\ Within(lines, "match", j, t.line)
               /\ t.rule.repository \in Variable =>
                     \E m \in j + 1 .. t.line - 1 :
                        lines[m].keyword = "repository" /\ lines[m].arg \in Variable
        BY <3>1, <4>1, <4>4 DEF FrameFits
      <4>6. j \in DOMAIN lines
        BY <1>3, <4>2, <4>5
      <4>7. t.rule.repository \in Variable => l.keyword # "repository"
        BY <1>1, <4>1, <4>2, <4>3, <4>5, <4>6 DEF Plain
      <4>8. PICK r : r = ValidatorSet(t.rule, l)
        OBVIOUS
      <4>9. r \in RuleType /\ BadRule(r)
        BY <1>3, <3>1, <4>2, <4>7, <4>8, ValidatorSetTyped, ValidatorSetFacts DEF BadRule
      <4>10. PICK u : u = [t EXCEPT !.rule = r]
        OBVIOUS
      <4>11. u \in Frame /\ u.rule = r /\ u.block = "Match"
        BY <1>3, <3>1, <4>9, <4>10 DEF Frame
      <4>12. d.stack = Advanced(c, u)
        BY <3>4, <4>8, <4>10 DEF InMatchStep
      <4>13. Len(d.stack) = Len(c.stack) /\ d.stack[Len(c.stack)] = [u EXCEPT !.line = @ + 1]
        BY <1>2, <4>11, <4>12, AdvancedFacts
      <4>14. [u EXCEPT !.line = @ + 1].block = "Match" /\ [u EXCEPT !.line = @ + 1].rule = r
        BY <4>11 DEF Frame
      <4>15. Len(c.stack) \in 1 .. Len(d.stack)
        BY <1>3, <4>13
      <4>16. QED BY <4>9, <4>13, <4>14, <4>15 DEF Bad
    <3>5. QED BY <3>2, <3>3, <3>4
  <2>4. QED BY <2>2, <2>3
<1>10. QED BY <1>6, <1>9 DEF Bad

\* So nothing on the way to an end that is not bad is bad.
LEMMA NeverBad ==
    ASSUME NEW F \in Contents, AllPlain(F), NEW tr, NEW n, Trace(F, tr, n), ~Bad(tr[n])
    PROVE  \A k \in 0 .. n : ~Bad(tr[k])
<1> DEFINE S == {j \in 0 .. n : ~Bad(tr[n - j])}
<1>1. n \in Nat /\ n - 0 = n /\ n - n = 0
  BY DEF Trace
<1>2. 0 \in S
  BY <1>1
<1>3. ASSUME NEW m \in 0 .. n PROVE m \in S
  <2>1. ASSUME NEW k \in 0 .. m - 1, k \in S PROVE k + 1 \in S
    <3>1. PICK i : i = n - (k + 1)
      OBVIOUS
    <3>2. i \in 0 .. n - 1 /\ i + 1 = n - k /\ k + 1 \in 0 .. n /\ i \in 0 .. n /\ i + 1 \in 0 .. n
      BY <1>1, <3>1
    <3>3. /\ tr[i] \in Config /\ tr[i + 1] \in Config /\ Fits(F, tr[i])
          /\ Approves(F, tr[i], tr[i + 1])
      BY <3>2 DEF Trace
    <3>4. ~Bad(tr[i + 1])
      BY <2>1, <3>2
    <3>5. ~Bad(tr[i])
      BY <3>3, <3>4, BadStays
    <3>6. QED BY <3>1, <3>2, <3>5
  <2>2. m \in Nat
    BY <1>1
  <2> HIDE DEF S
  <2>3. QED BY <1>2, <2>1, <2>2, UpTo
<1>4. ASSUME NEW k \in 0 .. n PROVE ~Bad(tr[k])
  <2>1. n - k \in 0 .. n /\ n - (n - k) = k
    BY <1>1
  <2>2. QED BY <1>3, <2>1
<1>5. QED BY <1>4

(* ------------------- the converter behind the validator ------------------- *)

\* What the lines of the open repository block can have left in repo.
Gathered(lines, k, repo) ==
    \E i \in 1 .. k - 1 :
       /\ Within(lines, "repository", i, k)
       /\ repo.forwardTo # NoName =>
             \E m \in i + 1 .. k - 1 : lines[m].keyword = "repository"
       /\ repo.described = TRUE \/ repo.branches # {} =>
             \E m \in i + 1 .. k - 1 : lines[m].keyword \in {"branch", "description"}

\* A frame of the converter and the validator's frame at the same line.
Alike(F, s, t) ==
    /\ s.file = t.file /\ s.line = t.line /\ s.block = t.block
    /\ t.block = "Match" => Core(s.rule) = Core(t.rule)
    /\ t.block = "Repository" =>
          s.repo.name = t.repo.name /\ Gathered(F[t.file], t.line, s.repo)

StackFollows(F, st, cs) ==
    Len(st) = Len(cs) /\ \A i \in 1 .. Len(st) : Alike(F, st[i], cs[i])

RulesFollow(lr, cr) ==
    Len(lr) = Len(cr) /\ \A i \in 1 .. Len(lr) : Core(lr[i]) = Core(cr[i])

NamesFollow(lr, cr) ==
    Len(lr) = Len(cr) /\ \A i \in 1 .. Len(lr) : lr[i].name = cr[i]

\* A line of a repository block.
LEMMA GatheredSet ==
    ASSUME NEW lines, NEW k \in Nat \ {0}, NEW repo \in RepoType, Gathered(lines, k, repo),
           NEW l, l = lines[k], ConverterKnowsOfRepository(l), ~IsEnd(l, "repository")
    PROVE  Gathered(lines, k + 1, SetRepository(repo, l))
<1>1. PICK i \in 1 .. k - 1 :
         /\ Within(lines, "repository", i, k)
         /\ repo.forwardTo # NoName =>
               \E m \in i + 1 .. k - 1 : lines[m].keyword = "repository"
         /\ repo.described = TRUE \/ repo.branches # {} =>
               \E m \in i + 1 .. k - 1 : lines[m].keyword \in {"branch", "description"}
  BY DEF Gathered
<1>2. Within(lines, "repository", i, k + 1) /\ i \in 1 .. (k + 1) - 1 /\ i < k
  BY <1>1, WithinFacts
<1>3. (\A m \in i + 1 .. k - 1 : m \in i + 1 .. (k + 1) - 1) /\ k \in i + 1 .. (k + 1) - 1
  BY <1>2
<1>4. PICK new : new = SetRepository(repo, l)
  OBVIOUS
<1>5. new.forwardTo # NoName => repo.forwardTo # NoName \/ l.keyword = "repository"
  <2>1. CASE l.keyword = "repository"
    BY <2>1
  <2>2. CASE l.keyword # "repository"
    BY <1>4, <2>2 DEF SetRepository, ConverterKnowsOfRepository, RepoType
  <2>3. QED BY <2>1, <2>2
<1>6. l.keyword \notin {"branch", "description"} =>
         (new.described = TRUE \/ new.branches # {} => repo.described = TRUE \/ repo.branches # {})
  <2>1. CASE l.keyword = "repository"
    BY <1>4, <2>1 DEF SetRepository, RepoType
  <2>2. CASE l.keyword = "prefix"
    BY <1>4, <2>2 DEF SetRepository, RepoType
  <2>3. QED BY <2>1, <2>2 DEF ConverterKnowsOfRepository
<1>7. new.forwardTo # NoName =>
         \E m \in i + 1 .. (k + 1) - 1 : lines[m].keyword = "repository"
  BY <1>1, <1>3, <1>5
<1>8. new.described = TRUE \/ new.branches # {} =>
         \E m \in i + 1 .. (k + 1) - 1 : lines[m].keyword \in {"branch", "description"}
  BY <1>1, <1>3, <1>6
<1>9. QED BY <1>2, <1>4, <1>7, <1>8 DEF Gathered

\* A plain file does not contradict itself at the end of a repository block.
LEMMA GatheredEnd ==
    ASSUME NEW lines, Plain(lines), NEW k \in DOMAIN lines, DOMAIN lines = 1 .. Len(lines),
           Len(lines) \in Nat, NEW repo \in RepoType, Gathered(lines, k, repo),
           lines[k].keyword = "end"
    PROVE  ~Contradicts(repo)
<1>1. PICK i \in 1 .. k - 1 :
         /\ Within(lines, "repository", i, k)
         /\ repo.forwardTo # NoName =>
               \E m \in i + 1 .. k - 1 : lines[m].keyword = "repository"
         /\ repo.described = TRUE \/ repo.branches # {} =>
               \E m \in i + 1 .. k - 1 : lines[m].keyword \in {"branch", "description"}
  BY DEF Gathered
<1>2. i \in DOMAIN lines
  BY <1>1
<1>3. ~ \E m, n \in i + 1 .. k - 1 :
           lines[m].keyword = "repository" /\ lines[n].keyword \in {"branch", "description"}
  BY <1>1, <1>2 DEF Plain
<1>4. repo.described <=> repo.described = TRUE
  BY DEF RepoType
<1>5. QED BY <1>1, <1>3, <1>4 DEF Contradicts

\* A frame read past its line.
LEMMA ReadOn ==
    ASSUME NEW t \in Frame
    PROVE  LET x == [t EXCEPT !.line = @ + 1]
           IN  /\ x \in Frame /\ x.file = t.file /\ x.line = t.line + 1 /\ x.block = t.block
               /\ x.rule = t.rule /\ x.repo = t.repo
<1> DEFINE x == [t EXCEPT !.line = @ + 1]
<1>1. x \in Frame
  BY DEF Frame
<1>2. /\ x.file = t.file /\ x.line = t.line + 1 /\ x.block = t.block
      /\ x.rule = t.rule /\ x.repo = t.repo
  BY DEF Frame
<1>3. QED BY <1>1, <1>2

\* Two stacks whose innermost frames have read the same line.
LEMMA StackRead ==
    ASSUME NEW F, NEW st \in Seq(Frame), NEW cs \in Seq(Frame), st # <<>>,
           StackFollows(F, st, cs), NEW s \in Frame, NEW t \in Frame,
           s.file = t.file, s.line = t.line, s.block = t.block,
           t.block = "Match" => Core(s.rule) = Core(t.rule),
           t.block = "Repository" => /\ s.repo.name = t.repo.name
                                     /\ Gathered(F[t.file], t.line + 1, s.repo)
    PROVE  StackFollows(F, [st EXCEPT ![Len(st)] = [s EXCEPT !.line = @ + 1]],
                           [cs EXCEPT ![Len(cs)] = [t EXCEPT !.line = @ + 1]])
<1> DEFINE x == [s EXCEPT !.line = @ + 1]
           y == [t EXCEPT !.line = @ + 1]
           p == [st EXCEPT ![Len(st)] = x]
           q == [cs EXCEPT ![Len(cs)] = y]
<1>1. /\ x \in Frame /\ x.file = s.file /\ x.line = s.line + 1 /\ x.block = s.block
      /\ x.rule = s.rule /\ x.repo = s.repo
  BY ReadOn
<1>2. /\ y \in Frame /\ y.file = t.file /\ y.line = t.line + 1 /\ y.block = t.block
      /\ y.rule = t.rule /\ y.repo = t.repo
  BY ReadOn
<1> HIDE DEF x, y
<1>3. Alike(F, x, y)
  BY <1>1, <1>2 DEF Alike
<1>4. Len(st) = Len(cs) /\ Len(st) \in Nat \ {0}
  BY DEF StackFollows
<1>5. Len(p) = Len(st) /\ p[Len(st)] = x /\ \A i \in 1 .. Len(st) - 1 : p[i] = st[i]
  BY <1>1, ChangedLast
<1>6. Len(q) = Len(cs) /\ q[Len(cs)] = y /\ \A i \in 1 .. Len(cs) - 1 : q[i] = cs[i]
  <2>1. cs # <<>>
    BY <1>4
  <2>2. QED BY <1>2, <2>1, ChangedLast
<1> HIDE DEF p, q
<1>7. \A i \in 1 .. Len(p) : i = Len(st) \/ (i \in 1 .. Len(st) - 1 /\ i \in 1 .. Len(st))
  BY <1>4, <1>5
<1>8. \A i \in 1 .. Len(p) : Alike(F, p[i], q[i])
  BY <1>3, <1>4, <1>5, <1>6, <1>7 DEF StackFollows
<1>9. StackFollows(F, p, q)
  BY <1>4, <1>5, <1>6, <1>8 DEF StackFollows
<1>10. QED BY <1>9 DEF p, q, x, y

\* Another file is opened by both.
LEMMA StackOpened ==
    ASSUME NEW F, NEW st \in Seq(Frame), NEW cs \in Seq(Frame), NEW x \in File,
           StackFollows(F, st, cs)
    PROVE  StackFollows(F, Append(st, Opened(x)), Append(cs, Opened(x)))
<1>1. Opened(x) \in Frame /\ Alike(F, Opened(x), Opened(x))
  BY OpenedTyped DEF Alike, Opened
<1>2. /\ Len(Append(st, Opened(x))) = Len(st) + 1 /\ Append(st, Opened(x))[Len(st) + 1] = Opened(x)
      /\ \A i \in 1 .. Len(st) : Append(st, Opened(x))[i] = st[i]
      /\ Len(st) \in Nat
  BY <1>1, Longer
<1>3. /\ Len(Append(cs, Opened(x))) = Len(cs) + 1 /\ Append(cs, Opened(x))[Len(cs) + 1] = Opened(x)
      /\ \A i \in 1 .. Len(cs) : Append(cs, Opened(x))[i] = cs[i]
  BY <1>1, Longer
<1>4. Len(st) = Len(cs) /\ \A i \in 1 .. Len(st) : Alike(F, st[i], cs[i])
  BY DEF StackFollows
<1>5. \A i \in 1 .. Len(st) + 1 : i \in 1 .. Len(st) \/ i = Len(st) + 1
  BY <1>2
<1>6. QED BY <1>1, <1>2, <1>3, <1>4, <1>5 DEF StackFollows

\* A file is closed by both.
LEMMA StackClosed ==
    ASSUME NEW F, NEW st \in Seq(Frame), NEW cs \in Seq(Frame), st # <<>>,
           StackFollows(F, st, cs)
    PROVE  StackFollows(F, Front(st), Front(cs))
<1>1. Len(st) = Len(cs) /\ cs # <<>> /\ Len(st) \in Nat \ {0}
  BY DEF StackFollows
<1>2. Len(Front(st)) = Len(st) - 1 /\ \A i \in 1 .. Len(st) - 1 : Front(st)[i] = st[i]
  BY Shorter
<1>3. Len(Front(cs)) = Len(cs) - 1 /\ \A i \in 1 .. Len(cs) - 1 : Front(cs)[i] = cs[i]
  BY <1>1, Shorter
<1>4. \A i \in 1 .. Len(st) - 1 : i \in 1 .. Len(st)
  BY <1>1
<1>5. QED BY <1>1, <1>2, <1>3, <1>4 DEF StackFollows

\* A rule more on both sides.
LEMMA RuleMore ==
    ASSUME NEW lr \in Seq(RuleType), NEW cr \in Seq(RuleType), NEW r \in RuleType,
           NEW q \in RuleType, RulesFollow(lr, cr), Core(r) = Core(q)
    PROVE  RulesFollow(Append(lr, r), Append(cr, q))
<1>1. /\ Len(Append(lr, r)) = Len(lr) + 1 /\ Append(lr, r)[Len(lr) + 1] = r
      /\ \A i \in 1 .. Len(lr) : Append(lr, r)[i] = lr[i]
      /\ Len(lr) \in Nat
  BY Longer
<1>2. /\ Len(Append(cr, q)) = Len(cr) + 1 /\ Append(cr, q)[Len(cr) + 1] = q
      /\ \A i \in 1 .. Len(cr) : Append(cr, q)[i] = cr[i]
  BY Longer
<1>3. \A i \in 1 .. Len(lr) + 1 : i \in 1 .. Len(lr) \/ i = Len(lr) + 1
  BY <1>1
<1>4. QED BY <1>1, <1>2, <1>3 DEF RulesFollow

\* A repository more on both sides.
LEMMA RepositoryMore ==
    ASSUME NEW lr \in Seq(RepoType), NEW cr \in Seq(Text), NEW repo \in RepoType,
           repo.name \in Text, NamesFollow(lr, cr)
    PROVE  NamesFollow(Append(lr, repo), Append(cr, repo.name))
<1>1. /\ Len(Append(lr, repo)) = Len(lr) + 1 /\ Append(lr, repo)[Len(lr) + 1] = repo
      /\ \A i \in 1 .. Len(lr) : Append(lr, repo)[i] = lr[i]
      /\ Len(lr) \in Nat
  BY Longer
<1>2. /\ Len(Append(cr, repo.name)) = Len(cr) + 1
      /\ Append(cr, repo.name)[Len(cr) + 1] = repo.name
      /\ \A i \in 1 .. Len(cr) : Append(cr, repo.name)[i] = cr[i]
  BY Longer
<1>3. \A i \in 1 .. Len(lr) + 1 : i \in 1 .. Len(lr) \/ i = Len(lr) + 1
  BY <1>1
<1>4. QED BY <1>1, <1>2, <1>3 DEF NamesFollow

\* Rules that agree in what both programs keep agree in it after the same line.
LEMMA SetCore ==
    ASSUME NEW r \in RuleType, NEW q \in RuleType, Core(r) = Core(q), NEW k, NEW v,
           k \in {"repository", "branch", "prefix", "min", "max"}
    PROVE  Core(Set(r, k, v)) = Core(Set(q, k, v))
<1>1. /\ r.pattern = q.pattern /\ r.repository = q.repository /\ r.branch = q.branch
      /\ r.prefix = q.prefix /\ r.min = q.min /\ r.max = q.max
  BY DEF Core
<1>2. CASE k = "repository"
  BY <1>1, <1>2, SetFacts DEF Core, RuleType
<1>3. CASE k = "branch"
  BY <1>1, <1>3, SetFacts DEF Core, RuleType
<1>4. CASE k = "prefix"
  BY <1>1, <1>4, SetFacts DEF Core, RuleType
<1>5. CASE k = "min"
  BY <1>1, <1>5, SetFacts DEF Core, RuleType
<1>6. CASE k = "max"
  BY <1>1, <1>6, SetFacts DEF Core, RuleType
<1>7. QED BY <1>2, <1>3, <1>4, <1>5, <1>6

\* The converter's innermost frame and the validator's, and the line both read.
LEMMA SameLine ==
    ASSUME Types, stack # <<>>, NEW c \in Config, StackFollows(files, stack, c.stack)
    PROVE  LET t == Last(c.stack)
           IN  /\ c.stack # <<>> /\ t \in Frame /\ Top \in Frame
               /\ t.file = Top.file /\ t.line = Top.line /\ t.block = Top.block
               /\ t.block = "Match" => Core(Top.rule) = Core(t.rule)
               /\ t.block = "Repository" =>
                     Top.repo.name = t.repo.name /\ Gathered(files[t.file], t.line, Top.repo)
               /\ Current = files[t.file][t.line]
               /\ Readable <=> files[t.file] # Missing
               /\ HasLine <=> Readable /\ t.line <= Len(files[t.file])
<1>1. PICK t : t = Last(c.stack)
  OBVIOUS
<1>2. Top \in Frame /\ Top = stack[Len(stack)] /\ Len(stack) \in Nat \ {0}
  BY TopFacts
<1>3. Len(c.stack) = Len(stack) /\ Alike(files, stack[Len(stack)], c.stack[Len(stack)])
  BY <1>2 DEF StackFollows
<1>4. c.stack \in Seq(Frame) /\ c.stack # <<>>
  BY <1>2, <1>3 DEF Config
<1>5. t = c.stack[Len(stack)] /\ t \in Frame
  BY <1>1, <1>3, <1>4, Shorter
<1>6. Alike(files, Top, t)
  BY <1>2, <1>3, <1>5
<1>7. /\ t.file = Top.file /\ t.line = Top.line /\ t.block = Top.block
      /\ t.block = "Match" => Core(Top.rule) = Core(t.rule)
      /\ t.block = "Repository" =>
            Top.repo.name = t.repo.name /\ Gathered(files[t.file], t.line, Top.repo)
  BY <1>6 DEF Alike
<1>8. /\ Current = files[t.file][t.line]
      /\ Readable <=> files[t.file] # Missing
      /\ HasLine <=> Readable /\ t.line <= Len(files[t.file])
  BY <1>7 DEF Current, Readable, HasLine
<1>9. QED BY <1>1, <1>2, <1>4, <1>5, <1>7, <1>8

ConverterNext ==
    \/ ConverterIncludes
    \/ ConverterInRepository
    \/ ConverterInMatch
    \/ ConverterOpens
    \/ ConverterDeclares
    \/ ConverterFails
    \/ ConverterCannotOpen
    \/ ConverterReturns

\* Reading on in both programs.
LEMMA ReadFollows ==
    ASSUME Types, stack # <<>>, NEW c \in Config, StackFollows(files, stack, c.stack),
           NEW d, NEW s \in Frame, NEW t \in Frame,
           stack' = Read(s), d.stack = Advanced(c, t),
           s.file = t.file, s.line = t.line, s.block = t.block,
           t.block = "Match" => Core(s.rule) = Core(t.rule),
           t.block = "Repository" => /\ s.repo.name = t.repo.name
                                     /\ Gathered(files[t.file], t.line + 1, s.repo)
    PROVE  StackFollows(files, stack', d.stack) /\ stack' # <<>>
<1>1. stack \in Seq(Frame) /\ c.stack \in Seq(Frame)
  BY DEF Types, Config
<1>2. StackFollows(files, Read(s), Advanced(c, t))
  BY <1>1, StackRead DEF Read, Advanced
<1>3. QED BY <1>2, ReadFacts

\* The converter is where the validator was at c.
LoadFollows(c) ==
    /\ StackFollows(files, stack, c.stack)
    /\ RulesFollow(loadedRules, c.rules)
    /\ NamesFollow(loadedRepositories, c.repositories)

\* Where the validator approved of a line, the converter reads it, and both go on alike:
\* it does not abort, takes nothing for a line outside of its block and looks up no
\* variable it does not know.
LEMMA LineFollows ==
    ASSUME Types, AllPlain(files), phase = "load", stack # <<>>,
           NEW c \in Config, NEW d \in Config, LoadFollows(c), ~Bad(d), HasLine,
           LineStep(c, d, Last(c.stack), Current), ConverterNext
    PROVE  LoadFollows(d)' /\ phase' = "load" /\ stack' # <<>>
<1>0. PICK t : t = Last(c.stack)
  OBVIOUS
<1>1. PICK l : l = Current
  OBVIOUS
<1>2. PICK lines : lines = files[t.file]
  OBVIOUS
<1>3. /\ StackFollows(files, stack, c.stack) /\ RulesFollow(loadedRules, c.rules)
      /\ NamesFollow(loadedRepositories, c.repositories)
  BY DEF LoadFollows
<1>4. /\ c.stack # <<>> /\ t \in Frame /\ Top \in Frame
      /\ t.file = Top.file /\ t.line = Top.line /\ t.block = Top.block
      /\ t.block = "Match" => Core(Top.rule) = Core(t.rule)
      /\ t.block = "Repository" =>
            Top.repo.name = t.repo.name /\ Gathered(lines, t.line, Top.repo)
      /\ l = lines[t.line] /\ Readable /\ lines # Missing /\ t.line <= Len(lines)
  BY <1>0, <1>1, <1>2, <1>3, SameLine
<1>5. /\ t.file \in File /\ t.line \in Nat \ {0} /\ t.rule \in RuleType /\ t.repo \in RepoType
      /\ Top.rule \in RuleType /\ Top.repo \in RepoType
      /\ t.block = "Repository" => t.repo.name \in Text
  BY <1>4 DEF Frame
<1>6. /\ t.line \in DOMAIN lines /\ TypedLine(l) /\ DOMAIN lines = 1 .. Len(lines)
      /\ Len(lines) \in Nat
  BY <1>0, <1>2, <1>4, ConfigFacts DEF Types
<1>7. Plain(lines)
  BY <1>2, <1>4, <1>5 DEF AllPlain
<1>8. /\ l.keyword \in {"repository", "branch", "prefix"} => l.arg # NoArg
      /\ l.arg \notin Loose
      /\ l.arg \in Variable => l.keyword = "repository" /\ l.arg \notin BackReference
      /\ l.keyword = "prefix" => Unslashed(l.arg) = l.arg
  BY <1>4, <1>6, <1>7 DEF Plain
<1>9. LineStep(c, d, t, l)
  BY <1>0, <1>1
\* In a repository block.
<1>10. ASSUME t.block = "Repository"
       PROVE  /\ ConverterKnowsOfRepository(l) \/ IsEnd(l, "repository")
              /\ l.arg \notin Variable
  <2>1. PICK i \in 1 .. t.line - 1 : Within(lines, "repository", i, t.line)
    BY <1>4, <1>10 DEF Gathered
  <2>2. i \in DOMAIN lines
    BY <1>5, <1>6, <2>1
  <2>3. QED BY <1>4, <1>6, <1>7, <2>1, <2>2 DEF Plain
\* In a match block.
<1>11. ASSUME InMatchStep(c, d, t, l)
       PROVE  \E u \in Frame : /\ u = [t EXCEPT !.rule = ValidatorSet(@, l)]
                               /\ d.stack = Advanced(c, u) /\ u.file = t.file
                               /\ u.line = t.line /\ u.block = "Match"
                               /\ u.rule = ValidatorSet(t.rule, l) /\ u.rule \in RuleType
                               /\ ~BadRule(u.rule)
  <2>1. PICK u : u = [t EXCEPT !.rule = ValidatorSet(@, l)]
    OBVIOUS
  <2>2. ValidatorSet(t.rule, l) \in RuleType
    BY <1>5, <1>6, ValidatorSetTyped
  <2>3. t.block = "Match" /\ d.stack = Advanced(c, u)
    BY <1>11, <2>1 DEF InMatchStep
  <2>4. /\ u \in Frame /\ u.file = t.file /\ u.line = t.line /\ u.block = "Match"
        /\ u.rule = ValidatorSet(t.rule, l)
    BY <1>4, <2>1, <2>2, <2>3 DEF Frame
  <2>5. /\ Len(d.stack) = Len(c.stack) /\ d.stack[Len(c.stack)] = [u EXCEPT !.line = @ + 1]
        /\ Len(c.stack) \in Nat \ {0}
    BY <1>4, <2>3, <2>4, AdvancedFacts
  <2>6. [u EXCEPT !.line = @ + 1].block = "Match" /\ [u EXCEPT !.line = @ + 1].rule = u.rule
    BY <2>4, ReadOn
  <2>7. Len(c.stack) \in 1 .. Len(d.stack)
    BY <2>5
  <2>8. ~BadRule(u.rule)
    BY <2>4, <2>5, <2>6, <2>7 DEF Bad
  <2>9. QED BY <2>1, <2>2, <2>3, <2>4, <2>8
\* No variable is looked up.
<1>12. l.arg \notin Variable
  <2>1. SUFFICES ASSUME l.arg \in Variable PROVE FALSE
    OBVIOUS
  <2>2. l.keyword = "repository" /\ l.arg # NoArg /\ t.block # "Repository"
    BY <1>8, <1>10, <2>1
  <2>3. InMatchStep(c, d, t, l)
    BY <1>9, <2>2
       DEF LineStep, OpensStep, IncludesStep, DeclaresStep, InRepositoryStep,
           EndRepositoryStep, EndMatchStep, IsEnd
  <2>4. ~BadRule(ValidatorSet(t.rule, l))
    BY <1>11, <2>3
  <2>5. ValidatorSet(t.rule, l).repository = l.arg
    BY <1>5, <2>2, ValidatorSetFacts
  <2>6. QED BY <1>8, <2>1, <2>4, <2>5 DEF BadRule
<1>13. Substituted(l) = l /\ ~Undeclared(l)
  BY <1>6, <1>12, SubstitutedFacts DEF Undeclared
\* What the converter can do with the line.
<1>14. /\ ConverterIncludes => l.keyword = "include" /\ l.arg # NoArg
       /\ ConverterInRepository => InRepository(l)
       /\ ConverterInMatch => InMatch(l)
       /\ ConverterOpens => ~InBlock(l) /\ OpensBlock(l)
       /\ ConverterDeclares => ~InBlock(l) /\ IsDeclaration(l)
       /\ ConverterFails =>
             /\ ~(l.keyword = "include" /\ l.arg # NoArg)
             /\ \/ InMatch(l) /\ ConverterAborts(l)
                \/ InRepository(l) /\ l.keyword = "end" /\ Contradicts(Top.repo)
                \/ ~InBlock(l) /\ ~IsDeclaration(l) /\ ~OpensBlock(l)
                \/ ~InBlock(l) /\ l.keyword = "match" /\ l.arg \in BadPattern
       /\ ConverterInRepository \/ ConverterInMatch \/ ConverterOpens \/ ConverterDeclares =>
             ~(l.keyword = "include" /\ l.arg # NoArg)
  BY <1>1, <1>13
     DEF ConverterIncludes, ConverterInRepository, ConverterInMatch, ConverterOpens,
         ConverterDeclares, ConverterFails, IsLine
<1>15. \/ ConverterIncludes \/ ConverterInRepository \/ ConverterInMatch
       \/ ConverterOpens \/ ConverterDeclares \/ ConverterFails
  <2>1. ~ConverterCannotOpen
    BY <1>4 DEF ConverterCannotOpen
  <2>2. ~AtEnd
    <3>1. Top.line <= Len(files[Top.file]) /\ Top.line \in Nat /\ Len(files[Top.file]) \in Nat
      BY <1>2, <1>4, <1>5, <1>6
    <3>2. \A m, n \in Nat : m <= n => ~(m > n)
      OBVIOUS
    <3>3. QED BY <3>1, <3>2 DEF AtEnd
  <2>3. ~ConverterReturns
    BY <2>2 DEF ConverterReturns
  <2>4. QED BY <2>1, <2>3 DEF ConverterNext
<1>16. files' = files
  BY <1>15 DEF ConverterIncludes, ConverterInRepository, ConverterInMatch, ConverterOpens,
               ConverterDeclares, ConverterFails, Abort
<1>17. InBlock(l) <=>
          \/ t.block = "Repository" /\ (ConverterKnowsOfRepository(l) \/ IsEnd(l, "repository"))
          \/ t.block = "Match" /\ (ConverterKnows(l) \/ IsEnd(l, "match"))
  BY <1>4 DEF InBlock, InRepository, InMatch
<1>18. loadedRules \in Seq(RuleType) /\ loadedRepositories \in Seq(RepoType)
       /\ c.rules \in Seq(RuleType) /\ c.repositories \in Seq(Text)
  BY DEF Types, Config
<1>19. CASE OpensStep(c, d, t, l)
  <2>1. /\ t.block = "None" /\ l.keyword \in {"create", "match"} /\ l.arg # NoArg
        /\ d.rules = c.rules /\ d.repositories = c.repositories
    BY <1>19 DEF OpensStep
  <2>2. ~InBlock(l) /\ OpensBlock(l) /\ ~InRepository(l) /\ ~InMatch(l) /\ ~IsDeclaration(l)
    BY <1>4, <1>8, <1>17, <2>1 DEF OpensBlock, IsDeclaration, InRepository, InMatch
  <2>3. CASE l.keyword = "create"
    <3>1. ConverterOpens
      BY <1>14, <1>15, <2>2, <2>3
    <3>2. PICK repo : repo = NewRepository(l.arg)
      OBVIOUS
    <3>3. /\ repo \in RepoType /\ repo.name = l.arg /\ repo.forwardTo = NoName
          /\ repo.described = FALSE /\ repo.branches = {} /\ l.arg \in Text
      BY <1>6, <2>1, <2>3, <3>2, NewTyped DEF NameOrNone, Text, NewRepository, TypedLine
    <3>4. PICK s : s = [Top EXCEPT !.block = "Repository", !.repo = repo]
      OBVIOUS
    <3>5. PICK u : u = [t EXCEPT !.block = "Repository", !.repo = repo]
      OBVIOUS
    <3>6. /\ s \in Frame /\ s.file = Top.file /\ s.line = Top.line /\ s.block = "Repository"
          /\ s.repo = repo
      BY <1>4, <3>3, <3>4 DEF Frame
    <3>7. /\ u \in Frame /\ u.file = t.file /\ u.line = t.line /\ u.block = "Repository"
          /\ u.repo = repo
      BY <1>4, <3>3, <3>5 DEF Frame
    <3>8. Within(lines, "repository", t.line, t.line + 1) /\ t.line \in 1 .. (t.line + 1) - 1
      BY <1>4, <1>5, <2>3, WithinFacts
    <3>9. Gathered(lines, t.line + 1, repo)
      BY <3>3, <3>8 DEF Gathered
    <3>10. /\ stack' = Read(s) /\ phase' = phase
           /\ loadedRules' = loadedRules /\ loadedRepositories' = loadedRepositories
      BY <1>1, <1>13, <2>3, <3>1, <3>2, <3>4 DEF ConverterOpens, converter
    <3>11. d.stack = Advanced(c, u)
      BY <1>19, <2>3, <3>2, <3>5 DEF OpensStep
    <3>12. StackFollows(files, stack', d.stack) /\ stack' # <<>>
      BY <1>2, <1>3, <1>4, <3>6, <3>7, <3>9, <3>10, <3>11, ReadFollows
    <3>13. QED BY <1>3, <1>16, <2>1, <3>10, <3>12 DEF LoadFollows
  <2>4. CASE l.keyword = "match"
    <3>1. NewRule(l.arg) \in RuleType /\ NewRule(l.arg).pattern = l.arg
      BY <1>6, <2>4, NewTyped DEF TypedLine, Text, NewRule
    <3>2. PICK rule : rule = NewRule(l.arg)
      OBVIOUS
    <3>3. PICK s : s = [Top EXCEPT !.block = "Match", !.rule = rule]
      OBVIOUS
    <3>4. PICK u : u = [t EXCEPT !.block = "Match", !.rule = rule]
      OBVIOUS
    <3>5. /\ s \in Frame /\ s.file = Top.file /\ s.line = Top.line /\ s.block = "Match"
          /\ s.rule = rule
      BY <1>4, <3>1, <3>2, <3>3 DEF Frame
    <3>6. /\ u \in Frame /\ u.file = t.file /\ u.line = t.line /\ u.block = "Match"
          /\ u.rule = rule
      BY <1>4, <3>1, <3>2, <3>4 DEF Frame
    <3>7. d.stack = Advanced(c, u)
      BY <1>19, <2>4, <3>2, <3>4 DEF OpensStep
    <3>8. l.arg \notin BadPattern
      <4>1. /\ Len(d.stack) = Len(c.stack) /\ d.stack[Len(c.stack)] = [u EXCEPT !.line = @ + 1]
            /\ Len(c.stack) \in Nat \ {0}
        BY <1>4, <3>6, <3>7, AdvancedFacts
      <4>2. [u EXCEPT !.line = @ + 1].block = "Match" /\ [u EXCEPT !.line = @ + 1].rule = rule
        BY <3>6, ReadOn
      <4>3. Len(c.stack) \in 1 .. Len(d.stack)
        BY <4>1
      <4>4. QED BY <3>1, <3>2, <4>1, <4>2, <4>3 DEF Bad, BadRule
    <3>9. ConverterOpens
      BY <1>14, <1>15, <2>2, <2>4, <3>8
    <3>10. /\ stack' = Read(s) /\ phase' = phase
           /\ loadedRules' = loadedRules /\ loadedRepositories' = loadedRepositories
      BY <1>1, <1>13, <2>4, <3>2, <3>3, <3>9 DEF ConverterOpens, converter
    <3>11. StackFollows(files, stack', d.stack) /\ stack' # <<>>
      BY <1>3, <1>4, <3>5, <3>6, <3>7, <3>10, ReadFollows
    <3>12. QED BY <1>3, <1>16, <2>1, <3>10, <3>11 DEF LoadFollows
  <2>5. QED BY <2>1, <2>3, <2>4
<1>20. CASE IncludesStep(c, d, t, l)
  <2>1. /\ t.block = "None" /\ l.keyword = "include" /\ l.arg # NoArg /\ Len(c.stack) < MaxOpen
        /\ d.stack = Append(Advanced(c, t), Opened(l.arg))
        /\ d.rules = c.rules /\ d.repositories = c.repositories
    BY <1>20 DEF IncludesStep
  <2>2. ConverterIncludes
    BY <1>14, <1>15, <2>1
  <2>3. Len(stack) < MaxOpen
    BY <1>3, <2>1 DEF StackFollows
  <2>4. /\ stack' = Append(Read(Top), Opened(l.arg)) /\ phase' = phase
        /\ loadedRules' = loadedRules /\ loadedRepositories' = loadedRepositories
    BY <1>1, <2>2, <2>3 DEF ConverterIncludes, converter
  <2>5. l.arg \in File
    BY <1>6, <2>1 DEF TypedLine, Text
  <2>6. stack \in Seq(Frame) /\ c.stack \in Seq(Frame)
    BY DEF Types, Config
  <2>7. StackFollows(files, Read(Top), Advanced(c, t))
    BY <1>3, <1>4, <2>1, <2>6, StackRead DEF Read, Advanced
  <2>8. Read(Top) \in Seq(Frame) /\ Advanced(c, t) \in Seq(Frame)
    BY <1>4, ReadFacts, AdvancedFacts
  <2>9. StackFollows(files, stack', d.stack)
    BY <2>1, <2>4, <2>5, <2>7, <2>8, StackOpened
  <2>10. stack' # <<>>
    BY <2>4, <2>5, <2>8, OpenedTyped, Longer
  <2>11. QED BY <1>3, <1>16, <2>1, <2>4, <2>9, <2>10 DEF LoadFollows
<1>21. CASE DeclaresStep(c, d, t, l)
  <2>1. /\ t.block = "None" /\ l.keyword = "declare" /\ l.arg # NoArg /\ d.stack = Advanced(c, t)
        /\ d.rules = c.rules /\ d.repositories = c.repositories
    BY <1>21 DEF DeclaresStep
  <2>2. ~InBlock(l) /\ ~OpensBlock(l) /\ ~InRepository(l) /\ ~InMatch(l) /\ IsDeclaration(l)
    BY <1>4, <1>8, <1>17, <2>1 DEF OpensBlock, IsDeclaration, InRepository, InMatch
  <2>3. ConverterDeclares
    BY <1>14, <1>15, <2>1, <2>2
  <2>4. /\ stack' = Read(Top) /\ phase' = phase
        /\ loadedRules' = loadedRules /\ loadedRepositories' = loadedRepositories
    BY <2>3 DEF ConverterDeclares
  <2>5. StackFollows(files, stack', d.stack) /\ stack' # <<>>
    BY <1>3, <1>4, <2>1, <2>4, ReadFollows
  <2>6. QED BY <1>3, <1>16, <2>1, <2>4, <2>5 DEF LoadFollows
<1>22. CASE InRepositoryStep(c, d, t, l)
  <2>1. /\ t.block = "Repository" /\ ~IsEnd(l, "repository") /\ d.stack = Advanced(c, t)
        /\ d.rules = c.rules /\ d.repositories = c.repositories
    BY <1>22 DEF InRepositoryStep
  <2>2. ConverterKnowsOfRepository(l)
    BY <1>10, <2>1
  <2>3. InBlock(l) /\ InRepository(l) /\ ~InMatch(l) /\ l.keyword \notin {"include", "end"}
    BY <1>4, <1>17, <2>1, <2>2 DEF InRepository, InMatch, ConverterKnowsOfRepository
  <2>4. ConverterInRepository
    BY <1>14, <1>15, <2>3
  <2>5. PICK repo : repo = SetRepository(Top.repo, l)
    OBVIOUS
  <2>6. /\ stack' = Read([Top EXCEPT !.repo = SetRepository(@, l)]) /\ phase' = phase
        /\ loadedRules' = loadedRules /\ loadedRepositories' = loadedRepositories
    BY <1>1, <1>13, <2>3, <2>4 DEF ConverterInRepository
  <2>7. /\ l.keyword \in {"repository", "branch", "prefix", "description"}
        /\ l.keyword # "description" => l.arg \in NameOrNone
    BY <1>6, <2>2 DEF ConverterKnowsOfRepository, TypedLine, NameOrNone, Text
  <2>8. repo \in RepoType /\ repo.name = Top.repo.name
    BY <1>5, <2>5, <2>7, SetRepositoryTyped
  <2>9. Gathered(lines, t.line + 1, repo)
    BY <1>4, <1>5, <2>1, <2>2, <2>5, GatheredSet
  <2>10. PICK s : s = [Top EXCEPT !.repo = repo]
    OBVIOUS
  <2>11. /\ s \in Frame /\ s.file = Top.file /\ s.line = Top.line /\ s.block = Top.block
         /\ s.repo = repo
    BY <1>4, <1>5, <2>1, <2>8, <2>10 DEF Frame
  <2>12. stack' = Read(s)
    BY <2>5, <2>6, <2>10
  <2>13. StackFollows(files, stack', d.stack) /\ stack' # <<>>
    BY <1>2, <1>3, <1>4, <2>1, <2>8, <2>9, <2>11, <2>12, ReadFollows
  <2>14. QED BY <1>3, <1>16, <2>1, <2>6, <2>13 DEF LoadFollows
<1>23. CASE EndRepositoryStep(c, d, t, l)
  <2>1. /\ t.block = "Repository" /\ IsEnd(l, "repository")
        /\ d.stack = Advanced(c, [t EXCEPT !.block = "None"])
        /\ d.rules = c.rules /\ d.repositories = Append(c.repositories, t.repo.name)
    BY <1>23 DEF EndRepositoryStep
  <2>2. /\ InBlock(l) /\ InRepository(l) /\ ~InMatch(l) /\ l.keyword = "end"
    BY <1>4, <1>17, <2>1 DEF InRepository, InMatch, IsEnd
  <2>3. ~Contradicts(Top.repo)
    BY <1>4, <1>5, <1>6, <1>7, <2>1, <2>2, GatheredEnd
  <2>4. ConverterInRepository
    BY <1>14, <1>15, <2>2, <2>3
  <2>5. PICK s : s = [Top EXCEPT !.block = "None", !.repo = NewRepository(NoName)]
    OBVIOUS
  <2>6. PICK u : u = [t EXCEPT !.block = "None"]
    OBVIOUS
  <2>7. NewRepository(NoName) \in RepoType
    BY NewTyped DEF NameOrNone, Text
  <2>8. s \in Frame /\ s.file = Top.file /\ s.line = Top.line /\ s.block = "None"
    BY <1>4, <2>5, <2>7 DEF Frame
  <2>9. u \in Frame /\ u.file = t.file /\ u.line = t.line /\ u.block = "None"
    BY <1>4, <2>6 DEF Frame
  <2>10. /\ stack' = Read(s) /\ phase' = phase /\ loadedRules' = loadedRules
         /\ loadedRepositories' = Append(loadedRepositories, Top.repo)
    BY <1>1, <1>13, <2>2, <2>4, <2>5 DEF ConverterInRepository
  <2>11. StackFollows(files, stack', d.stack) /\ stack' # <<>>
    <3>1. d.stack = Advanced(c, u) /\ stack' = Read(s)
      BY <2>1, <2>6, <2>10
    <3>2. s.file = u.file /\ s.line = u.line /\ s.block = u.block /\ u.block = "None"
      BY <1>4, <2>8, <2>9
    <3>3. QED BY <1>3, <2>8, <2>9, <3>1, <3>2, ReadFollows
  <2>12. NamesFollow(loadedRepositories', d.repositories)
    BY <1>3, <1>4, <1>5, <1>18, <2>1, <2>10, RepositoryMore
  <2>13. QED BY <1>3, <1>16, <2>1, <2>10, <2>11, <2>12 DEF LoadFollows
<1>24. CASE InMatchStep(c, d, t, l)
  <2>1. /\ t.block = "Match" /\ ~IsEnd(l, "match") /\ ~ValidatorRejects(l)
        /\ d.rules = c.rules /\ d.repositories = c.repositories
    BY <1>24 DEF InMatchStep
  <2>2. PICK u \in Frame : /\ d.stack = Advanced(c, u) /\ u.file = t.file
                           /\ u.line = t.line /\ u.block = "Match"
                           /\ u.rule = ValidatorSet(t.rule, l) /\ u.rule \in RuleType
    BY <1>11, <1>24
  <2>3. l.keyword \in {"repository", "branch", "prefix", "min", "max", "action"}
    BY <2>1 DEF ValidatorRejects, ValidatorKnows
  <2>4. ConverterKnows(l) /\ ~ConverterAborts(l)
    BY <1>8, <2>1, <2>3, RulesFilesAssumption
       DEF ConverterKnows, ConverterAborts, ValidatorRejects
  <2>5. InBlock(l) /\ InMatch(l) /\ ~InRepository(l)
    BY <1>4, <1>17, <2>1, <2>4 DEF InRepository, InMatch
  <2>6. ConverterInMatch
    BY <1>14, <1>15, <2>3, <2>4, <2>5
  <2>7. PICK rule : rule = ConverterSet(Top.rule, l.keyword, l.arg)
    OBVIOUS
  <2>8. rule \in RuleType
    BY <1>5, <1>6, <1>13, <2>4, <2>7, SubstitutedSetTyped
  <2>8a. rule = Set(Top.rule, l.keyword, l.arg)
    BY <1>8, <2>7 DEF ConverterSet
  <2>9. Core(rule) = Core(u.rule)
    <3>1. CASE l.keyword = "action"
      <4>1. rule = [Top.rule EXCEPT !.action = l.arg]
        BY <2>8a, <3>1, SetFacts
      <4>2. Core(rule) = Core(Top.rule)
        BY <1>5, <4>1 DEF Core, RuleType
      <4>3. u.rule = t.rule
        BY <2>2, <3>1 DEF ValidatorSet
      <4>4. QED BY <1>4, <2>1, <4>2, <4>3
    <3>2. CASE l.keyword # "action"
      <4>1. u.rule = Set(t.rule, l.keyword, l.arg)
        BY <1>5, <2>2, <2>3, <2>4, <3>2, ValidatorSetFacts DEF ValidatorKnows, ConverterKnows
      <4>2. Core(Top.rule) = Core(t.rule)
        BY <1>4, <2>1
      <4>3. QED BY <1>5, <2>3, <2>8a, <3>2, <4>1, <4>2, SetCore
    <3>3. QED BY <3>1, <3>2
  <2>10. PICK s : s = [Top EXCEPT !.rule = rule]
    OBVIOUS
  <2>11. /\ s \in Frame /\ s.file = Top.file /\ s.line = Top.line /\ s.block = "Match"
         /\ s.rule = rule
    BY <1>4, <2>1, <2>8, <2>10 DEF Frame
  <2>12. /\ stack' = Read(s) /\ phase' = phase
         /\ loadedRules' = loadedRules /\ loadedRepositories' = loadedRepositories
    BY <1>1, <1>13, <2>3, <2>6, <2>7, <2>10 DEF ConverterInMatch
  <2>13. StackFollows(files, stack', d.stack) /\ stack' # <<>>
    BY <1>3, <1>4, <2>2, <2>9, <2>11, <2>12, ReadFollows
  <2>14. QED BY <1>3, <1>16, <2>1, <2>12, <2>13 DEF LoadFollows
<1>25. CASE EndMatchStep(c, d, t, l)
  <2>1. /\ t.block = "Match" /\ IsEnd(l, "match")
        /\ d.stack = Advanced(c, [t EXCEPT !.block = "None"])
        /\ d.rules = Append(c.rules, t.rule) /\ d.repositories = c.repositories
    BY <1>25 DEF EndMatchStep
  <2>2. InBlock(l) /\ InMatch(l) /\ ~InRepository(l) /\ l.keyword = "end"
    BY <1>4, <1>17, <2>1 DEF InRepository, InMatch, IsEnd
  <2>3. ~ConverterAborts(l)
    BY <2>2 DEF ConverterAborts
  <2>4. ConverterInMatch
    BY <1>14, <1>15, <2>2, <2>3
  <2>5. PICK s : s = [Top EXCEPT !.block = "None"]
    OBVIOUS
  <2>6. PICK u : u = [t EXCEPT !.block = "None"]
    OBVIOUS
  <2>7. s \in Frame /\ s.file = Top.file /\ s.line = Top.line /\ s.block = "None"
    BY <1>4, <2>5 DEF Frame
  <2>8. u \in Frame /\ u.file = t.file /\ u.line = t.line /\ u.block = "None"
    BY <1>4, <2>6 DEF Frame
  <2>9. /\ stack' = Read(s) /\ phase' = phase /\ loadedRepositories' = loadedRepositories
        /\ loadedRules' = Append(loadedRules, ConverterEnds(Top.rule))
    BY <1>1, <1>13, <2>2, <2>4, <2>5 DEF ConverterInMatch
  <2>10. StackFollows(files, stack', d.stack) /\ stack' # <<>>
    <3>1. d.stack = Advanced(c, u) /\ stack' = Read(s)
      BY <2>1, <2>6, <2>9
    <3>2. s.file = u.file /\ s.line = u.line /\ s.block = u.block /\ u.block = "None"
      BY <1>4, <2>7, <2>8
    <3>3. QED BY <1>3, <2>7, <2>8, <3>1, <3>2, ReadFollows
  <2>11. ConverterEnds(Top.rule) \in RuleType
    BY <1>5, EndsTyped
  <2>12. Core(ConverterEnds(Top.rule)) = Core(Top.rule)
    BY <1>5 DEF ConverterEnds, Core, RuleType
  <2>13. Core(ConverterEnds(Top.rule)) = Core(t.rule)
    BY <1>4, <2>1, <2>12
  <2>14. RulesFollow(loadedRules', d.rules)
    BY <1>3, <1>5, <1>18, <2>1, <2>9, <2>11, <2>13, RuleMore
  <2>15. QED BY <1>3, <1>16, <2>1, <2>9, <2>10, <2>14 DEF LoadFollows
<1>26. QED
  BY <1>9, <1>19, <1>20, <1>21, <1>22, <1>23, <1>24, <1>25 DEF LineStep

\* The end of a file, for both.
LEMMA ReturnFollows ==
    ASSUME Types, phase = "load", stack # <<>>, NEW c \in Config, NEW d \in Config,
           LoadFollows(c), Readable, ~HasLine, ReturnStep(c, d, Last(c.stack)), ConverterNext
    PROVE  /\ LoadFollows(d)' /\ ConverterReturns
           /\ Len(stack) > 1 => phase' = "load" /\ stack' # <<>>
           /\ ~(Len(stack) > 1) => phase' = "done" /\ outcome' = "loaded" /\ d.stack = <<>>
<1>1. ConverterReturns
  BY DEF ConverterNext, ConverterIncludes, ConverterInRepository, ConverterInMatch,
         ConverterOpens, ConverterDeclares, ConverterFails, ConverterCannotOpen, IsLine
<1>2. /\ stack' = Front(stack) /\ files' = files
      /\ loadedRules' = loadedRules /\ loadedRepositories' = loadedRepositories
      /\ Len(stack) > 1 => phase' = phase
      /\ ~(Len(stack) > 1) => phase' = "done" /\ outcome' = "loaded"
  BY <1>1 DEF ConverterReturns, converter
<1>3. /\ StackFollows(files, stack, c.stack) /\ RulesFollow(loadedRules, c.rules)
      /\ NamesFollow(loadedRepositories, c.repositories)
  BY DEF LoadFollows
<1>4. stack \in Seq(Frame) /\ c.stack \in Seq(Frame)
  BY DEF Types, Config
<1>5. d.stack = Front(c.stack) /\ d.rules = c.rules /\ d.repositories = c.repositories
  BY DEF ReturnStep
<1>6. StackFollows(files, Front(stack), Front(c.stack))
  BY <1>3, <1>4, StackClosed
<1>7. LoadFollows(d)'
  BY <1>2, <1>3, <1>5, <1>6 DEF LoadFollows
<1>8. Len(stack) \in Nat \ {0} /\ Len(Front(stack)) = Len(stack) - 1 /\ Len(c.stack) = Len(stack)
  BY <1>3, <1>4, Shorter DEF StackFollows
<1>9. Len(stack) > 1 => stack' # <<>>
  <2>1. ASSUME Len(stack) > 1, stack' = <<>> PROVE FALSE
    <3>1. Len(Front(stack)) = 0
      BY <1>2, <2>1
    <3>2. \A m \in Nat \ {0} : m > 1 => m - 1 # 0
      OBVIOUS
    <3>3. QED BY <1>8, <2>1, <3>1, <3>2
  <2>2. QED BY <2>1
<1>10. ~(Len(stack) > 1) => d.stack = <<>>
  <2>1. \A m \in Nat \ {0} : ~(m > 1) => m = 1
    OBVIOUS
  <2>2. ~(Len(stack) > 1) => Len(c.stack) = 1
    BY <1>8, <2>1
  <2>3. c.stack # <<>>
    BY <1>8
  <2>4. QED BY <1>4, <1>5, <2>2, <2>3, Shorter
<1>11. QED BY <1>1, <1>2, <1>7, <1>9, <1>10

\* The validator at the end of its work.
End == [stack |-> <<>>, rules |-> rules, repositories |-> repositories]

\* The converter is somewhere on the way the validator took.
Ahead ==
    \E tr : \E n : \E k \in 0 .. n :
       Trace(files, tr, n) /\ tr[n] = End /\ LoadFollows(tr[k])

\* As long as the validator is at work the converter has nothing.
EarlyInv ==
    phase \in {"validate", "analyze"} =>
       ~accepted /\ loadedRules = <<>> /\ loadedRepositories = <<>>

\* The converter of accepted rules is on the way of a validator that did not reject.
LoadInv ==
    phase = "load" /\ accepted =>
       stack # <<>> /\ ~AnalyzeRejects(rules, repositories) /\ Ahead

\* At the end the converter has loaded what was accepted.
DoneInv ==
    phase = "done" /\ accepted =>
       /\ outcome = "loaded" /\ ~AnalyzeRejects(rules, repositories)
       /\ RulesFollow(loadedRules, rules) /\ NamesFollow(loadedRepositories, repositories)

\* Rules that are not rejected are not bad.
LEMMA EndNotBad ==
    ASSUME Types, ~AnalyzeRejects(rules, repositories), Fits(files, End)
    PROVE  ~Bad(End)
<1>1. End.stack = <<>> /\ End.rules = rules /\ End.repositories = repositories
  BY DEF End
<1>2. \A i \in 1 .. Len(repositories) : repositories[i] \notin Variable
  BY <1>1 DEF Fits
<1>3. repositories \in Seq(Text) /\ rules \in Seq(RuleType)
  BY DEF Types
<1>4. \A x \in Range(repositories) : x \notin Variable
  BY <1>2, <1>3 DEF Range
<1>5. ASSUME NEW i \in 1 .. Len(rules) PROVE ~BadRule(rules[i])
  <2>1. i \in DOMAIN rules
    BY <1>3
  <2>2. /\ rules[i].pattern \notin BadPattern
        /\ rules[i].repository \in Range(repositories) \cup {NoName} \cup BackReference
    BY <2>1 DEF AnalyzeRejects
  <2>3. QED BY <1>4, <2>2, RulesFilesAssumption DEF BadRule, Text
<1>6. 1 .. Len(End.stack) = {}
  BY <1>1
<1>7. QED BY <1>1, <1>5, <1>6 DEF Bad

\* The validator accepts, and the converter starts where the validator started.
LEMMA AnalyzeAhead ==
    ASSUME Types, ValidatorInv, EarlyInv, Analyze
    PROVE  LoadInv'
<1>1. SUFFICES ASSUME accepted' PROVE LoadInv'
  BY DEF LoadInv
<1>2. /\ phase = "analyze" /\ phase' = "load" /\ stack' = <<Opened(Root)>>
      /\ ~errors /\ ~AnalyzeRejects(rules, repositories)
      /\ files' = files /\ rules' = rules /\ repositories' = repositories
      /\ loadedRules' = loadedRules /\ loadedRepositories' = loadedRepositories
  BY <1>1 DEF Analyze, Judge, converter
<1>3. PICK tr : \E n : Trace(files, tr, n) /\ tr[n] = Now
  BY <1>2 DEF ValidatorInv, Reached
<1>4. PICK n : Trace(files, tr, n) /\ tr[n] = Now
  BY <1>3
<1>5. n \in Nat /\ 0 \in 0 .. n /\ tr[0] = Start
  BY <1>4 DEF Trace
<1>6. Now = End
  BY <1>2 DEF Types, Now, End
<1>7. Opened(Root) \in Frame /\ Alike(files, Opened(Root), Opened(Root))
  BY OpenedTyped, RulesFilesAssumption DEF Alike, Opened
<1>8. /\ Len(<<Opened(Root)>>) = 1 /\ <<Opened(Root)>>[1] = Opened(Root)
      /\ Start.stack = <<Opened(Root)>> /\ Start.rules = <<>> /\ Start.repositories = <<>>
  BY DEF Start
<1>9. StackFollows(files, <<Opened(Root)>>, Start.stack)
  BY <1>7, <1>8 DEF StackFollows
<1>10. RulesFollow(<<>>, Start.rules) /\ NamesFollow(<<>>, Start.repositories)
  BY <1>8 DEF RulesFollow, NamesFollow
<1>11. loadedRules = <<>> /\ loadedRepositories = <<>>
  BY <1>2 DEF EarlyInv
<1>12. LoadFollows(Start)'
  BY <1>2, <1>9, <1>10, <1>11 DEF LoadFollows
<1>13. End' = End
  BY <1>2 DEF End
<1>14. Trace(files', tr, n) /\ tr[n] = End' /\ LoadFollows(tr[0])'
  BY <1>2, <1>4, <1>5, <1>6, <1>12, <1>13
<1>15. Ahead'
  BY <1>5, <1>14 DEF Ahead
<1>16. stack' # <<>>
  BY <1>2
<1>17. QED BY <1>2, <1>15, <1>16 DEF LoadInv

\* The converter goes on along the validator's way, to its end.
LEMMA ConverterGoesOn ==
    ASSUME Types, Types', AllPlain(files), phase = "load", LoadInv, ConverterNext
    PROVE  LoadInv' /\ DoneInv'
<1>1. /\ files' = files /\ rules' = rules /\ repositories' = repositories
      /\ accepted' = accepted
  BY DEF ConverterNext, ConverterIncludes, ConverterInRepository, ConverterInMatch,
         ConverterOpens, ConverterDeclares, ConverterFails, ConverterCannotOpen,
         ConverterReturns, Abort, validator
<1>2. SUFFICES ASSUME accepted PROVE LoadInv' /\ DoneInv'
  BY <1>1 DEF LoadInv, DoneInv
<1>3. stack # <<>> /\ ~AnalyzeRejects(rules, repositories) /\ Ahead
  BY <1>2 DEF LoadInv
<1>4. PICK tr : \E n : \E k \in 0 .. n :
         Trace(files, tr, n) /\ tr[n] = End /\ LoadFollows(tr[k])
  BY <1>3 DEF Ahead
<1>5. PICK n : \E k \in 0 .. n : Trace(files, tr, n) /\ tr[n] = End /\ LoadFollows(tr[k])
  BY <1>4
<1>6. PICK k \in 0 .. n : Trace(files, tr, n) /\ tr[n] = End /\ LoadFollows(tr[k])
  BY <1>5
<1>7. n \in Nat /\ k \in Nat /\ n \in 0 .. n
  BY <1>6 DEF Trace
<1>8. files \in Contents
  BY DEF Types
<1>9. ~Bad(tr[n])
  BY <1>3, <1>6, <1>7, EndNotBad DEF Trace
<1>10. PICK c : c = tr[k]
  OBVIOUS
<1>11. c \in Config /\ LoadFollows(c)
  BY <1>6, <1>7, <1>10 DEF Trace
<1>12. c.stack # <<>>
  BY <1>3, <1>11, SameLine DEF LoadFollows
<1>13. k # n
  BY <1>6, <1>10, <1>12 DEF End
<1>14. k \in 0 .. n - 1 /\ k + 1 \in 0 .. n
  BY <1>7, <1>13
<1>15. PICK d : d = tr[k + 1]
  OBVIOUS
<1>16. d \in Config /\ Approves(files, c, d) /\ ~Bad(d)
  BY <1>6, <1>8, <1>9, <1>10, <1>14, <1>15, NeverBad DEF Trace
<1>17. ApprovesIn(files, c, d, Last(c.stack))
  BY <1>16 DEF Approves
<1>18. /\ Current = files[Last(c.stack).file][Last(c.stack).line]
       /\ Readable <=> files[Last(c.stack).file] # Missing
       /\ HasLine <=> Readable /\ Last(c.stack).line <= Len(files[Last(c.stack).file])
  BY <1>3, <1>11, SameLine DEF LoadFollows
<1>19. End' = End
  BY <1>1 DEF End
<1>20. Readable /\ \/ HasLine /\ LineStep(c, d, Last(c.stack), Current)
                   \/ ~HasLine /\ ReturnStep(c, d, Last(c.stack))
  BY <1>17, <1>18 DEF ApprovesIn
<1>21. ASSUME LoadFollows(d)', phase' = "load", stack' # <<>>
       PROVE  LoadInv' /\ DoneInv'
  <2>1. Trace(files', tr, n) /\ tr[n] = End' /\ LoadFollows(tr[k + 1])'
    BY <1>1, <1>6, <1>15, <1>19, <1>21
  <2>2. Ahead'
    BY <1>14, <2>1 DEF Ahead
  <2>3. QED BY <1>1, <1>3, <1>21, <2>2 DEF LoadInv, DoneInv
<1>22. CASE HasLine /\ LineStep(c, d, Last(c.stack), Current)
  <2>1. LoadFollows(d)' /\ phase' = "load" /\ stack' # <<>>
    BY <1>3, <1>11, <1>16, <1>22, LineFollows
  <2>2. QED BY <1>21, <2>1
<1>23. CASE ~HasLine /\ ReturnStep(c, d, Last(c.stack))
  <2>1. /\ LoadFollows(d)'
        /\ Len(stack) > 1 => phase' = "load" /\ stack' # <<>>
        /\ ~(Len(stack) > 1) => phase' = "done" /\ outcome' = "loaded" /\ d.stack = <<>>
    BY <1>3, <1>11, <1>16, <1>20, <1>23, ReturnFollows
  <2>2. CASE Len(stack) > 1
    BY <1>21, <2>1, <2>2
  <2>3. CASE ~(Len(stack) > 1)
    <3>1. k + 1 = n
      <4>1. SUFFICES ASSUME k + 1 # n PROVE FALSE
        OBVIOUS
      <4>2. k + 1 \in 0 .. n - 1
        BY <1>7, <1>14, <4>1
      <4>3. Approves(files, tr[k + 1], tr[(k + 1) + 1])
        BY <1>6, <4>2 DEF Trace
      <4>4. QED BY <1>15, <2>1, <2>3, <4>3 DEF Approves
    <3>2. d.rules = rules /\ d.repositories = repositories
      BY <1>6, <1>15, <3>1 DEF End
    <3>3. /\ RulesFollow(loadedRules', d.rules)
          /\ NamesFollow(loadedRepositories', d.repositories)
      BY <2>1 DEF LoadFollows
    <3>4. QED BY <1>1, <1>3, <2>1, <2>3, <3>2, <3>3 DEF LoadInv, DoneInv
  <2>4. QED BY <2>2, <2>3
<1>24. QED BY <1>20, <1>22, <1>23

\* The inductive invariant.
FollowInv == Types /\ ValidatorInv /\ EarlyInv /\ LoadInv /\ DoneInv

\* It holds at the start.
LEMMA FollowInit == ASSUME Init PROVE FollowInv
<1>1. Types
  BY InitTyped
<1>2. ValidatorInv
  <2>1. Now = Start
    BY DEF Now, Start, Init
  <2>2. QED BY <2>1, ReachedStart DEF ValidatorInv
<1>3. EarlyInv /\ LoadInv /\ DoneInv
  BY DEF Init, EarlyInv, LoadInv, DoneInv
<1>4. QED BY <1>1, <1>2, <1>3 DEF FollowInv

\* Every step keeps it.
LEMMA FollowStep ==
    ASSUME AllPlain(files), FollowInv, [Next]_vars
    PROVE  FollowInv'
<1>1. Types /\ Types' /\ ValidatorInv /\ EarlyInv /\ LoadInv /\ DoneInv
  BY StepTyped DEF FollowInv
<1>2. AllPlain(files)
  OBVIOUS
<1>3. CASE \/ ValidatorOpens \/ ValidatorIncludes \/ ValidatorReadsOther
           \/ ValidatorInRepository \/ ValidatorInMatch \/ ValidatorReturns
  <2>1. ValidatorInv'
    BY <1>1, <1>2, <1>3, ValidatorKeeps
  <2>2. /\ phase = "validate" /\ phase' # "done" /\ loadedRules' = loadedRules
        /\ loadedRepositories' = loadedRepositories
        /\ accepted' = accepted \/ accepted' = FALSE
    BY <1>3 DEF ValidatorOpens, ValidatorIncludes, ValidatorReadsOther, ValidatorInRepository,
                ValidatorInMatch, ValidatorReturns, Validating, Judge, converter
  <2>3. ~accepted'
    BY <1>1, <2>2 DEF EarlyInv
  <2>4. EarlyInv' /\ LoadInv' /\ DoneInv'
    BY <1>1, <2>2, <2>3 DEF EarlyInv, LoadInv, DoneInv
  <2>5. QED BY <1>1, <2>1, <2>4 DEF FollowInv
<1>4. CASE Analyze
  <2>1. phase' = "load"
    BY <1>4 DEF Analyze, Judge
  <2>2. LoadInv'
    BY <1>1, <1>4, AnalyzeAhead
  <2>3. QED BY <1>1, <2>1, <2>2 DEF FollowInv, ValidatorInv, EarlyInv, DoneInv
<1>5. CASE ConverterNext
  <2>1. phase = "load" /\ phase' \in {"load", "done"}
    BY <1>5 DEF ConverterNext, ConverterIncludes, ConverterInRepository, ConverterInMatch,
         ConverterOpens, ConverterDeclares, ConverterFails, ConverterCannotOpen,
         ConverterReturns, Abort, IsLine, Loading
  <2>2. LoadInv' /\ DoneInv'
    BY <1>1, <1>2, <1>5, <2>1, ConverterGoesOn
  <2>3. QED BY <1>1, <2>1, <2>2 DEF FollowInv, ValidatorInv, EarlyInv
<1>6. CASE UNCHANGED vars
  <2>1. /\ files' = files /\ phase' = phase /\ stack' = stack /\ errors' = errors
        /\ rules' = rules /\ repositories' = repositories /\ loadedRules' = loadedRules
        /\ loadedRepositories' = loadedRepositories /\ accepted' = accepted
        /\ outcome' = outcome
    BY <1>6 DEF vars, validator, converter
  <2>2. Now' = Now /\ End' = End
    BY <2>1 DEF Now, End
  <2>3. ValidatorInv' /\ EarlyInv' /\ DoneInv'
    BY <1>1, <2>1, <2>2 DEF ValidatorInv, EarlyInv, DoneInv
  <2>4. \A c : LoadFollows(c) => LoadFollows(c)'
    BY <2>1 DEF LoadFollows
  <2>5. Ahead => Ahead'
    BY <2>1, <2>2, <2>4 DEF Ahead
  <2>6. LoadInv'
    BY <1>1, <2>1, <2>5 DEF LoadInv
  <2>7. QED BY <1>1, <2>3, <2>6 DEF FollowInv
<1>7. QED BY <1>3, <1>4, <1>5, <1>6 DEF Next, ConverterNext

\* Neither program changes the files.
LEMMA FilesStay == ASSUME [Next]_vars PROVE files' = files
<1>1. CASE \/ ValidatorOpens \/ ValidatorIncludes \/ ValidatorReadsOther
           \/ ValidatorInRepository \/ ValidatorInMatch \/ ValidatorReturns \/ Analyze
  BY <1>1 DEF ValidatorOpens, ValidatorIncludes, ValidatorReadsOther, ValidatorInRepository,
              ValidatorInMatch, ValidatorReturns, Analyze
<1>2. CASE ConverterNext
  BY <1>2 DEF ConverterNext, ConverterIncludes, ConverterInRepository, ConverterInMatch,
       ConverterOpens, ConverterDeclares, ConverterFails, ConverterCannotOpen,
       ConverterReturns, Abort
<1>3. CASE UNCHANGED vars
  BY <1>3 DEF vars
<1>4. QED BY <1>1, <1>2, <1>3 DEF Next, ConverterNext

\* The inductive invariant for any files: it speaks of those that are plain.
IfPlain == AllPlain(files) => FollowInv

\* Every step keeps it.
LEMMA IfPlainStep == ASSUME IfPlain, [Next]_vars PROVE IfPlain'
<1>1. files' = files
  BY FilesStay
<1>2. ASSUME AllPlain(files) PROVE FollowInv'
  BY <1>2, FollowStep DEF IfPlain
<1>3. AllPlain(files)' => AllPlain(files)
  BY <1>1
<1>4. QED BY <1>2, <1>3 DEF IfPlain

\* Whatever the files hold: if they have nothing in them that the validator overlooks, the
\* converter loads every set that was accepted, as it was judged, whatever includes
\* whatever (Rules::load of src/src/ruleparser.cpp after RulesValidator::validate).
THEOREM AcceptedRulesLoad == Spec => []AcceptedLoads
<1>1. IfPlain => AcceptedLoads
  <2> SUFFICES ASSUME FollowInv, phase = "done", accepted
               PROVE  /\ outcome = "loaded"
                      /\ Cores(loadedRules) = Cores(rules)
                      /\ [i \in DOMAIN loadedRepositories |-> loadedRepositories[i].name]
                            = repositories
    BY DEF AcceptedLoads, IfPlain
  <2>1. /\ outcome = "loaded"
        /\ RulesFollow(loadedRules, rules) /\ NamesFollow(loadedRepositories, repositories)
    BY DEF FollowInv, DoneInv
  <2>2. /\ loadedRules \in Seq(RuleType) /\ rules \in Seq(RuleType)
        /\ loadedRepositories \in Seq(RepoType) /\ repositories \in Seq(Text)
    BY DEF FollowInv, Types
  <2>3. /\ DOMAIN loadedRules = 1 .. Len(loadedRules) /\ DOMAIN rules = 1 .. Len(rules)
        /\ DOMAIN loadedRepositories = 1 .. Len(loadedRepositories)
        /\ DOMAIN repositories = 1 .. Len(repositories)
    BY <2>2
  <2>4. Cores(loadedRules) = Cores(rules)
    BY <2>1, <2>3 DEF Cores, RulesFollow
  <2>5. [i \in DOMAIN loadedRepositories |-> loadedRepositories[i].name] = repositories
    <3>1. repositories = [i \in 1 .. Len(repositories) |-> repositories[i]]
      BY <2>2
    <3>2. QED BY <2>1, <2>3, <3>1 DEF NamesFollow
  <2>6. QED BY <2>1, <2>4, <2>5
<1>2. Init => IfPlain
  BY FollowInit DEF IfPlain
<1>3. IfPlain /\ [Next]_vars => IfPlain'
  BY IfPlainStep
<1>4. QED BY <1>1, <1>2, <1>3, PTL DEF Spec

(* --------------------------- the rule for a path --------------------------- *)

\* A rule that is in force by HEAD, if it has not ended.
HeadRule(rule) == rule.min <= HEAD

SettledRule(rule) ==
    HeadRule(rule) /\ (rule.repository # NoName => rule.branch # NoName)

\* The validator in a match block: a name it has kept was read there.
SettledFrame(F, t) ==
    t.block = "Match" =>
       \E i \in 1 .. t.line - 1 :
          /\ Within(F[t.file], "match", i, t.line)
          /\ HeadRule(t.rule)
          /\ t.rule.repository # NoName =>
                \E m \in i + 1 .. t.line - 1 : F[t.file][m].keyword = "repository"
          /\ t.rule.branch = NoName =>
                \A m \in i + 1 .. t.line - 1 : F[t.file][m].keyword # "branch"

\* A frame while the program is at p.
GoodFrame(F, p, t) ==
    t.rule.action = "ignore" /\ (p = "validate" => SettledFrame(F, t))

GoodStack(F, p, st) == \A i \in 1 .. Len(st) : GoodFrame(F, p, st[i])

\* The action a rule of the converter ends with.
GoodRule(rule) == rule.action = IF rule.repository # NoName THEN "export" ELSE "ignore"

\* The rules of both programs, finished or not, are settled.
SettleInv ==
    /\ GoodStack(files, phase, stack)
    /\ \A i \in 1 .. Len(rules) : SettledRule(rules[i])
    /\ \A i \in 1 .. Len(loadedRules) : GoodRule(loadedRules[i])

\* Reading on, opening and closing a file.
LEMMA GoodRead ==
    ASSUME Types, stack # <<>>, NEW s \in Frame, NEW p, GoodStack(files, p, stack),
           GoodFrame(files, p, [s EXCEPT !.line = @ + 1])
    PROVE  GoodStack(files, p, Read(s))
<1>1. /\ Len(Read(s)) = Len(stack) /\ Read(s)[Len(stack)] = [s EXCEPT !.line = @ + 1]
      /\ \A i \in 1 .. Len(stack) - 1 : Read(s)[i] = stack[i]
      /\ Len(stack) \in Nat \ {0}
  BY ReadFacts, TopFacts
<1>2. \A i \in 1 .. Len(stack) : i = Len(stack) \/ i \in 1 .. Len(stack) - 1
  BY <1>1
<1>3. QED BY <1>1, <1>2 DEF GoodStack

\* A file just opened has no rule to speak of.
LEMMA GoodOpened == \A F, p, x : GoodFrame(F, p, Opened(x))
  BY DEF GoodFrame, SettledFrame, Opened, NewRule

\* Opening a file keeps the stack good.
LEMMA GoodAppend ==
    ASSUME NEW F, NEW p, NEW st \in Seq(Frame), NEW x \in File, GoodStack(F, p, st)
    PROVE  GoodStack(F, p, Append(st, Opened(x)))
<1>1. /\ Len(Append(st, Opened(x))) = Len(st) + 1 /\ Append(st, Opened(x))[Len(st) + 1] = Opened(x)
      /\ \A i \in 1 .. Len(st) : Append(st, Opened(x))[i] = st[i]
      /\ Len(st) \in Nat
  BY OpenedTyped, Longer
<1>2. \A i \in 1 .. Len(st) + 1 : i \in 1 .. Len(st) \/ i = Len(st) + 1
  BY <1>1
<1>3. QED BY <1>1, <1>2, GoodOpened DEF GoodStack

\* Closing one does too.
LEMMA GoodFront ==
    ASSUME NEW F, NEW p, NEW st \in Seq(Frame), st # <<>>, GoodStack(F, p, st)
    PROVE  GoodStack(F, p, Front(st))
<1>1. /\ Len(Front(st)) = Len(st) - 1 /\ \A i \in 1 .. Len(st) - 1 : Front(st)[i] = st[i]
      /\ Len(st) \in Nat \ {0}
  BY Shorter
<1>2. \A i \in 1 .. Len(st) - 1 : i \in 1 .. Len(st)
  BY <1>1
<1>3. QED BY <1>1, <1>2 DEF GoodStack

\* A frame outside of a match block needs its rule's action only.
LEMMA GoodPlainly ==
    ASSUME NEW F, NEW p, NEW s \in Frame, s.rule.action = "ignore", s.block # "Match"
    PROVE  GoodFrame(F, p, [s EXCEPT !.line = @ + 1])
  BY ReadOn DEF GoodFrame, SettledFrame

\* The innermost frame.
LEMMA GoodTop ==
    ASSUME Types, stack # <<>>, GoodStack(files, phase, stack)
    PROVE  /\ Top \in Frame /\ Top.rule.action = "ignore" /\ Top.rule \in RuleType
           /\ phase = "validate" => SettledFrame(files, Top)
           /\ Top.line \in Nat \ {0} /\ Top.file \in File /\ Top.repo \in RepoType
<1>1. Top \in Frame /\ Top = stack[Len(stack)] /\ Len(stack) \in Nat \ {0}
  BY TopFacts
<1>2. GoodFrame(files, phase, Top)
  BY <1>1 DEF GoodStack
<1>3. QED BY <1>1, <1>2 DEF GoodFrame, Frame

\* The line a program reads, in a plain and settled file.
LEMMA LineSettled ==
    ASSUME Types, stack # <<>>, HasLine, AllPlain(files), AllSettled(files)
    PROVE  /\ Plain(files[Top.file]) /\ Settled(files[Top.file])
           /\ Top.line \in DOMAIN files[Top.file] /\ TypedLine(Current)
           /\ DOMAIN files[Top.file] = 1 .. Len(files[Top.file])
           /\ Len(files[Top.file]) \in Nat
<1>1. Readable /\ Top.file \in File
  BY TopFacts DEF HasLine
<1>2. files[Top.file] # Missing
  BY <1>1 DEF Readable
<1>3. QED BY <1>1, <1>2, TopFacts DEF AllPlain, AllSettled

\* What the validator keeps of a line of a match block.
LEMMA SettledSet ==
    ASSUME Types, stack # <<>>, HasLine, AllPlain(files), AllSettled(files),
           Top.block = "Match", ~IsEnd(Current, "match"), SettledFrame(files, Top)
    PROVE  \E i \in 1 .. (Top.line + 1) - 1 :
              /\ Within(files[Top.file], "match", i, Top.line + 1)
              /\ HeadRule(ValidatorSet(Top.rule, Current))
              /\ ValidatorSet(Top.rule, Current).repository # NoName =>
                    \E m \in i + 1 .. (Top.line + 1) - 1 :
                       files[Top.file][m].keyword = "repository"
              /\ ValidatorSet(Top.rule, Current).branch = NoName =>
                    \A m \in i + 1 .. (Top.line + 1) - 1 :
                       files[Top.file][m].keyword # "branch"
<1>1. PICK lines : lines = files[Top.file]
  OBVIOUS
<1>2. PICK k : k = Top.line
  OBVIOUS
<1>3. PICK l : l = lines[k]
  OBVIOUS
<1>4. Current = l /\ Top \in Frame /\ k \in Nat \ {0}
  BY <1>1, <1>2, <1>3, TopFacts DEF Current
<1>5. Plain(lines) /\ Settled(lines) /\ k \in DOMAIN lines /\ TypedLine(l)
  BY <1>1, <1>2, <1>4, LineSettled
<1>6. PICK i \in 1 .. k - 1 :
         /\ Within(lines, "match", i, k)
         /\ HeadRule(Top.rule)
         /\ Top.rule.repository # NoName =>
               \E m \in i + 1 .. k - 1 : lines[m].keyword = "repository"
         /\ Top.rule.branch = NoName => \A m \in i + 1 .. k - 1 : lines[m].keyword # "branch"
  BY <1>1, <1>2 DEF SettledFrame
<1>7. Within(lines, "match", i, k + 1) /\ i \in 1 .. (k + 1) - 1 /\ i < k
  BY <1>3, <1>4, <1>6, WithinFacts
<1>8. /\ \A m \in i + 1 .. k - 1 : m \in i + 1 .. (k + 1) - 1
      /\ \A m \in i + 1 .. (k + 1) - 1 : m \in i + 1 .. k - 1 \/ m = k
      /\ k \in i + 1 .. (k + 1) - 1
  BY <1>4, <1>7
<1>9. PICK new : new = ValidatorSet(Top.rule, l)
  OBVIOUS
<1>10. Top.rule \in RuleType
  BY <1>4 DEF Frame
<1>11. /\ new.repository = IF l.keyword # "repository" THEN Top.rule.repository
                           ELSE IF l.arg # NoArg THEN l.arg ELSE NoName
       /\ new.branch = IF l.keyword # "branch" THEN Top.rule.branch
                       ELSE IF l.arg # NoArg THEN l.arg ELSE NoName
       /\ new.min = IF l.keyword # "min" THEN Top.rule.min
                    ELSE IF l.arg # NoArg THEN l.arg ELSE Unset
  BY <1>9, <1>10, ValidatorSetFacts
<1>12. l.keyword = "min" /\ l.arg # NoArg => l.arg <= HEAD
  BY <1>3, <1>5 DEF Settled
<1>14. new.min <= HEAD
  BY <1>6, <1>11, <1>12, RulesFilesAssumption DEF HeadRule, Unset
<1>16. l.keyword = "branch" => new.branch # NoName
  <2>1. SUFFICES ASSUME l.keyword = "branch" PROVE new.branch # NoName
    OBVIOUS
  <2>2. l.arg # NoArg
    BY <1>3, <1>5, <2>1 DEF Plain
  <2>3. l.arg \in Text
    BY <1>5, <2>1, <2>2 DEF TypedLine
  <2>4. QED BY <1>11, <2>1, <2>2, <2>3, RulesFilesAssumption
<1>17. new.repository # NoName => \E m \in i + 1 .. (k + 1) - 1 : lines[m].keyword = "repository"
  BY <1>3, <1>6, <1>8, <1>11
<1>18. new.branch = NoName => \A m \in i + 1 .. (k + 1) - 1 : lines[m].keyword # "branch"
  BY <1>3, <1>6, <1>8, <1>11, <1>16
<1>19. HeadRule(new)
  BY <1>14 DEF HeadRule
<1>20. QED BY <1>1, <1>2, <1>4, <1>7, <1>9, <1>17, <1>18, <1>19

\* At the end of a match block the validator's rule is settled.
LEMMA SettledEnd ==
    ASSUME Types, stack # <<>>, HasLine, AllPlain(files), AllSettled(files),
           Top.block = "Match", IsEnd(Current, "match"), SettledFrame(files, Top)
    PROVE  SettledRule(Top.rule)
<1>1. PICK lines : lines = files[Top.file]
  OBVIOUS
<1>2. PICK k : k = Top.line
  OBVIOUS
<1>3. Current = lines[k] /\ k \in Nat \ {0}
  BY <1>1, <1>2, TopFacts DEF Current
<1>4. Settled(lines) /\ k \in DOMAIN lines /\ DOMAIN lines = 1 .. Len(lines) /\ Len(lines) \in Nat
  BY <1>1, <1>2, <1>3, LineSettled
<1>5. PICK i \in 1 .. k - 1 :
         /\ Within(lines, "match", i, k)
         /\ HeadRule(Top.rule)
         /\ Top.rule.repository # NoName =>
               \E m \in i + 1 .. k - 1 : lines[m].keyword = "repository"
         /\ Top.rule.branch = NoName => \A m \in i + 1 .. k - 1 : lines[m].keyword # "branch"
  BY <1>1, <1>2 DEF SettledFrame
<1>6. i \in DOMAIN lines
  BY <1>3, <1>4, <1>5
<1>7. (\E m \in i + 1 .. k - 1 : lines[m].keyword = "repository") =>
         \E m \in i + 1 .. k - 1 : lines[m].keyword = "branch"
  BY <1>3, <1>4, <1>5, <1>6 DEF Settled
<1>8. QED BY <1>5, <1>7 DEF SettledRule

\* The validator's steps.
LEMMA ValidatorSettles ==
    ASSUME Types, AllPlain(files), AllSettled(files), SettleInv,
           \/ ValidatorOpens \/ ValidatorIncludes \/ ValidatorReadsOther
           \/ ValidatorInRepository \/ ValidatorInMatch \/ ValidatorReturns \/ Analyze
    PROVE  SettleInv'
<1>1. /\ GoodStack(files, phase, stack)
      /\ \A i \in 1 .. Len(rules) : SettledRule(rules[i])
      /\ \A i \in 1 .. Len(loadedRules) : GoodRule(loadedRules[i])
  BY DEF SettleInv
<1>2. /\ files' = files /\ loadedRules' = loadedRules
      /\ phase \in {"validate", "analyze"}
  BY DEF ValidatorOpens, ValidatorIncludes, ValidatorReadsOther, ValidatorInRepository,
         ValidatorInMatch, ValidatorReturns, Analyze, Validating, converter
<1>3. ASSUME NEW s \in Frame, stack # <<>>, stack' = Read(s), phase' = phase,
             GoodFrame(files, phase, [s EXCEPT !.line = @ + 1]), rules' = rules
      PROVE  SettleInv'
  <2>1. GoodStack(files, phase, Read(s))
    BY <1>1, <1>3, GoodRead
  <2>2. QED BY <1>1, <1>2, <1>3, <2>1 DEF SettleInv
<1>4. ASSUME stack # <<>>, Top.block # "Match", stack' = Read(Top), phase' = phase, rules' = rules
      PROVE  SettleInv'
  <2>1. Top \in Frame /\ Top.rule.action = "ignore"
    BY <1>1, <1>4, GoodTop
  <2>2. GoodFrame(files, phase, [Top EXCEPT !.line = @ + 1])
    BY <1>4, <2>1, GoodPlainly
  <2>3. QED BY <1>3, <1>4, <2>1, <2>2
<1>5. CASE ValidatorOpens
  <2>1. /\ stack # <<>> /\ HasLine /\ Top.block = "None" /\ phase' = phase /\ rules' = rules
        /\ Current.keyword \in {"create", "match"}
    BY <1>5 DEF ValidatorOpens, Validating
  <2>2. Top \in Frame /\ Top.rule.action = "ignore" /\ Top.line \in Nat \ {0} /\ TypedLine(Current)
    BY <1>1, <2>1, GoodTop, TopFacts
  <2>3. CASE Current.arg = NoArg
    BY <1>4, <1>5, <2>1, <2>3 DEF ValidatorOpens
  <2>4. CASE Current.arg # NoArg /\ Current.keyword = "create"
    <3>1. PICK s : s = [Top EXCEPT !.block = "Repository", !.repo = NewRepository(Current.arg)]
      OBVIOUS
    <3>2. Current.arg \in Text
      BY <2>2, <2>4 DEF TypedLine, Text
    <3>3. NewRepository(Current.arg) \in RepoType /\ NewRepository(Current.arg).name = Current.arg
      BY <3>2, NewTyped DEF NameOrNone, Text
    <3>4. s \in Frame /\ s.block = "Repository" /\ s.rule = Top.rule
      BY <2>2, <3>1, <3>2, <3>3 DEF Frame
    <3>5. GoodFrame(files, phase, [s EXCEPT !.line = @ + 1])
      BY <2>2, <3>4, GoodPlainly
    <3>6. stack' = Read(s)
      BY <1>5, <2>4, <3>1 DEF ValidatorOpens
    <3>7. QED BY <1>3, <2>1, <3>4, <3>5, <3>6
  <2>5. CASE Current.arg # NoArg /\ Current.keyword = "match"
    <3>1. PICK s : s = [Top EXCEPT !.block = "Match", !.rule = NewRule(Current.arg)]
      OBVIOUS
    <3>2. NewRule(Current.arg) \in RuleType
      BY <2>2, <2>5, NewTyped DEF TypedLine, Text
    <3>3. /\ s \in Frame /\ s.block = "Match" /\ s.rule = NewRule(Current.arg)
          /\ s.line = Top.line /\ s.file = Top.file
      BY <2>2, <3>1, <3>2 DEF Frame
    <3>4. PICK v : v = [s EXCEPT !.line = @ + 1]
      OBVIOUS
    <3>5. v.block = "Match" /\ v.rule = NewRule(Current.arg) /\ v.line = Top.line + 1
          /\ v.file = Top.file
      BY <3>3, <3>4, ReadOn
    <3>6. Within(files[Top.file], "match", Top.line, Top.line + 1)
      BY <2>2, <2>5, WithinFacts DEF Current
    <3>7. /\ v.rule.repository = NoName /\ v.rule.max = Unset /\ v.rule.min = Unset
          /\ v.rule.action = "ignore"
      BY <3>5 DEF NewRule
    <3>8. HeadRule(v.rule)
      BY <3>7, RulesFilesAssumption DEF HeadRule, Unset
    <3>9. Top.line \in 1 .. v.line - 1 /\ Top.line + 1 .. v.line - 1 = {}
      BY <2>2, <3>5
    <3>10. SettledFrame(files, v)
      BY <3>5, <3>6, <3>7, <3>8, <3>9 DEF SettledFrame
    <3>11. GoodFrame(files, phase, v)
      BY <3>7, <3>10 DEF GoodFrame
    <3>12. stack' = Read(s)
      BY <1>5, <2>5, <3>1 DEF ValidatorOpens
    <3>13. QED BY <1>3, <2>1, <3>3, <3>4, <3>11, <3>12
  <2>6. QED BY <2>1, <2>3, <2>4, <2>5
<1>6. CASE ValidatorIncludes
  <2>1. /\ stack # <<>> /\ HasLine /\ Top.block = "None" /\ phase' = phase /\ rules' = rules
        /\ Current.keyword = "include"
    BY <1>6 DEF ValidatorIncludes, Validating
  <2>2. CASE stack' = Read(Top)
    BY <1>4, <2>1, <2>2
  <2>3. CASE Current.arg # NoArg /\ stack' = Append(Read(Top), Opened(Current.arg))
    <3>1. Top \in Frame /\ Top.rule.action = "ignore" /\ TypedLine(Current)
      BY <1>1, <2>1, GoodTop, TopFacts
    <3>2. GoodFrame(files, phase, [Top EXCEPT !.line = @ + 1])
      BY <2>1, <3>1, GoodPlainly
    <3>3. GoodStack(files, phase, Read(Top)) /\ Read(Top) \in Seq(Frame)
      BY <1>1, <2>1, <3>1, <3>2, GoodRead, ReadFacts
    <3>4. Current.arg \in File
      BY <2>1, <2>3, <3>1 DEF TypedLine, Text
    <3>5. GoodStack(files, phase, stack')
      BY <2>3, <3>3, <3>4, GoodAppend
    <3>6. QED BY <1>1, <1>2, <2>1, <3>5 DEF SettleInv
  <2>4. QED BY <1>6, <2>2, <2>3 DEF ValidatorIncludes
<1>7. CASE ValidatorReadsOther
  <2>1. /\ stack # <<>> /\ Top.block # "Match" /\ stack' = Read(Top)
        /\ phase' = phase /\ rules' = rules
    BY <1>7 DEF ValidatorReadsOther, Validating
  <2>2. QED BY <1>4, <2>1
<1>8. CASE ValidatorInRepository
  <2>1. /\ stack # <<>> /\ Top.block # "Match" /\ phase' = phase /\ rules' = rules
        /\ stack' = Read(Top) \/ stack' = Read([Top EXCEPT !.block = "None"])
    BY <1>8 DEF ValidatorInRepository, Validating
  <2>2. CASE stack' = Read(Top)
    BY <1>4, <2>1, <2>2
  <2>3. CASE stack' = Read([Top EXCEPT !.block = "None"])
    <3>1. PICK s : s = [Top EXCEPT !.block = "None"]
      OBVIOUS
    <3>2. s \in Frame /\ s.block = "None" /\ s.rule.action = "ignore"
      BY <1>1, <2>1, <3>1, GoodTop DEF Frame
    <3>3. GoodFrame(files, phase, [s EXCEPT !.line = @ + 1])
      BY <3>2, GoodPlainly
    <3>4. QED BY <1>3, <2>1, <2>3, <3>1, <3>2, <3>3
  <2>4. QED BY <2>1, <2>2, <2>3
<1>9. CASE ValidatorInMatch
  <2>1. stack # <<>> /\ HasLine /\ Top.block = "Match" /\ phase' = phase /\ phase = "validate"
    BY <1>9 DEF ValidatorInMatch, Validating
  <2>2. /\ Top \in Frame /\ Top.rule.action = "ignore" /\ SettledFrame(files, Top)
        /\ Top.rule \in RuleType /\ TypedLine(Current)
    BY <1>1, <2>1, GoodTop, TopFacts
  <2>3. CASE IsEnd(Current, "match")
    <3>1. rules' = Append(rules, Top.rule) /\ stack' = Read([Top EXCEPT !.block = "None"])
      BY <1>9, <2>3 DEF ValidatorInMatch
    <3>2. PICK s : s = [Top EXCEPT !.block = "None"]
      OBVIOUS
    <3>3. s \in Frame /\ s.block = "None" /\ s.rule.action = "ignore"
      BY <2>2, <3>2 DEF Frame
    <3>4. GoodFrame(files, phase, [s EXCEPT !.line = @ + 1])
      BY <3>3, GoodPlainly
    <3>5. GoodStack(files, phase, Read(s))
      BY <1>1, <2>1, <3>3, <3>4, GoodRead
    <3>6. SettledRule(Top.rule)
      BY <2>1, <2>2, <2>3, SettledEnd
    <3>7. rules \in Seq(RuleType)
      BY DEF Types
    <3>8. /\ Len(rules') = Len(rules) + 1 /\ rules'[Len(rules) + 1] = Top.rule
          /\ \A i \in 1 .. Len(rules) : rules'[i] = rules[i]
          /\ Len(rules) \in Nat
      BY <2>2, <3>1, <3>7, Longer
    <3>9. \A i \in 1 .. Len(rules') : i \in 1 .. Len(rules) \/ i = Len(rules) + 1
      BY <3>8
    <3>10. \A i \in 1 .. Len(rules') : SettledRule(rules'[i])
      BY <1>1, <3>6, <3>8, <3>9
    <3>11. QED BY <1>1, <1>2, <2>1, <3>1, <3>2, <3>5, <3>10 DEF SettleInv
  <2>4. CASE ~IsEnd(Current, "match")
    <3>1. rules' = rules /\ stack' = Read([Top EXCEPT !.rule = ValidatorSet(@, Current)])
      BY <1>9, <2>4 DEF ValidatorInMatch
    <3>2. PICK rule : rule = ValidatorSet(Top.rule, Current)
      OBVIOUS
    <3>3. rule \in RuleType /\ rule.action = "ignore"
      BY <2>2, <3>2, ValidatorSetTyped, ValidatorSetFacts
    <3>4. PICK s : s = [Top EXCEPT !.rule = rule]
      OBVIOUS
    <3>5. /\ s \in Frame /\ s.block = "Match" /\ s.rule = rule /\ s.line = Top.line
          /\ s.file = Top.file
      BY <2>1, <2>2, <3>3, <3>4 DEF Frame
    <3>6. PICK v : v = [s EXCEPT !.line = @ + 1]
      OBVIOUS
    <3>7. v.block = "Match" /\ v.rule = rule /\ v.line = Top.line + 1 /\ v.file = Top.file
      BY <3>5, <3>6, ReadOn
    <3>8. SettledFrame(files, v)
      BY <2>1, <2>2, <2>4, <3>2, <3>7, SettledSet DEF SettledFrame
    <3>9. GoodFrame(files, phase, v)
      BY <3>3, <3>7, <3>8 DEF GoodFrame
    <3>10. QED BY <1>3, <2>1, <3>1, <3>2, <3>4, <3>5, <3>6, <3>9
  <2>5. QED BY <2>3, <2>4
<1>10. ASSUME GoodStack(files, phase', stack'), rules' = rules
       PROVE  SettleInv'
  BY <1>1, <1>2, <1>10 DEF SettleInv
<1>11. GoodStack(files, "load", <<Opened(Root)>>) /\ GoodStack(files, "analyze", <<>>)
  BY GoodOpened DEF GoodStack
<1>12. CASE ValidatorReturns
  <2>1. stack # <<>> /\ rules' = rules
    BY <1>12 DEF ValidatorReturns, Validating
  <2>2. stack \in Seq(Frame)
    BY DEF Types
  <2>3. GoodStack(files, phase, Front(stack))
    BY <1>1, <2>1, <2>2, GoodFront
  <2>4. QED BY <1>10, <1>11, <1>12, <2>1, <2>3 DEF ValidatorReturns, Judge
<1>13. CASE Analyze
  BY <1>10, <1>11, <1>13 DEF Analyze, Judge
<1>14. QED BY <1>5, <1>6, <1>7, <1>8, <1>9, <1>12, <1>13

\* The converter's steps: its rules ignore until they end.
LEMMA ConverterSettles ==
    ASSUME Types, AllPlain(files), AllSettled(files), SettleInv, phase = "load", ConverterNext
    PROVE  SettleInv'
<1>1. /\ GoodStack(files, phase, stack)
      /\ \A i \in 1 .. Len(rules) : SettledRule(rules[i])
      /\ \A i \in 1 .. Len(loadedRules) : GoodRule(loadedRules[i])
  BY DEF SettleInv
<1>2. files' = files /\ rules' = rules /\ phase' \in {"load", "done"}
  BY DEF ConverterNext, ConverterIncludes, ConverterInRepository, ConverterInMatch,
         ConverterOpens, ConverterDeclares, ConverterFails, ConverterCannotOpen,
         ConverterReturns, Abort, validator
<1>3. \A t : GoodFrame(files, phase, t) <=> t.rule.action = "ignore"
  BY DEF GoodFrame
<1>4. \A t : GoodFrame(files, phase', t) <=> t.rule.action = "ignore"
  BY <1>2 DEF GoodFrame
<1>5. \A st : GoodStack(files, phase, st) => GoodStack(files, phase', st)
  BY <1>3, <1>4 DEF GoodStack
<1>6. ASSUME GoodStack(files, phase, stack'), loadedRules' = loadedRules
      PROVE  SettleInv'
  BY <1>1, <1>2, <1>5, <1>6 DEF SettleInv
<1>7. ASSUME NEW s \in Frame, stack # <<>>, s.rule.action = "ignore"
      PROVE  GoodStack(files, phase, Read(s))
  <2>1. [s EXCEPT !.line = @ + 1].rule.action = "ignore"
    BY <1>7, ReadOn
  <2>2. GoodFrame(files, phase, [s EXCEPT !.line = @ + 1])
    BY <1>3, <2>1
  <2>3. QED BY <1>1, <1>7, <2>2, GoodRead
<1>8. stack # <<>> => Top \in Frame /\ Top.rule.action = "ignore" /\ Top.rule \in RuleType
                      /\ Top.repo \in RepoType
  BY <1>1, GoodTop
<1>9. CASE ConverterIncludes
  <2>1. stack # <<>> /\ HasLine /\ Current.keyword = "include" /\ Current.arg # NoArg
    BY <1>9 DEF ConverterIncludes, Loading
  <2>2. CASE Len(stack) < MaxOpen
    <3>1. stack' = Append(Read(Top), Opened(Current.arg)) /\ loadedRules' = loadedRules
      BY <1>9, <2>2 DEF ConverterIncludes, converter
    <3>2. GoodStack(files, phase, Read(Top)) /\ Read(Top) \in Seq(Frame)
      BY <1>7, <1>8, <2>1, ReadFacts
    <3>3. Current.arg \in File
      BY <2>1, TopFacts DEF TypedLine, Text
    <3>4. QED BY <1>6, <3>1, <3>2, <3>3, GoodAppend
  <2>3. CASE ~(Len(stack) < MaxOpen)
    BY <1>1, <1>6, <1>9, <2>3 DEF ConverterIncludes, Abort, converter
  <2>4. QED BY <2>2, <2>3
<1>10. CASE ConverterInRepository
  <2>1. IsLine
    BY <1>10 DEF ConverterInRepository
  <2>2. stack # <<>> /\ TypedLine(Current)
    BY <2>1, LineFacts
  <2>3. PICK l : l = Substituted(Current)
    OBVIOUS
  <2>4. /\ loadedRules' = loadedRules
        /\ \/ l.keyword # "end" /\ stack' = Read([Top EXCEPT !.repo = SetRepository(@, l)])
           \/ stack' = Read([Top EXCEPT !.block = "None", !.repo = NewRepository(NoName)])
        /\ InRepository(l)
    BY <1>10, <2>3 DEF ConverterInRepository
  <2>5. CASE l.keyword # "end" /\ stack' = Read([Top EXCEPT !.repo = SetRepository(@, l)])
    <3>1. ConverterKnowsOfRepository(l)
      BY <2>4, <2>5 DEF InRepository, IsEnd
    <3>2. l.keyword \in {"repository", "branch", "prefix", "description"} /\ l.arg # NoArg
      BY <3>1 DEF ConverterKnowsOfRepository
    <3>3. l.keyword = Current.keyword
          /\ (l.arg = Current.arg \/ (Current.arg \in Variable /\ l.arg \in Name))
      BY <2>2, <2>3, SubstitutedFacts
    <3>4. l.keyword # "description" => l.arg \in NameOrNone
      BY <2>2, <3>2, <3>3 DEF TypedLine, NameOrNone, Text
    <3>5. PICK repo : repo = SetRepository(Top.repo, l)
      OBVIOUS
    <3>6. repo \in RepoType /\ repo.name = Top.repo.name
      BY <1>8, <2>2, <3>2, <3>4, <3>5, SetRepositoryTyped
    <3>7. PICK s : s = [Top EXCEPT !.repo = repo]
      OBVIOUS
    <3>8. s \in Frame /\ s.rule = Top.rule
      BY <1>8, <2>2, <3>6, <3>7 DEF Frame
    <3>9. stack' = Read(s)
      BY <2>5, <3>5, <3>7
    <3>10. QED BY <1>6, <1>7, <1>8, <2>2, <2>4, <3>8, <3>9
  <2>6. CASE stack' = Read([Top EXCEPT !.block = "None", !.repo = NewRepository(NoName)])
    <3>1. PICK s : s = [Top EXCEPT !.block = "None", !.repo = NewRepository(NoName)]
      OBVIOUS
    <3>2. NewRepository(NoName) \in RepoType
      BY NewTyped DEF NameOrNone, Text
    <3>3. s \in Frame /\ s.rule = Top.rule
      BY <1>8, <2>2, <3>1, <3>2 DEF Frame
    <3>4. QED BY <1>6, <1>7, <1>8, <2>2, <2>4, <2>6, <3>1, <3>3
  <2>7. QED BY <2>4, <2>5, <2>6
<1>11. CASE ConverterInMatch
  <2>1. IsLine
    BY <1>11 DEF ConverterInMatch
  <2>2. stack # <<>> /\ TypedLine(Current) /\ HasLine
    BY <2>1, LineFacts DEF IsLine
  <2>3. PICK l : l = Substituted(Current)
    OBVIOUS
  <2>4. /\ InMatch(l) /\ ~ConverterAborts(l)
        /\ \/ /\ l.keyword # "end" /\ loadedRules' = loadedRules
              /\ stack' = Read([Top EXCEPT !.rule = ConverterSet(@, l.keyword, l.arg)])
           \/ /\ loadedRules' = Append(loadedRules, ConverterEnds(Top.rule))
              /\ stack' = Read([Top EXCEPT !.block = "None"])
    BY <1>11, <2>3 DEF ConverterInMatch
  <2>5. CASE /\ l.keyword # "end" /\ loadedRules' = loadedRules
             /\ stack' = Read([Top EXCEPT !.rule = ConverterSet(@, l.keyword, l.arg)])
    <3>1. ConverterKnows(l)
      BY <2>4, <2>5 DEF InMatch, IsEnd
    <3>2. PICK rule : rule = ConverterSet(Top.rule, l.keyword, l.arg)
      OBVIOUS
    <3>2a. PICK x : rule = Set(Top.rule, l.keyword, x) /\ (l.keyword # "prefix" => x = l.arg)
      BY <3>2 DEF ConverterSet
    <3>3. rule \in RuleType
      BY <1>8, <2>2, <2>3, <2>4, <3>1, <3>2, SubstitutedSetTyped
    <3>4. rule.action = "ignore"
      <4>1. CASE l.keyword = "action"
        <5>1. PICK lines : lines = files[Top.file]
          OBVIOUS
        <5>2. /\ Plain(lines) /\ Settled(lines) /\ Top.line \in DOMAIN lines
              /\ Current = lines[Top.line]
          BY <2>2, <5>1, LineSettled DEF Current
        <5>3. l.keyword = Current.keyword /\ (Current.arg \notin Variable => l = Current)
          BY <2>2, <2>3, SubstitutedFacts
        <5>4. Current.arg \notin Variable
          BY <4>1, <5>2, <5>3 DEF Plain
        <5>5. l.arg \notin Actions \ {"ignore"}
          BY <4>1, <5>2, <5>3, <5>4 DEF Settled
        <5>6. l.arg = "ignore"
          BY <2>4, <4>1, <5>5 DEF ConverterAborts
        <5>7. rule = [Top.rule EXCEPT !.action = l.arg]
          BY <3>2a, <4>1, SetFacts
        <5>8. QED BY <1>8, <2>2, <5>6, <5>7 DEF RuleType
      <4>2. CASE l.keyword = "annotated"
        <5>0. Set(Top.rule, "annotated", l.arg) = [Top.rule EXCEPT !.annotate = l.arg = "true"]
          BY SetFacts
        <5>1. rule = [Top.rule EXCEPT !.annotate = l.arg = "true"]
          BY <3>2a, <4>2, <5>0
        <5>2. rule.action = Top.rule.action
          BY <1>8, <2>2, <5>1 DEF RuleType
        <5>3. QED BY <1>8, <2>2, <5>2
      <4>3. CASE l.keyword = "substitute"
        <5>0. Set(Top.rule, "substitute", l.arg) = [Top.rule EXCEPT !.substituted = TRUE]
          BY SetFacts
        <5>1. rule = [Top.rule EXCEPT !.substituted = TRUE]
          BY <3>2a, <4>3, <5>0
        <5>2. rule.action = Top.rule.action
          BY <1>8, <2>2, <5>1 DEF RuleType
        <5>3. QED BY <1>8, <2>2, <5>2
      <4>4. CASE l.keyword \in {"repository", "branch", "prefix", "min", "max"}
        <5>1. rule.action = Top.rule.action
          BY <1>8, <2>2, <3>2a, <4>4, SetFacts DEF RuleType
        <5>2. QED BY <1>8, <2>2, <5>1
      <4>5. QED BY <3>1, <4>1, <4>2, <4>3, <4>4 DEF ConverterKnows
    <3>5. PICK s : s = [Top EXCEPT !.rule = rule]
      OBVIOUS
    <3>6. s \in Frame /\ s.rule = rule
      BY <1>8, <2>2, <3>3, <3>5 DEF Frame
    <3>7. stack' = Read(s)
      BY <2>5, <3>2, <3>5
    <3>8. QED BY <1>6, <1>7, <2>2, <2>5, <3>4, <3>6, <3>7
  <2>6. CASE /\ loadedRules' = Append(loadedRules, ConverterEnds(Top.rule))
             /\ stack' = Read([Top EXCEPT !.block = "None"])
    <3>1. PICK s : s = [Top EXCEPT !.block = "None"]
      OBVIOUS
    <3>2. s \in Frame /\ s.rule = Top.rule
      BY <1>8, <2>2, <3>1 DEF Frame
    <3>3. GoodStack(files, phase, stack')
      BY <1>7, <1>8, <2>2, <2>6, <3>1, <3>2
    <3>4. GoodRule(ConverterEnds(Top.rule))
      BY <1>8, <2>2 DEF GoodRule, ConverterEnds, RuleType
    <3>5. ConverterEnds(Top.rule) \in RuleType /\ loadedRules \in Seq(RuleType)
      BY <1>8, <2>2, EndsTyped DEF Types
    <3>6. /\ Len(loadedRules') = Len(loadedRules) + 1 /\ Len(loadedRules) \in Nat
          /\ loadedRules'[Len(loadedRules) + 1] = ConverterEnds(Top.rule)
          /\ \A i \in 1 .. Len(loadedRules) : loadedRules'[i] = loadedRules[i]
      BY <2>6, <3>5, Longer
    <3>7. \A i \in 1 .. Len(loadedRules') : i \in 1 .. Len(loadedRules) \/ i = Len(loadedRules) + 1
      BY <3>6
    <3>8. \A i \in 1 .. Len(loadedRules') : GoodRule(loadedRules'[i])
      BY <1>1, <3>4, <3>6, <3>7
    <3>9. GoodStack(files', phase', stack')
      BY <1>2, <1>5, <3>3
    <3>10. QED BY <1>1, <1>2, <3>8, <3>9 DEF SettleInv
  <2>7. QED BY <2>4, <2>5, <2>6
<1>12. CASE ConverterOpens
  <2>1. IsLine
    BY <1>12 DEF ConverterOpens
  <2>2. stack # <<>> /\ TypedLine(Current)
    BY <2>1, LineFacts
  <2>3. PICK l : l = Substituted(Current)
    OBVIOUS
  <2>4. /\ OpensBlock(l) /\ loadedRules' = loadedRules
        /\ stack' = Read(IF l.keyword = "create"
                         THEN [Top EXCEPT !.block = "Repository", !.repo = NewRepository(l.arg)]
                         ELSE [Top EXCEPT !.block = "Match", !.rule = NewRule(l.arg)])
    BY <1>12, <2>3 DEF ConverterOpens, converter
  <2>5. l.keyword = Current.keyword
        /\ (l.arg = Current.arg \/ (Current.arg \in Variable /\ l.arg \in Name))
    BY <2>2, <2>3, SubstitutedFacts
  <2>6. CASE l.keyword = "create"
    <3>1. l.arg \in Text
      BY <2>2, <2>4, <2>5, <2>6 DEF TypedLine, Text, OpensBlock
    <3>2. NewRepository(l.arg) \in RepoType /\ NewRepository(l.arg).name = l.arg
      BY <3>1, NewTyped DEF NameOrNone, Text
    <3>3. PICK s : s = [Top EXCEPT !.block = "Repository", !.repo = NewRepository(l.arg)]
      OBVIOUS
    <3>4. s \in Frame /\ s.rule = Top.rule
      BY <1>8, <2>2, <3>1, <3>2, <3>3 DEF Frame
    <3>5. QED BY <1>6, <1>7, <1>8, <2>2, <2>4, <2>6, <3>3, <3>4
  <2>7. CASE l.keyword = "match"
    <3>1. NewRule(l.arg) \in RuleType /\ NewRule(l.arg).action = "ignore"
      BY <2>2, <2>4, <2>5, <2>7, NewTyped DEF TypedLine, Text, OpensBlock, NewRule
    <3>2. PICK s : s = [Top EXCEPT !.block = "Match", !.rule = NewRule(l.arg)]
      OBVIOUS
    <3>3. s \in Frame /\ s.rule = NewRule(l.arg)
      BY <1>8, <2>2, <3>1, <3>2 DEF Frame
    <3>4. QED BY <1>6, <1>7, <2>2, <2>4, <2>7, <3>1, <3>2, <3>3
  <2>8. QED BY <2>4, <2>6, <2>7 DEF OpensBlock
<1>13. CASE ConverterDeclares
  <2>1. stack # <<>> /\ stack' = Read(Top) /\ loadedRules' = loadedRules
    BY <1>13 DEF ConverterDeclares, IsLine, Loading
  <2>2. QED BY <1>6, <1>7, <1>8, <2>1
<1>14. CASE ConverterFails \/ ConverterCannotOpen
  BY <1>1, <1>6, <1>14 DEF ConverterFails, ConverterCannotOpen, Abort, converter
<1>15. CASE ConverterReturns
  <2>1. stack # <<>> /\ stack' = Front(stack) /\ loadedRules' = loadedRules
    BY <1>15 DEF ConverterReturns, Loading, converter
  <2>2. stack \in Seq(Frame)
    BY DEF Types
  <2>3. QED BY <1>1, <1>6, <2>1, <2>2, GoodFront
<1>16. QED
  BY <1>9, <1>10, <1>11, <1>12, <1>13, <1>14, <1>15 DEF ConverterNext

\* Every step keeps the rules settled.
LEMMA SettleStep ==
    ASSUME AllPlain(files), AllSettled(files), Types, SettleInv, [Next]_vars
    PROVE  SettleInv'
<1>1. AllPlain(files) /\ AllSettled(files)
  OBVIOUS
<1>2. CASE \/ ValidatorOpens \/ ValidatorIncludes \/ ValidatorReadsOther
           \/ ValidatorInRepository \/ ValidatorInMatch \/ ValidatorReturns \/ Analyze
  BY <1>1, <1>2, ValidatorSettles
<1>3. CASE ConverterNext
  <2>1. phase = "load"
    BY <1>3 DEF ConverterNext, ConverterIncludes, ConverterInRepository, ConverterInMatch,
         ConverterOpens, ConverterDeclares, ConverterFails, ConverterCannotOpen,
         ConverterReturns, IsLine, Loading
  <2>2. QED BY <1>1, <1>3, <2>1, ConverterSettles
<1>4. CASE UNCHANGED vars
  BY <1>4 DEF vars, validator, converter, SettleInv
<1>5. QED BY <1>2, <1>3, <1>4 DEF Next, ConverterNext

\* The first of rules that is looked for: none, or the least of the indices in I.
FirstOf(I) == IF I # {} THEN CHOOSE x \in I : \A y \in I : x <= y ELSE 0

\* FirstOf is the least of a set of indexes, and 0 if there is none.
LEMMA FirstOfFacts ==
    ASSUME NEW n \in Nat, NEW I, I \subseteq 1 .. n
    PROVE  /\ FirstOf(I) = 0 <=> I = {}
           /\ I # {} => FirstOf(I) \in I /\ \A i \in I : FirstOf(I) <= i
<1>1. I \subseteq Nat
  OBVIOUS
<1>2. I # {} => FirstOf(I) \in I /\ \A i \in I : FirstOf(I) <= i
  <2>1. SUFFICES ASSUME I # {} PROVE FirstOf(I) \in I /\ \A i \in I : FirstOf(I) <= i
    OBVIOUS
  <2>2. \E x \in I : \A y \in I : x <= y
    BY <1>1, <2>1, Least
  <2>3. QED BY <2>1, <2>2 DEF FirstOf
<1>3. 0 \notin I
  OBVIOUS
<1>4. QED BY <1>2, <1>3 DEF FirstOf

\* The rules of list for a path: of any revision, without an end, and of HEAD.
Matching(list, path) ==
    {i \in 1 .. Len(list) : list[i].pattern \notin BadPattern /\ MatchesPath(list[i].pattern, path)}

Unbounded(list, path) ==
    {i \in 1 .. Len(list) : /\ list[i].max < 0 /\ list[i].pattern \notin BadPattern
                            /\ MatchesPath(list[i].pattern, path)}

AtHead(list, path) ==
    {i \in 1 .. Len(list) : /\ list[i].min <= HEAD
                            /\ list[i].max = Unset \/ list[i].max >= HEAD
                            /\ MatchesPath(list[i].pattern, path)}

\* The three searches.
LEMMA Searches ==
    ASSUME NEW list, NEW path
    PROVE  /\ FirstMatch(list, path) = FirstOf(Matching(list, path))
           /\ ResolvingRule(list, path) =
                 IF FirstOf(Unbounded(list, path)) # 0 THEN FirstOf(Unbounded(list, path))
                 ELSE FirstMatch(list, path)
           /\ FindMatchRule(list, HEAD, path) = FirstOf(AtHead(list, path))
<1>1. FirstMatch(list, path) = FirstOf(Matching(list, path))
  BY DEF FirstMatch, First, SelectInSeq, Min, FirstOf, Matching
<1>2. ResolvingRule(list, path) =
         IF FirstOf(Unbounded(list, path)) # 0 THEN FirstOf(Unbounded(list, path))
         ELSE FirstMatch(list, path)
  BY DEF ResolvingRule, First, SelectInSeq, Min, FirstOf, NoRule, Unbounded
<1>3. FindMatchRule(list, HEAD, path) = FirstOf(AtHead(list, path))
  BY DEF FindMatchRule, First, SelectInSeq, Min, FirstOf, AtHead
<1>4. QED BY <1>1, <1>2, <1>3

\* Of rules that were accepted, both programs find the same for a path at HEAD, unless the
\* converter goes by a rule that will end.
LEMMA SameSearch ==
    ASSUME NEW lr \in Seq(RuleType), NEW rs \in Seq(RuleType), RulesFollow(lr, rs),
           \A i \in 1 .. Len(rs) : SettledRule(rs[i]) /\ rs[i].pattern \notin BadPattern,
           \A i \in 1 .. Len(lr) : GoodRule(lr[i]), NEW path, NEW found,
           found = FindMatchRule(lr, HEAD, path)
    PROVE  /\ found # NoRule =>
                 \/ ResolveTarget(rs, path) = Decision(lr[found], path)
                 \/ lr[found].max # Unset
           /\ found = NoRule =>
                 \/ ResolveTarget(rs, path) = Unmapped
                 \/ rs[ResolvingRule(rs, path)].max \in 0 .. HEAD - 1
           /\ FirstMatch(rs, path) = NoRule <=> ResolveTarget(rs, path) = Unmapped
<1> DEFINE U == Unbounded(rs, path)
           V == AtHead(lr, path)
           M == Matching(rs, path)
<1>1. /\ Len(lr) = Len(rs) /\ Len(rs) \in Nat
      /\ \A i \in 1 .. Len(rs) : Core(lr[i]) = Core(rs[i])
  BY DEF RulesFollow
<1>2. ASSUME NEW i \in 1 .. Len(rs)
      PROVE  /\ lr[i].pattern = rs[i].pattern /\ lr[i].repository = rs[i].repository
             /\ lr[i].branch = rs[i].branch /\ lr[i].prefix = rs[i].prefix
             /\ lr[i].min = rs[i].min /\ lr[i].max = rs[i].max
  BY <1>1 DEF Core
<1>3. ASSUME NEW i \in 1 .. Len(rs)
      PROVE  /\ rs[i].max < 0 <=> lr[i].max = Unset
             /\ lr[i].min <= HEAD
             /\ ~(lr[i].max = Unset \/ lr[i].max >= HEAD) => rs[i].max \in 0 .. HEAD - 1
  <2>1. rs[i].min <= HEAD
    BY DEF SettledRule, HeadRule
  <2>2. rs[i].max \in Nat \cup {Unset}
    <3>1. rs[i] \in RuleType
      OBVIOUS
    <3>2. QED BY <3>1 DEF RuleType, Revision
  <2>3. HEAD \in Nat
    BY RulesFilesAssumption
  <2>4. \A m \in Nat \cup {Unset} :
           /\ m < 0 <=> m = Unset
           /\ ~(m = Unset \/ m >= HEAD) => m \in 0 .. HEAD - 1
    BY <2>3 DEF Unset
  <2>5. QED BY <1>2, <2>1, <2>2, <2>4
<1>4. /\ U \subseteq V /\ V \subseteq 1 .. Len(rs)
      /\ \A i \in V : lr[i].max = Unset => i \in U
      /\ \A i \in M : i \in V \/ ~(lr[i].max = Unset \/ lr[i].max >= HEAD)
  BY <1>1, <1>2, <1>3 DEF Unbounded, AtHead, Matching
<1>5. U \subseteq M /\ M \subseteq 1 .. Len(rs) /\ U \subseteq 1 .. Len(rs)
  BY DEF Matching, Unbounded
<1>7. /\ found = FirstOf(V)
      /\ ResolvingRule(rs, path) = IF FirstOf(U) # 0 THEN FirstOf(U) ELSE FirstMatch(rs, path)
      /\ FirstMatch(rs, path) = FirstOf(M)
  BY Searches
<1> HIDE DEF U, V, M
<1>8. /\ FirstOf(U) = 0 <=> U = {}
      /\ U # {} => FirstOf(U) \in U /\ \A i \in U : FirstOf(U) <= i
      /\ FirstOf(V) = 0 <=> V = {}
      /\ V # {} => FirstOf(V) \in V /\ \A i \in V : FirstOf(V) <= i
      /\ FirstOf(M) = 0 <=> M = {}
      /\ M # {} => FirstOf(M) \in M
  BY <1>1, <1>4, <1>5, FirstOfFacts
<1>9. PICK r : r = ResolvingRule(rs, path)
  OBVIOUS
<1>10. r = 0 <=> FirstMatch(rs, path) = 0
  BY <1>5, <1>7, <1>8, <1>9
<1>11. r # 0 => r \in M /\ r \in 1 .. Len(rs)
  BY <1>5, <1>7, <1>8, <1>9
<1>12. ResolveTarget(rs, path) =
         IF r = NoRule THEN Unmapped
         ELSE IF rs[r].repository = NoName THEN Ignored
         ELSE Mapped(Expand(rs[r].repository, rs[r].pattern, path),
                     IF rs[r].branch = NoName THEN Master
                     ELSE Expand(rs[r].branch, rs[r].pattern, path),
                     Expand(rs[r].prefix, rs[r].pattern, path))
  BY <1>9 DEF ResolveTarget
<1>13. Ignored # Unmapped /\ \A x, y, z : Mapped(x, y, z) # Unmapped
  <2>1. Unmapped.kind = "unmapped" /\ Ignored.kind = "ignored"
    BY DEF Unmapped, Ignored
  <2>2. \A x, y, z : Mapped(x, y, z).kind = "mapped"
    BY DEF Mapped
  <2>3. QED BY <2>1, <2>2
<1>14. r = NoRule <=> ResolveTarget(rs, path) = Unmapped
  BY <1>12, <1>13
<1>15. ASSUME found # NoRule, lr[found].max = Unset
       PROVE  ResolveTarget(rs, path) = Decision(lr[found], path)
  <2>1. r = found /\ r \in 1 .. Len(rs) /\ r # NoRule
    <3>1. found \in V /\ found \in U
      BY <1>4, <1>7, <1>8, <1>15 DEF NoRule
    <3>2. FirstOf(U) \in U /\ FirstOf(U) \in V /\ FirstOf(U) <= found /\ found <= FirstOf(U)
      BY <1>4, <1>7, <1>8, <3>1
    <3>3. FirstOf(U) = found /\ found \in 1 .. Len(rs) /\ found # 0
      BY <1>1, <1>4, <3>1, <3>2
    <3>4. QED BY <1>7, <1>9, <3>3 DEF NoRule
  <2>2. /\ lr[r].repository = rs[r].repository /\ lr[r].branch = rs[r].branch
        /\ lr[r].prefix = rs[r].prefix /\ lr[r].pattern = rs[r].pattern
    BY <1>2, <2>1
  <2>3. GoodRule(lr[r]) /\ (rs[r].repository # NoName => rs[r].branch # NoName)
    BY <1>1, <2>1 DEF SettledRule
  <2>4. lr[r].action = "ignore" <=> rs[r].repository = NoName
    BY <2>2, <2>3 DEF GoodRule
  <2>5. QED BY <1>12, <2>1, <2>2, <2>3, <2>4 DEF Decision
<1>16. ASSUME found = NoRule
       PROVE  \/ ResolveTarget(rs, path) = Unmapped
              \/ rs[ResolvingRule(rs, path)].max \in 0 .. HEAD - 1
  <2>1. V = {}
    BY <1>7, <1>8, <1>16 DEF NoRule
  <2>2. r # 0 => rs[r].max \in 0 .. HEAD - 1
    BY <1>3, <1>4, <1>11, <2>1
  <2>3. QED BY <1>9, <1>14, <2>2 DEF NoRule
<1>17. QED BY <1>10, <1>14, <1>15, <1>16 DEF NoRule

\* The same for files that are settled besides.
IfSettled == AllPlain(files) /\ AllSettled(files) => FollowInv /\ SettleInv

\* Every step keeps it.
LEMMA IfSettledStep == ASSUME IfSettled, [Next]_vars PROVE IfSettled'
<1>1. files' = files
  BY FilesStay
<1>2. ASSUME AllPlain(files), AllSettled(files) PROVE FollowInv' /\ SettleInv'
  <2>1. FollowInv /\ SettleInv
    BY <1>2 DEF IfSettled
  <2>2. FollowInv'
    BY <1>2, <2>1, FollowStep
  <2>3. SettleInv'
    BY <1>2, <2>1, SettleStep DEF FollowInv
  <2>4. QED BY <2>2, <2>3
<1>3. (AllPlain(files) /\ AllSettled(files))' => AllPlain(files) /\ AllSettled(files)
  BY <1>1
<1>4. QED BY <1>2, <1>3 DEF IfSettled

\* Whatever the files hold: if they are plain and settled, resolveTarget and the dry run of
\* the validator (src/src/rules_validator.cpp) and findMatchRule of the converter
\* (src/src/svn.cpp) come to the same for every path at HEAD, unless the converter goes by
\* a rule with a max revision that HEAD has not passed.
THEOREM AcceptedRulesResolve == Spec => []SameResolution
<1>1. IfSettled => SameResolution
  <2> SUFFICES ASSUME FollowInv, SettleInv, phase = "done", accepted, NEW path \in Path
               PROVE  LET found == FindMatchRule(loadedRules, HEAD, path)
                      IN  /\ found # NoRule =>
                               \/ ResolveTarget(rules, path) = Decision(loadedRules[found], path)
                               \/ loadedRules[found].max # Unset
                          /\ found = NoRule =>
                               \/ ResolveTarget(rules, path) = Unmapped
                               \/ rules[ResolvingRule(rules, path)].max \in 0 .. HEAD - 1
                          /\ path \in DryRunUnmatched(rules, Path) <=>
                               ResolveTarget(rules, path) = Unmapped
    BY DEF SameResolution, IfSettled
  <2>1. ~AnalyzeRejects(rules, repositories) /\ RulesFollow(loadedRules, rules)
    BY DEF FollowInv, DoneInv
  <2>2. loadedRules \in Seq(RuleType) /\ rules \in Seq(RuleType)
    BY DEF FollowInv, Types
  <2>3. \A i \in 1 .. Len(rules) : rules[i].pattern \notin BadPattern
    <3>1. DOMAIN rules = 1 .. Len(rules)
      BY <2>2
    <3>2. QED BY <2>1, <3>1 DEF AnalyzeRejects
  <2>4. /\ \A i \in 1 .. Len(rules) : SettledRule(rules[i])
        /\ \A i \in 1 .. Len(loadedRules) : GoodRule(loadedRules[i])
    BY DEF SettleInv
  <2>5. path \in DryRunUnmatched(rules, Path) <=> FirstMatch(rules, path) = NoRule
    BY DEF DryRunUnmatched
  <2>6. PICK found : found = FindMatchRule(loadedRules, HEAD, path)
    OBVIOUS
  <2>7. /\ found # NoRule =>
              \/ ResolveTarget(rules, path) = Decision(loadedRules[found], path)
              \/ loadedRules[found].max # Unset
        /\ found = NoRule =>
              \/ ResolveTarget(rules, path) = Unmapped
              \/ rules[ResolvingRule(rules, path)].max \in 0 .. HEAD - 1
        /\ FirstMatch(rules, path) = NoRule <=> ResolveTarget(rules, path) = Unmapped
    BY <2>1, <2>2, <2>3, <2>4, <2>6, SameSearch
  <2>8. QED BY <2>5, <2>6, <2>7
<1>2. Init => IfSettled
  <2>1. Init => FollowInv
    BY FollowInit
  <2>2. ASSUME Init PROVE SettleInv
    <3>1. GoodStack(files, phase, <<Opened(Root)>>)
      BY GoodOpened DEF GoodStack
    <3>2. QED BY <2>2, <3>1 DEF Init, SettleInv
  <2>3. QED BY <2>1, <2>2 DEF IfSettled
<1>3. IfSettled /\ [Next]_vars => IfSettled'
  BY IfSettledStep
<1>4. QED BY <1>1, <1>2, <1>3, PTL DEF Spec
===============================================================================
