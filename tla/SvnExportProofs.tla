--------------------------- MODULE SvnExportProofs ---------------------------
(***************************************************************************)
(* Proofs about the export of a revision, for any paths, rules and         *)
(* repositories and whatever is edited: its types, that it changes only    *)
(* branches the revision is about, and that it asks of a repository only   *)
(* for what module Repository takes for granted.                           *)
(***************************************************************************)
EXTENDS SvnExport, WellFoundedInduction, FiniteSetTheorems, SequenceTheorems, TLAPS

\* A set of natural numbers has a least element.
LEMMA Least ==
    ASSUME NEW S, S \subseteq Nat, S # {}
    PROVE  \E i \in S : \A j \in S : i <= j
<1>1. PICK i \in S : \A j \in S : ~ (<<j, i>> \in OpToRel(<, Nat))
  BY NatLessThanWellFounded, WFMin
<1>2. \A j \in S : ~ (j < i)
  BY <1>1 DEF OpToRel
<1>3. QED BY <1>2

\* A set of numbers up to n has a greatest one.
LEMMA Greatest ==
    ASSUME NEW n \in Nat, NEW S, S \subseteq 1 .. n, S # {}
    PROVE  \E i \in S : \A j \in S : j <= i
<1> DEFINE R == {k \in 0 .. n : n - k \in S}
<1>1. R # {}
  <2>1. PICK i \in S : TRUE
    OBVIOUS
  <2>2. n - i \in R
    BY <2>1
  <2>3. QED BY <2>2
<1>2. R \subseteq Nat
  OBVIOUS
<1>3. \A j \in S : n - j \in R
  OBVIOUS
<1>4. \A k \in R : k \in 0 .. n /\ n - k \in S
  OBVIOUS
<1> HIDE DEF R
<1>5. PICK k \in R : \A j \in R : k <= j
  BY <1>1, <1>2, Least
<1>6. QED BY <1>3, <1>4, <1>5

\* What holds of 0 and passes on to the next number holds up to n.
LEMMA UpTo ==
    ASSUME NEW n \in Nat, NEW S, 0 \in S, \A k \in 0 .. n - 1 : k \in S => k + 1 \in S
    PROVE  n \in S
<1> DEFINE T == {k \in 0 .. n : k \notin S}
<1>1. T \subseteq Nat
  OBVIOUS
<1> SUFFICES ASSUME n \notin S PROVE FALSE
  OBVIOUS
<1>2. T # {}
  OBVIOUS
<1>3. PICK i \in T : \A j \in T : i <= j
  BY <1>1, <1>2, Least
<1>4. i \in 0 .. n /\ i \notin S /\ i # 0
  OBVIOUS
<1>5. i - 1 \in 0 .. n - 1 /\ ~ (i <= i - 1)
  BY <1>4
<1>6. i - 1 \in S
  BY <1>3, <1>5
<1>7. (i - 1) + 1 \in S /\ (i - 1) + 1 = i
  BY <1>4, <1>5, <1>6
<1>8. QED BY <1>4, <1>7

(* Paths *)

\* What the constants say of a path.
LEMMA PathFacts ==
    /\ Path \subseteq Seq(PathName) \ {NoPath}
    /\ \A p \in Path : /\ Len(p) \in Nat \ {0} /\ DOMAIN p = 1 .. Len(p)
                       /\ \A n \in 1 .. Len(p) - 1 : SubSeq(p, 1, n) \in DirPath
    /\ DirPath \subseteq Path
    /\ \A n \in 1 .. Len(PathOrder) : PathOrder[n] \in Path
<1>1. \A n \in DOMAIN PathOrder : PathOrder[n] \in Seq(PathName) \ {NoPath}
  BY SvnRepositoryAssumption
<1>2. Path \subseteq Seq(PathName) \ {NoPath}
  BY <1>1 DEF Path, Range
<1>3. DOMAIN PathOrder = 1 .. Len(PathOrder)
  BY SvnRepositoryAssumption
<1>4. \A n \in 1 .. Len(PathOrder) : PathOrder[n] \in Path
  BY <1>3 DEF Path, Range
<1>5. \A p \in Path : Len(p) \in Nat \ {0} /\ DOMAIN p = 1 .. Len(p)
  BY <1>2 DEF NoPath
<1>6. QED BY <1>2, <1>4, <1>5, SvnRepositoryAssumption

\* A prefix, name by name.
LEMMA PrefixIs ==
    ASSUME NEW N, NEW a \in Seq(N), NEW b \in Seq(N)
    PROVE  IsPrefix(a, b) <=> Len(a) <= Len(b) /\ \A i \in 1 .. Len(a) : a[i] = b[i]
  BY DEF IsPrefix

\* The first names of a path.
LEMMA PrefixOfPath ==
    ASSUME NEW p \in Path, NEW n \in 1 .. Len(p)
    PROVE  /\ SubSeq(p, 1, n) \in Path /\ Len(SubSeq(p, 1, n)) = n
           /\ IsPrefix(SubSeq(p, 1, n), p)
           /\ \A i \in 1 .. n : SubSeq(p, 1, n)[i] = p[i]
           /\ n < Len(p) => SubSeq(p, 1, n) \in DirPath
           /\ n = Len(p) => SubSeq(p, 1, n) = p
<1>1. p \in Seq(PathName) /\ Len(p) \in Nat \ {0}
  BY PathFacts
<1>2. n = Len(p) => SubSeq(p, 1, n) = p
  BY <1>1, SubSeqFull
<1>3. n < Len(p) => SubSeq(p, 1, n) \in DirPath
  BY <1>1, PathFacts
<1>4. /\ Len(SubSeq(p, 1, n)) = n /\ IsPrefix(SubSeq(p, 1, n), p)
      /\ \A i \in 1 .. n : SubSeq(p, 1, n)[i] = p[i]
  BY <1>1 DEF IsPrefix
<1>5. SubSeq(p, 1, n) \in Path
  <2>1. n < Len(p) \/ n = Len(p)
    BY <1>1
  <2>2. DirPath \subseteq Path
    BY PathFacts
  <2>3. QED BY <1>2, <1>3, <2>1, <2>2
<1>6. QED BY <1>2, <1>3, <1>4, <1>5

\* Prefixes are in an order, and those of one path are in line.
LEMMA PrefixOrder ==
    /\ \A p \in Path : IsPrefix(p, p)
    /\ \A p, q, r \in Path : IsPrefix(p, q) /\ IsPrefix(q, r) => IsPrefix(p, r)
    /\ \A p, q, r \in Path : IsPrefix(p, r) /\ IsPrefix(q, r) => IsPrefix(p, q) \/ IsPrefix(q, p)
    /\ \A p, q \in Path : IsPrefix(p, q) => p = q \/ (Len(p) \in 1 .. Len(q) - 1 /\ p = SubSeq(q, 1, Len(p)))
<1>1. Path \subseteq Seq(PathName)
  BY PathFacts
<1>2. \A p \in Path : IsPrefix(p, p)
  BY <1>1, PrefixIs
<1>3. ASSUME NEW p \in Path, NEW q \in Path, NEW r \in Path, IsPrefix(p, q), IsPrefix(q, r)
      PROVE  IsPrefix(p, r)
  <2>1. p \in Seq(PathName) /\ q \in Seq(PathName) /\ r \in Seq(PathName)
    BY <1>1
  <2>2. QED BY <1>3, <2>1 DEF IsPrefix
<1>4. ASSUME NEW p \in Path, NEW q \in Path, NEW r \in Path, IsPrefix(p, r), IsPrefix(q, r)
      PROVE  IsPrefix(p, q) \/ IsPrefix(q, p)
  <2>1. p \in Seq(PathName) /\ q \in Seq(PathName) /\ r \in Seq(PathName)
    BY <1>1
  <2>2. QED BY <1>4, <2>1 DEF IsPrefix
<1>5. ASSUME NEW p \in Path, NEW q \in Path, IsPrefix(p, q)
      PROVE  p = q \/ (Len(p) \in 1 .. Len(q) - 1 /\ p = SubSeq(q, 1, Len(p)))
  <2>1. /\ p \in Seq(PathName) /\ q \in Seq(PathName)
        /\ Len(p) \in Nat \ {0} /\ Len(q) \in Nat \ {0}
    BY <1>1, PathFacts
  <2>2. Len(p) <= Len(q) /\ SubSeq(p, 1, Len(p)) = SubSeq(q, 1, Len(p))
    BY <1>5 DEF IsPrefix
  <2>3. SubSeq(p, 1, Len(p)) = p /\ SubSeq(q, 1, Len(q)) = q
    BY <2>1, SubSeqFull
  <2>4. Len(p) = Len(q) => p = q
    BY <2>2, <2>3
  <2>5. Len(p) = Len(q) \/ Len(p) \in 1 .. Len(q) - 1
    BY <2>1, <2>2
  <2>6. p = SubSeq(q, 1, Len(p))
    BY <2>2, <2>3
  <2>7. QED BY <2>4, <2>5, <2>6
<1>6. QED BY <1>2, <1>3, <1>4, <1>5

-----------------------------------------------------------------------------
(* Rules *)

\* The rule that is found, and that those before it do not match.
LEMMA RuleFound ==
    ASSUME NEW p, NEW isDir \in BOOLEAN, NEW masked \in {"none", "ignore"}
    PROVE  \/ /\ FindMatchRule(p, isDir, masked) = NoRule
              /\ \A i \in DOMAIN Rules :
                    ~ (Rules[i].action # masked /\ Matches(Rules[i], p, isDir))
           \/ \E i \in DOMAIN Rules :
                 /\ FindMatchRule(p, isDir, masked) = Rules[i]
                 /\ Rules[i].action # masked /\ Matches(Rules[i], p, isDir)
                 /\ \A j \in DOMAIN Rules :
                       j < i => ~ (Rules[j].action # masked /\ Matches(Rules[j], p, isDir))
<1> DEFINE hits == {i \in DOMAIN Rules : Rules[i].action # masked /\ Matches(Rules[i], p, isDir)}
<1>1. FindMatchRule(p, isDir, masked) = FirstMatch(p, isDir, masked)
  BY DEF FindMatchRule, FirstMatches
<1>2. FirstMatch(p, isDir, masked)
        = IF hits = {} THEN NoRule ELSE Rules[CHOOSE i \in hits : \A j \in hits : i <= j]
  BY DEF FirstMatch
<1>3. hits \subseteq Nat /\ \A i \in hits, j \in DOMAIN Rules : i \in Nat /\ j \in Nat
  <2>1. DOMAIN Rules = 1 .. Len(Rules) /\ Len(Rules) \in Nat
    BY SvnExportAssumption
  <2>2. QED BY <2>1
<1>4. CASE hits = {}
  BY <1>1, <1>2, <1>4
<1>5. CASE hits # {}
  <2>1. \E i \in hits : \A j \in hits : i <= j
    <3> HIDE DEF hits
    <3>1. QED BY <1>3, <1>5, Least
  <2>2. PICK i : i = CHOOSE h \in hits : \A j \in hits : h <= j
    OBVIOUS
  <2>3. i \in hits /\ \A j \in hits : i <= j
    <3> HIDE DEF hits
    <3>1. QED BY <2>1, <2>2
  <2>4. FindMatchRule(p, isDir, masked) = Rules[i]
    BY <1>1, <1>2, <1>5, <2>2
  <2>5. \A j \in DOMAIN Rules : j < i => j \notin hits
    BY <1>3, <2>3
  <2>6. QED BY <2>3, <2>4, <2>5
<1>6. QED BY <1>4, <1>5

\* The rules, one by one.
LEMMA RuleFacts ==
    ASSUME NEW i \in DOMAIN Rules
    PROVE  /\ i \in Nat
           /\ Rules[i].action \in {"export", "ignore", "recurse"}
           /\ Rules[i].pattern \in Seq(PathName \cup {"*"})
           /\ Len(Rules[i].pattern) \in Nat \ {0}
           /\ DOMAIN Rules[i].pattern = 1 .. Len(Rules[i].pattern)
           /\ Rules[i].group \in 0 .. Len(Rules[i].pattern)
<1>1. DOMAIN Rules = 1 .. Len(Rules) /\ Len(Rules) \in Nat
  BY SvnExportAssumption
<1>2. /\ Rules[i].action \in {"export", "ignore", "recurse"}
      /\ Rules[i].pattern \in Seq(PathName \cup {"*"}) \ {<<>>}
      /\ Rules[i].group \in 0 .. Len(Rules[i].pattern)
  BY SvnExportAssumption
<1>3. QED BY <1>1, <1>2

\* What a path shares with the directory its rule matches.
DirOf(p, isDir) == SubSeq(p, 1, Len(FindMatchRule(p, isDir, "none").pattern))

\* A rule that exports a path exports the directory it matches, to the same branch.
LEMMA DirectoryMatched ==
    ASSUME NEW p \in Path, NEW isDir \in BOOLEAN, isDir => p \in DirPath,
           FindMatchRule(p, isDir, "none").action = "export"
    PROVE  /\ DirOf(p, isDir) \in DirPath
           /\ IsPrefix(DirOf(p, isDir), p)
           /\ FindMatchRule(DirOf(p, isDir), TRUE, "none") = FindMatchRule(p, isDir, "none")
           /\ Len(DirOf(p, isDir)) = Len(FindMatchRule(p, isDir, "none").pattern)
           /\ Split(FindMatchRule(p, isDir, "none"), p).branch
                = Split(FindMatchRule(p, isDir, "none"), DirOf(p, isDir)).branch
<1>1. PICK i \in DOMAIN Rules :
         /\ FindMatchRule(p, isDir, "none") = Rules[i]
         /\ Rules[i].action # "none" /\ Matches(Rules[i], p, isDir)
         /\ \A j \in DOMAIN Rules :
               j < i => ~ (Rules[j].action # "none" /\ Matches(Rules[j], p, isDir))
  <2>1. NoRule.action # "export"
    BY DEF NoRule
  <2>2. QED BY <2>1, RuleFound
<1> DEFINE rule == Rules[i]
           n == Len(rule.pattern)
           d == SubSeq(p, 1, n)
<1>2. /\ n \in Nat \ {0} /\ rule.group \in 0 .. n /\ rule.action = "export"
      /\ DOMAIN rule.pattern = 1 .. n
  BY <1>1, RuleFacts
<1>3. Len(p) \in Nat \ {0}
  BY PathFacts
<1>4. /\ n < Len(p) + (IF isDir THEN 1 ELSE 0)
      /\ \A m \in 1 .. n : rule.pattern[m] \in {"*", p[m]}
  BY <1>1, <1>2 DEF Matches
<1>5. n \in 1 .. Len(p) /\ (n < Len(p) \/ (n = Len(p) /\ isDir))
  BY <1>2, <1>3, <1>4
<1>6. /\ d \in Path /\ Len(d) = n /\ IsPrefix(d, p) /\ \A m \in 1 .. n : d[m] = p[m]
      /\ d \in DirPath
  BY <1>5, PrefixOfPath
<1>7. DirOf(p, isDir) = d
  BY <1>1 DEF DirOf
<1>8. Matches(rule, d, TRUE)
  BY <1>2, <1>4, <1>6 DEF Matches
<1>9. ASSUME NEW j \in DOMAIN Rules, j < i, Matches(Rules[j], d, TRUE) PROVE FALSE
  <2>1. /\ Len(Rules[j].pattern) \in Nat \ {0} /\ DOMAIN Rules[j].pattern = 1 .. Len(Rules[j].pattern)
        /\ Rules[j].action # "none"
    BY RuleFacts
  <2>2. Len(Rules[j].pattern) < n + 1 /\ \A m \in 1 .. Len(Rules[j].pattern) : Rules[j].pattern[m] \in {"*", d[m]}
    BY <1>6, <1>9, <2>1 DEF Matches
  <2>3. \A m \in 1 .. Len(Rules[j].pattern) : m \in 1 .. n
    BY <1>2, <2>1, <2>2
  <2>4. \A m \in 1 .. Len(Rules[j].pattern) : Rules[j].pattern[m] \in {"*", p[m]}
    BY <1>6, <2>2, <2>3
  <2>5. Len(Rules[j].pattern) < Len(p) + (IF isDir THEN 1 ELSE 0)
    BY <1>2, <1>3, <1>5, <2>1, <2>2
  <2>6. Matches(Rules[j], p, isDir)
    BY <2>1, <2>4, <2>5 DEF Matches
  <2>7. QED BY <1>1, <1>9, <2>1, <2>6
<1>10. FindMatchRule(d, TRUE, "none") = rule
  <2>1. ~ \A j \in DOMAIN Rules : ~ (Rules[j].action # "none" /\ Matches(Rules[j], d, TRUE))
    BY <1>1, <1>8
  <2>2. PICK j \in DOMAIN Rules :
           /\ FindMatchRule(d, TRUE, "none") = Rules[j]
           /\ Rules[j].action # "none" /\ Matches(Rules[j], d, TRUE)
           /\ \A k \in DOMAIN Rules :
                 k < j => ~ (Rules[k].action # "none" /\ Matches(Rules[k], d, TRUE))
    BY <2>1, RuleFound
  <2>3. ~ (j < i) /\ ~ (i < j)
    BY <1>1, <1>8, <1>9, <2>2
  <2>4. i = j
    BY <2>3, RuleFacts
  <2>5. QED BY <2>2, <2>4
<1>11. Split(rule, p).branch = Split(rule, d).branch
  <2>1. rule.group = 0 \/ rule.group \in 1 .. n
    BY <1>2
  <2>2. rule.group # 0 => d[rule.group] = p[rule.group]
    BY <1>6, <2>1
  <2>3. QED BY <2>2 DEF Split
<1>12. QED BY <1>1, <1>6, <1>7, <1>10, <1>11

-----------------------------------------------------------------------------
(* The recursive functions *)

\* The list of a set's paths holds each of them once.
LEMMA ListedFacts ==
    ASSUME NEW set
    PROVE  /\ Listed(set) \in Seq(set \cap Path)
           /\ \A i, j \in DOMAIN Listed(set) : Listed(set)[i] = Listed(set)[j] => i = j
<1> DEFINE len == Len(PathOrder)
           Next1(s, n) == IF PathOrder[n] \in set THEN Append(s, PathOrder[n]) ELSE s
           Of(f, k) == [n \in 0 .. k |-> IF n = 0 THEN <<>> ELSE Next1(f[n - 1], n)]
           S == {k \in Nat : \E f : f = Of(f, k)}
<1>0. len \in Nat /\ DOMAIN PathOrder = 1 .. len
  <2>1. PathOrder \in Seq(Seq(PathName) \ {NoPath})
    BY SvnRepositoryAssumption
  <2>2. QED BY <2>1
<1>1. 0 \in S
  <2>1. [n \in 0 .. 0 |-> <<>>] = Of([n \in 0 .. 0 |-> <<>>], 0)
    OBVIOUS
  <2>2. QED BY <2>1
<1>2. ASSUME NEW k \in 0 .. len - 1, k \in S
      PROVE  k + 1 \in S
  <2>1. PICK f : f = Of(f, k)
    BY <1>2
  <2> DEFINE g == [n \in 0 .. k + 1 |-> IF n = k + 1 THEN Next1(f[k], n) ELSE f[n]]
  <2>2. k \in Nat /\ k + 1 \in Nat
    BY <1>0, <1>2
  <2> HIDE DEF Next1
  <2>3. \A n \in 0 .. k + 1 : g[n] = IF n = 0 THEN <<>> ELSE Next1(g[n - 1], n)
    <3> TAKE n \in 0 .. k + 1
    <3>1. CASE n = k + 1
      <4>1. n # 0 /\ n - 1 = k /\ k \in 0 .. k + 1 /\ k # k + 1
        BY <2>2, <3>1
      <4>2. QED BY <3>1, <4>1
    <3>2. CASE n # k + 1
      <4>1. n \in 0 .. k
        BY <2>2, <3>2
      <4>2. g[n] = f[n]
        BY <3>2
      <4>3. f[n] = IF n = 0 THEN <<>> ELSE Next1(f[n - 1], n)
        BY <2>1, <4>1
      <4>4. n # 0 => n - 1 \in 0 .. k + 1 /\ n - 1 # k + 1
        BY <2>2, <4>1
      <4>5. n # 0 => g[n - 1] = f[n - 1]
        BY <4>4
      <4> HIDE DEF g
      <4>6. QED BY <4>2, <4>3, <4>5
    <3>3. QED BY <3>1, <3>2
  <2>4. g = Of(g, k + 1)
    <3>1. g = [n \in 0 .. k + 1 |-> g[n]]
      OBVIOUS
    <3> HIDE DEF g
    <3>2. QED BY <2>3, <3>1
  <2> HIDE DEF Of
  <2>5. QED BY <2>2, <2>4
<1>3. len \in S
  <2> HIDE DEF S
  <2>1. QED BY <1>0, <1>1, <1>2, UpTo
<1>4. PICK f : f = Of(f, len)
  BY <1>3
<1> DEFINE upTo == CHOOSE h : h = Of(h, len)
<1>5. upTo = Of(upTo, len)
  <2> HIDE DEF Of
  <2>1. QED BY <1>4
<1>6. Listed(set) = upTo[len]
  BY DEF Listed
<1>7. /\ upTo[0] = <<>>
      /\ \A n \in 1 .. len : upTo[n] = Next1(upTo[n - 1], n)
  <2> HIDE DEF upTo, Next1
  <2>1. QED BY <1>0, <1>5
<1> HIDE DEF upTo
<1> DEFINE Good(s, n) ==
              /\ s \in Seq(set \cap Path)
              /\ \A i \in 1 .. Len(s) : \E m \in 1 .. n : s[i] = PathOrder[m]
              /\ \A i, j \in 1 .. Len(s) : s[i] = s[j] => i = j
           T == {n \in 0 .. len : Good(upTo[n], n)}
<1>8. 0 \in T
  <2>1. Good(<<>>, 0)
    BY EmptySeq
  <2> HIDE DEF Good
  <2>2. QED BY <1>0, <1>7, <2>1
<1>9. ASSUME NEW k \in 0 .. len - 1, k \in T
      PROVE  k + 1 \in T
  <2>1. /\ k + 1 \in 1 .. len /\ k \in Nat /\ (k + 1) - 1 = k
        /\ Good(upTo[k], k)
    BY <1>0, <1>9
  <2>2. upTo[k + 1] = Next1(upTo[k], k + 1)
    BY <1>7, <2>1
  <2> DEFINE s == upTo[k]
             p == PathOrder[k + 1]
  <2>3. CASE p \notin set
    <3>1. upTo[k + 1] = s
      BY <2>2, <2>3
    <3>2. \A m \in 1 .. k : m \in 1 .. k + 1
      BY <2>1
    <3>3. QED BY <2>1, <3>1, <3>2
  <2>4. CASE p \in set
    <3>1. upTo[k + 1] = Append(s, p)
      BY <2>2, <2>4
    <3>2. p \in set \cap Path
      BY <2>1, <2>4, PathFacts
    <3>3. \A m \in 1 .. k : PathOrder[m] # p
      <4>1. \A m \in 1 .. k : m \in DOMAIN PathOrder /\ k + 1 \in DOMAIN PathOrder /\ m # k + 1
        BY <1>0, <2>1
      <4>2. QED BY <4>1, SvnRepositoryAssumption
    <3> HIDE DEF p, s
    <3>4. /\ Append(s, p) \in Seq(set \cap Path)
          /\ Len(s) \in Nat
          /\ Len(Append(s, p)) = Len(s) + 1
          /\ \A i \in 1 .. Len(s) : Append(s, p)[i] = s[i]
          /\ Append(s, p)[Len(s) + 1] = p
      <4>1. s \in Seq(set \cap Path)
        BY <2>1 DEF s
      <4>2. QED BY <3>2, <4>1, AppendProperties, LenProperties
    <3>5. \A i \in 1 .. Len(s) : s[i] # p
      BY <2>1, <3>3 DEF s
    <3>6. \A i \in 1 .. Len(s) + 1 : i \in 1 .. Len(s) \/ i = Len(s) + 1
      BY <3>4
    <3>7. \A i, j \in 1 .. Len(s) + 1 : Append(s, p)[i] = Append(s, p)[j] => i = j
      <4>1. \A i, j \in 1 .. Len(s) : s[i] = s[j] => i = j
        BY <2>1 DEF s
      <4>2. QED BY <3>4, <3>5, <3>6, <4>1
    <3>8. \A i \in 1 .. Len(s) + 1 : \E m \in 1 .. k + 1 : Append(s, p)[i] = PathOrder[m]
      <4>1. \A i \in 1 .. Len(s) : \E m \in 1 .. k : s[i] = PathOrder[m]
        BY <2>1 DEF s
      <4>2. (\A m \in 1 .. k : m \in 1 .. k + 1) /\ k + 1 \in 1 .. k + 1
        BY <2>1
      <4>3. p = PathOrder[k + 1]
        BY DEF p
      <4>4. QED BY <3>4, <3>6, <4>1, <4>2, <4>3
    <3>9. Good(Append(s, p), k + 1)
      BY <3>4, <3>7, <3>8
    <3>10. k + 1 \in 0 .. len
      BY <1>0, <2>1
    <3> HIDE DEF Good
    <3>11. QED BY <3>1, <3>9, <3>10
  <2>5. QED BY <2>3, <2>4
<1>10. len \in T
  <2> HIDE DEF T
  <2>1. QED BY <1>0, <1>8, <1>9, UpTo
<1>11. Good(Listed(set), len)
  BY <1>6, <1>10
<1>12. DOMAIN Listed(set) = 1 .. Len(Listed(set))
  BY <1>11
<1>13. QED BY <1>11, <1>12

\* The queues leave the refs there are.
LEMMA QueuesKeepRefs ==
    ASSUME Len(resetBranches) \in Nat
    PROVE  DOMAIN AfterQueues = Branches
<1> DEFINE len == Len(resetBranches)
           Step(r, n) == Reset(r, resetBranches[n])
           Of(f, k) == [n \in 0 .. k |-> IF n = 0 THEN Deleted(git) ELSE Step(f[n - 1], n)]
           S == {k \in Nat : \E f : f = Of(f, k)}
<1>0. len \in Nat
  OBVIOUS
<1>1. 0 \in S
  <2>1. [n \in 0 .. 0 |-> Deleted(git)] = Of([n \in 0 .. 0 |-> Deleted(git)], 0)
    OBVIOUS
  <2>2. QED BY <2>1
<1>2. ASSUME NEW k \in 0 .. len - 1, k \in S
      PROVE  k + 1 \in S
  <2>1. PICK f : f = Of(f, k)
    BY <1>2
  <2> DEFINE g == [n \in 0 .. k + 1 |-> IF n = k + 1 THEN Step(f[k], n) ELSE f[n]]
  <2>2. k \in Nat /\ k + 1 \in Nat
    BY <1>0, <1>2
  <2> HIDE DEF Step
  <2>3. \A n \in 0 .. k + 1 : g[n] = IF n = 0 THEN Deleted(git) ELSE Step(g[n - 1], n)
    <3> TAKE n \in 0 .. k + 1
    <3>1. CASE n = k + 1
      <4>1. n # 0 /\ n - 1 = k /\ k \in 0 .. k + 1 /\ k # k + 1
        BY <2>2, <3>1
      <4>2. QED BY <3>1, <4>1
    <3>2. CASE n # k + 1
      <4>1. n \in 0 .. k
        BY <2>2, <3>2
      <4>2. g[n] = f[n]
        BY <3>2
      <4>3. f[n] = IF n = 0 THEN Deleted(git) ELSE Step(f[n - 1], n)
        BY <2>1, <4>1
      <4>4. n # 0 => n - 1 \in 0 .. k + 1 /\ n - 1 # k + 1
        BY <2>2, <4>1
      <4>5. n # 0 => g[n - 1] = f[n - 1]
        BY <4>4
      <4> HIDE DEF g
      <4>6. QED BY <4>2, <4>3, <4>5
    <3>3. QED BY <3>1, <3>2
  <2>4. g = Of(g, k + 1)
    <3>1. g = [n \in 0 .. k + 1 |-> g[n]]
      OBVIOUS
    <3> HIDE DEF g
    <3>2. QED BY <2>3, <3>1
  <2> HIDE DEF Of
  <2>5. QED BY <2>2, <2>4
<1>3. len \in S
  <2> HIDE DEF S, len
  <2>1. QED BY <1>0, <1>1, <1>2, UpTo
<1>4. PICK f : f = Of(f, len)
  BY <1>3
<1> DEFINE after == CHOOSE h : h = Of(h, len)
<1>5. after = Of(after, len)
  <2> HIDE DEF Of
  <2>1. QED BY <1>4
<1>6. AfterQueues = after[len]
  BY DEF AfterQueues
<1>7. /\ after[0] = Deleted(git)
      /\ \A n \in 1 .. len : after[n] = Step(after[n - 1], n)
  <2> HIDE DEF after, Step
  <2>1. QED BY <1>0, <1>5
<1>8. \A r, n : DOMAIN Step(r, n) = DOMAIN r
  BY DEF Reset
<1> HIDE DEF after, Step
<1> DEFINE T == {n \in 0 .. len : DOMAIN after[n] = Branches}
<1>9. 0 \in T
  BY <1>0, <1>7 DEF Deleted
<1>10. ASSUME NEW k \in 0 .. len - 1, k \in T
       PROVE  k + 1 \in T
  <2>1. k + 1 \in 1 .. len /\ (k + 1) - 1 = k
    BY <1>0, <1>10
  <2>2. after[k + 1] = Step(after[k], k + 1)
    BY <1>7, <2>1
  <2>3. QED BY <1>0, <1>8, <1>10, <2>1, <2>2
<1>11. len \in T
  <2> HIDE DEF T, len
  <2>1. QED BY <1>0, <1>9, <1>10, UpTo
<1>12. QED BY <1>6, <1>11

\* So do the transactions.
LEMMA TransactionsKeepRefs ==
    ASSUME NEW refs, DOMAIN refs = Branches, IsFiniteSet(transactions)
    PROVE  DOMAIN AfterTransactions(refs) = Branches
<1> DEFINE len == Cardinality(transactions)
           Step(r, n) == WithCommit(r, SetToSeq(transactions)[n])
           Of(f, k) == [n \in 0 .. k |-> IF n = 0 THEN refs ELSE Step(f[n - 1], n)]
           S == {k \in Nat : \E f : f = Of(f, k)}
<1>0. len \in Nat
  BY FS_CardinalityType
<1>1. 0 \in S
  <2>1. [n \in 0 .. 0 |-> refs] = Of([n \in 0 .. 0 |-> refs], 0)
    OBVIOUS
  <2>2. QED BY <2>1
<1>2. ASSUME NEW k \in 0 .. len - 1, k \in S
      PROVE  k + 1 \in S
  <2>1. PICK f : f = Of(f, k)
    BY <1>2
  <2> DEFINE g == [n \in 0 .. k + 1 |-> IF n = k + 1 THEN Step(f[k], n) ELSE f[n]]
  <2>2. k \in Nat /\ k + 1 \in Nat
    BY <1>0, <1>2
  <2> HIDE DEF Step
  <2>3. \A n \in 0 .. k + 1 : g[n] = IF n = 0 THEN refs ELSE Step(g[n - 1], n)
    <3> TAKE n \in 0 .. k + 1
    <3>1. CASE n = k + 1
      <4>1. n # 0 /\ n - 1 = k /\ k \in 0 .. k + 1 /\ k # k + 1
        BY <2>2, <3>1
      <4>2. QED BY <3>1, <4>1
    <3>2. CASE n # k + 1
      <4>1. n \in 0 .. k
        BY <2>2, <3>2
      <4>2. g[n] = f[n]
        BY <3>2
      <4>3. f[n] = IF n = 0 THEN refs ELSE Step(f[n - 1], n)
        BY <2>1, <4>1
      <4>4. n # 0 => n - 1 \in 0 .. k + 1 /\ n - 1 # k + 1
        BY <2>2, <4>1
      <4>5. n # 0 => g[n - 1] = f[n - 1]
        BY <4>4
      <4> HIDE DEF g
      <4>6. QED BY <4>2, <4>3, <4>5
    <3>3. QED BY <3>1, <3>2
  <2>4. g = Of(g, k + 1)
    <3>1. g = [n \in 0 .. k + 1 |-> g[n]]
      OBVIOUS
    <3> HIDE DEF g
    <3>2. QED BY <2>3, <3>1
  <2> HIDE DEF Of
  <2>5. QED BY <2>2, <2>4
<1>3. len \in S
  <2> HIDE DEF S, len
  <2>1. QED BY <1>0, <1>1, <1>2, UpTo
<1>4. PICK f : f = Of(f, len)
  BY <1>3
<1> DEFINE after == CHOOSE h : h = Of(h, len)
<1>5. after = Of(after, len)
  <2> HIDE DEF Of
  <2>1. QED BY <1>4
<1>6. AfterTransactions(refs) = after[len]
  BY DEF AfterTransactions
<1>7. /\ after[0] = refs
      /\ \A n \in 1 .. len : after[n] = Step(after[n - 1], n)
  <2> HIDE DEF after, Step
  <2>1. QED BY <1>0, <1>5
<1>8. \A r, n : DOMAIN Step(r, n) = DOMAIN r
  BY DEF WithCommit
<1> HIDE DEF after, Step
<1> DEFINE T == {n \in 0 .. len : DOMAIN after[n] = Branches}
<1>9. 0 \in T
  BY <1>0, <1>7
<1>10. ASSUME NEW k \in 0 .. len - 1, k \in T
       PROVE  k + 1 \in T
  <2>1. k + 1 \in 1 .. len /\ (k + 1) - 1 = k
    BY <1>0, <1>10
  <2>2. after[k + 1] = Step(after[k], k + 1)
    BY <1>7, <2>1
  <2>3. QED BY <1>0, <1>8, <1>10, <2>1, <2>2
<1>11. len \in T
  <2> HIDE DEF T, len
  <2>1. QED BY <1>0, <1>9, <1>10, UpTo
<1>12. QED BY <1>6, <1>11

-----------------------------------------------------------------------------
(* Trees and edits *)

\* What lies in a tree lies in directories of the tree.
LEMMA TreeAbove ==
    ASSUME NEW t, IsTree(t)
    PROVE  /\ DOMAIN t \subseteq Path
           /\ \A p \in DOMAIN t, q \in Path : IsPrefix(q, p) => q = p \/ IsDir(t, q)
           /\ \A p \in Path : Len(p) = 1 \/ IsDir(t, Front(p))
                 => \A n \in 1 .. Len(p) - 1 : IsDir(t, SubSeq(p, 1, n))
<1>1. DOMAIN t \subseteq Path
  BY DEF IsTree
<1>2. ASSUME NEW p \in DOMAIN t, NEW q \in Path, IsPrefix(q, p), q # p
      PROVE  IsDir(t, q)
  <2>1. Len(q) \in 1 .. Len(p) - 1 /\ q = SubSeq(p, 1, Len(q))
    BY <1>1, <1>2, PrefixOrder
  <2>2. QED BY <2>1 DEF IsTree
<1>3. ASSUME NEW p \in Path, Len(p) = 1 \/ IsDir(t, Front(p)), NEW n \in 1 .. Len(p) - 1
      PROVE  IsDir(t, SubSeq(p, 1, n))
  <2>1. p \in Seq(PathName) /\ Len(p) \in Nat
    BY PathFacts
  <2>2. IsDir(t, Front(p))
    <3>1. Len(p) # 1
      <4>1. Len(p) > 1
        BY <2>1
      <4>2. \A len : len > 1 => len # 1
        OBVIOUS
      <4>3. QED BY <4>1, <4>2
    <3>2. QED BY <1>3, <3>1
  <2>3. Front(p) = SubSeq(p, 1, Len(p) - 1)
    BY DEF Front
  <2>4. CASE n = Len(p) - 1
    BY <2>2, <2>3, <2>4
  <2>5. CASE n # Len(p) - 1
    <3>1. n \in 1 .. Len(Front(p)) - 1
      BY <1>3, <2>1, <2>3, <2>5
    <3>2. SubSeq(p, 1, n) = SubSeq(Front(p), 1, n)
      BY <1>3, <2>1, <2>3, <2>5
    <3>3. Front(p) \in DOMAIN t
      BY <2>2 DEF IsDir
    <3>4. IsDir(t, SubSeq(Front(p), 1, n))
      BY <3>1, <3>3 DEF IsTree
    <3>5. QED BY <3>2, <3>4
  <2>6. QED BY <2>4, <2>5
<1>4. QED BY <1>1, <1>2, <1>3

\* A path that is moved with the directory it is in.
LEMMA MovedFacts ==
    ASSUME NEW s \in Path, NEW q \in Path, NEW p \in Path, IsPrefix(q, s)
    PROVE  /\ Moved(s, q, p) \in Seq(PathName)
           /\ Len(Moved(s, q, p)) = Len(p) + Len(s) - Len(q)
           /\ IsPrefix(p, Moved(s, q, p))
           /\ Moved(Moved(s, q, p), p, q) = s
           /\ Moved(q, q, p) = p
           /\ \A n \in 1 .. Len(p) : SubSeq(Moved(s, q, p), 1, n) = SubSeq(p, 1, n)
           /\ \A n \in Len(p) + 1 .. Len(Moved(s, q, p)) :
                 SubSeq(Moved(s, q, p), 1, n) = Moved(SubSeq(s, 1, n - Len(p) + Len(q)), q, p)
<1> DEFINE m == Moved(s, q, p)
<1>1. /\ s \in Seq(PathName) /\ q \in Seq(PathName) /\ p \in Seq(PathName)
      /\ Len(s) \in Nat /\ Len(q) \in Nat \ {0} /\ Len(p) \in Nat \ {0}
      /\ Len(q) <= Len(s)
  BY PathFacts DEF IsPrefix
<1>2. m \in Seq(PathName) /\ Len(m) = Len(p) + Len(s) - Len(q)
  BY <1>1 DEF Moved
<1>3. IsPrefix(p, m)
  BY <1>1 DEF Moved, IsPrefix
<1>4. Moved(m, p, q) = s
  <2>1. SubSeq(m, Len(p) + 1, Len(m)) = SubSeq(s, Len(q) + 1, Len(s))
    BY <1>1, <1>2 DEF Moved
  <2>2. SubSeq(q, 1, Len(q)) = q /\ SubSeq(q, 1, Len(q)) = SubSeq(s, 1, Len(q))
    BY <1>1, SubSeqFull DEF IsPrefix
  <2>3. q \o SubSeq(s, Len(q) + 1, Len(s)) = s
    BY <1>1, <2>2
  <2>4. QED BY <2>1, <2>3 DEF Moved
<1>5. \A n \in 1 .. Len(p) : SubSeq(m, 1, n) = SubSeq(p, 1, n)
  BY <1>1 DEF Moved
<1>6. ASSUME NEW n \in Len(p) + 1 .. Len(m)
      PROVE  SubSeq(m, 1, n) = Moved(SubSeq(s, 1, n - Len(p) + Len(q)), q, p)
  <2>1. n - Len(p) + Len(q) \in Len(q) + 1 .. Len(s)
    BY <1>1, <1>2, <1>6
  <2>2. Len(SubSeq(s, 1, n - Len(p) + Len(q))) = n - Len(p) + Len(q)
    BY <1>1, <2>1
  <2>3. SubSeq(SubSeq(s, 1, n - Len(p) + Len(q)), Len(q) + 1, n - Len(p) + Len(q))
          = SubSeq(s, Len(q) + 1, n - Len(p) + Len(q))
    BY <1>1, <2>1, <2>2
  <2>4. SubSeq(m, 1, n) = p \o SubSeq(s, Len(q) + 1, n - Len(p) + Len(q))
    BY <1>1, <1>2, <1>6, <2>1 DEF Moved
  <2>5. QED BY <2>2, <2>3, <2>4 DEF Moved
<1>7. Moved(q, q, p) = p
  <2>1. SubSeq(q, Len(q) + 1, Len(q)) = <<>>
    BY <1>1
  <2>2. QED BY <1>1, <2>1, ConcatEmptySeq DEF Moved
<1>8. QED BY <1>2, <1>3, <1>4, <1>5, <1>6, <1>7

\* What is above it then is above where it goes, or goes with it.
LEMMA MovedAbove ==
    ASSUME NEW s \in Path, NEW q \in Path, NEW p \in Path, IsPrefix(q, s),
           NEW n \in 1 .. Len(Moved(s, q, p)) - 1
    PROVE  \/ n \in 1 .. Len(p) - 1 /\ SubSeq(Moved(s, q, p), 1, n) = SubSeq(p, 1, n)
           \/ \E m \in 1 .. Len(s) - 1 :
                 /\ IsPrefix(q, SubSeq(s, 1, m))
                 /\ SubSeq(Moved(s, q, p), 1, n) = Moved(SubSeq(s, 1, m), q, p)
<1>1. /\ s \in Seq(PathName) /\ q \in Seq(PathName) /\ p \in Seq(PathName)
      /\ Len(s) \in Nat /\ Len(q) \in Nat \ {0} /\ Len(p) \in Nat \ {0}
      /\ Len(q) <= Len(s)
  BY PathFacts DEF IsPrefix
<1>2. /\ Len(Moved(s, q, p)) = Len(p) + Len(s) - Len(q)
      /\ \A k \in 1 .. Len(p) : SubSeq(Moved(s, q, p), 1, k) = SubSeq(p, 1, k)
      /\ \A k \in Len(p) + 1 .. Len(Moved(s, q, p)) :
            SubSeq(Moved(s, q, p), 1, k) = Moved(SubSeq(s, 1, k - Len(p) + Len(q)), q, p)
      /\ Moved(q, q, p) = p
  BY MovedFacts
<1>3. n \in Nat /\ 1 <= n /\ n < Len(p) + Len(s) - Len(q)
  BY <1>1, <1>2
<1>4. CASE n < Len(p)
  <2>1. n \in 1 .. Len(p) - 1 /\ n \in 1 .. Len(p)
    BY <1>1, <1>3, <1>4
  <2>2. QED BY <1>2, <2>1
<1>5. CASE n = Len(p)
  <2>1. n \in 1 .. Len(p)
    BY <1>1, <1>5
  <2>2. SubSeq(Moved(s, q, p), 1, n) = p
    BY <1>1, <1>2, <1>5, <2>1, SubSeqFull
  <2>3. SubSeq(s, 1, Len(q)) = q /\ IsPrefix(q, q)
    <3>1. SubSeq(q, 1, Len(q)) = q
      BY <1>1, SubSeqFull
    <3>2. SubSeq(s, 1, Len(q)) = q
      BY <3>1 DEF IsPrefix
    <3>3. QED BY <3>2, PrefixOrder
  <2>4. Len(q) \in 1 .. Len(s) - 1
    BY <1>1, <1>3, <1>5
  <2>5. QED BY <1>2, <2>2, <2>3, <2>4
<1>6. CASE n > Len(p)
  <2> DEFINE m == n - Len(p) + Len(q)
             u == SubSeq(s, 1, m)
  <2>1. n \in Len(p) + 1 .. Len(Moved(s, q, p))
    BY <1>1, <1>2, <1>3, <1>6
  <2>2. m \in 1 .. Len(s) - 1 /\ m \in 1 .. Len(s) /\ Len(q) <= m /\ m \in Nat
    BY <1>1, <1>3, <1>6
  <2>3. SubSeq(Moved(s, q, p), 1, n) = Moved(u, q, p)
    BY <1>2, <2>1
  <2> HIDE DEF m
  <2>4. u \in Path /\ Len(u) = m /\ \A k \in 1 .. m : u[k] = s[k]
    BY <2>2, PrefixOfPath
  <2>5. \A k \in 1 .. Len(q) : q[k] = s[k]
    BY <1>1, PrefixIs
  <2>6. \A k \in 1 .. Len(q) : k \in 1 .. m
    BY <1>1, <2>2
  <2>7. u \in Seq(PathName)
    BY <2>4, PathFacts
  <2>8. IsPrefix(q, u)
    <3> HIDE DEF u
    <3>1. QED BY <1>1, <2>2, <2>4, <2>5, <2>6, <2>7, PrefixIs
  <2>9. QED BY <2>2, <2>3, <2>8
<1>7. QED BY <1>1, <1>3, <1>4, <1>5, <1>6

\* The edits there are, and where they may be made.
LEMMA EditFacts ==
    ASSUME NEW hist, NEW t, IsTree(t), NEW e \in Edits(hist, t)
    PROVE  /\ e.path \in Path
           /\ e.op # "delete" => Len(e.path) = 1 \/ IsDir(t, Front(e.path))
           /\ \/ e.op = "put" /\ ~ IsDir(t, e.path)
              \/ e.op = "mkdir" /\ e.path \in DirPath /\ e.path \notin DOMAIN t
              \/ e.op = "delete" /\ e.path \in DOMAIN t /\ e.from = NoPath
              \/ /\ e.op = "copy" /\ e.path \notin DOMAIN t
                 /\ e.at \in DOMAIN hist /\ e.from \in Path /\ e.from \in DOMAIN hist[e.at]
                 /\ \A s \in Subtree(hist[e.at], e.from) :
                       Moved(s, e.from, e.path)
                         \in (IF IsDir(hist[e.at], s) THEN DirPath ELSE FilePath)
<1> DEFINE there == {p \in Path : Len(p) = 1 \/ IsDir(t, Front(p))}
           free  == there \ DOMAIN t
           fits(p, q, at) ==
               \A s \in Subtree(hist[at], q) :
                   Moved(s, q, p) \in (IF IsDir(hist[at], s) THEN DirPath ELSE FilePath)
           edit(op, p, q, at) == [op |-> op, path |-> p, from |-> q, at |-> at]
           sources == {x \in Path \X DOMAIN hist : x[1] \in DOMAIN hist[x[2]]}
<1>1. \/ e \in {edit("put", p, NoPath, 0) : p \in {p \in there \cap FilePath : ~ IsDir(t, p)}}
      \/ e \in {edit("mkdir", p, NoPath, 0) : p \in free \cap DirPath}
      \/ e \in {edit("delete", p, NoPath, 0) : p \in DOMAIN t}
      \/ e \in UNION {{edit("copy", p, x[1], x[2]) : p \in {p \in free : fits(p, x[1], x[2])}} :
                        x \in sources}
  BY DEF Edits
<1>2. CASE e \in {edit("put", p, NoPath, 0) : p \in {p \in there \cap FilePath : ~ IsDir(t, p)}}
  <2>1. PICK p \in there : ~ IsDir(t, p) /\ e = edit("put", p, NoPath, 0)
    BY <1>2
  <2>2. QED BY <2>1
<1>3. CASE e \in {edit("mkdir", p, NoPath, 0) : p \in free \cap DirPath}
  <2>1. PICK p \in free \cap DirPath : e = edit("mkdir", p, NoPath, 0)
    BY <1>3
  <2>2. QED BY <2>1
<1>4. CASE e \in {edit("delete", p, NoPath, 0) : p \in DOMAIN t}
  <2>1. PICK p \in DOMAIN t : e = edit("delete", p, NoPath, 0)
    BY <1>4
  <2>2. p \in Path
    BY DEF IsTree
  <2>3. QED BY <2>1, <2>2
<1>5. CASE e \in UNION {{edit("copy", p, x[1], x[2]) : p \in {p \in free : fits(p, x[1], x[2])}} :
                          x \in sources}
  <2>1. PICK x \in sources, p \in free : fits(p, x[1], x[2]) /\ e = edit("copy", p, x[1], x[2])
    BY <1>5
  <2>2. /\ x[2] \in DOMAIN hist /\ x[1] \in Path /\ x[1] \in DOMAIN hist[x[2]]
        /\ p \in Path /\ p \notin DOMAIN t /\ (Len(p) = 1 \/ IsDir(t, Front(p)))
    BY <2>1
  <2> HIDE DEF sources, free
  <2>3. e.op = "copy" /\ e.path = p /\ e.from = x[1] /\ e.at = x[2]
    BY <2>1
  <2>4. \A s \in Subtree(hist[e.at], e.from) :
           Moved(s, e.from, e.path) \in (IF IsDir(hist[e.at], s) THEN DirPath ELSE FilePath)
    BY <2>1, <2>3
  <2>5. QED BY <2>2, <2>3, <2>4
<1>6. QED BY <1>1, <1>2, <1>3, <1>4, <1>5

\* The tree t with what `old` has at or below `from`, under the name p.
Copied(t, old, from, p) ==
    LET copied == {Moved(s, from, p) : s \in Subtree(old, from)} IN
    [q \in copied \cup DOMAIN t |-> IF q \in copied THEN old[Moved(q, p, from)] ELSE t[q]]

\* A copy to where nothing is leaves a tree.
LEMMA CopyKeepsTree ==
    ASSUME NEW t, IsTree(t), NEW old, IsTree(old), NEW from \in Path, from \in DOMAIN old,
           NEW p \in Path, p \notin DOMAIN t,
           \A n \in 1 .. Len(p) - 1 : IsDir(t, SubSeq(p, 1, n)),
           \A s \in Subtree(old, from) :
               Moved(s, from, p) \in (IF IsDir(old, s) THEN DirPath ELSE FilePath)
    PROVE  /\ IsTree(Copied(t, old, from, p))
           /\ p \in DOMAIN Copied(t, old, from, p)
           /\ DOMAIN t \subseteq DOMAIN Copied(t, old, from, p)
           /\ \A q \in DOMAIN Copied(t, old, from, p) : q \in DOMAIN t \/ IsPrefix(p, q)
           /\ \A q \in DOMAIN t : IsDir(t, q) => IsDir(Copied(t, old, from, p), q)
<1> DEFINE new == Copied(t, old, from, p)
           copied == {Moved(s, from, p) : s \in Subtree(old, from)}
<1>1. p \in Seq(PathName) /\ Len(p) \in Nat \ {0}
  BY PathFacts
<1>2. new = [q \in copied \cup DOMAIN t |->
                IF q \in copied THEN old[Moved(q, p, from)] ELSE t[q]]
  BY DEF Copied
<1>3. \A s \in Subtree(old, from) : s \in Path /\ s \in DOMAIN old /\ IsPrefix(from, s)
  BY DEF Subtree, IsTree
<1>4. ASSUME NEW s \in Subtree(old, from)
      PROVE  LET q == Moved(s, from, p) IN
             /\ q \in Path /\ IsPrefix(p, q) /\ q \in DOMAIN new
             /\ new[q] = Dir => q \in DirPath
             /\ IsDir(old, s) => IsDir(new, q)
  <2> DEFINE q == Moved(s, from, p)
  <2>1. Moved(q, p, from) = s /\ IsPrefix(p, q)
    BY <1>3, MovedFacts
  <2>2. q \in copied
    OBVIOUS
  <2>3. q \in (IF IsDir(old, s) THEN DirPath ELSE FilePath)
    OBVIOUS
  <2>4. q \in Path
    BY <2>3, SvnRepositoryAssumption
  <2>5. new[q] = old[s] /\ q \in DOMAIN new
    <3> HIDE DEF q, new, copied
    <3>1. QED BY <1>2, <2>1, <2>2
  <2>6. s \in DOMAIN old
    BY <1>3
  <2> HIDE DEF q, new, copied
  <2>7. (new[q] = Dir => IsDir(old, s)) /\ (IsDir(old, s) => IsDir(new, q))
    BY <2>5, <2>6 DEF IsDir
  <2>8. new[q] = Dir => q \in DirPath
    BY <2>3, <2>7
  <2>9. QED BY <2>1, <2>4, <2>5, <2>7, <2>8 DEF q
<1>5. \A q \in copied : q \in Path /\ IsPrefix(p, q) /\ (new[q] = Dir => q \in DirPath)
  BY <1>4
<1>6. \A q \in DOMAIN t : ~ IsPrefix(p, q)
  <2>1. SUFFICES ASSUME NEW q \in DOMAIN t, IsPrefix(p, q) PROVE FALSE
    OBVIOUS
  <2>2. q = p \/ IsDir(t, p)
    BY <2>1, TreeAbove
  <2>3. QED BY <2>1, <2>2 DEF IsDir
<1>7. \A q \in DOMAIN t : q \notin copied
  BY <1>5, <1>6
<1>8. DOMAIN new = copied \cup DOMAIN t /\ \A q \in DOMAIN t : new[q] = t[q]
  <2> HIDE DEF new, copied
  <2>1. QED BY <1>2, <1>7
<1>9. \A q \in DOMAIN t : IsDir(t, q) => IsDir(new, q)
  <2> HIDE DEF new, copied
  <2>1. QED BY <1>8 DEF IsDir
<1>10. p \in copied
  <2>1. IsPrefix(from, from)
    BY PrefixOrder
  <2>2. from \in Subtree(old, from)
    BY <2>1 DEF Subtree
  <2>3. Moved(from, from, p) = p
    BY <2>1, MovedFacts
  <2>4. QED BY <2>2, <2>3
<1>11. ASSUME NEW s \in Subtree(old, from), NEW n \in 1 .. Len(Moved(s, from, p)) - 1
       PROVE  IsDir(new, SubSeq(Moved(s, from, p), 1, n))
  <2>1. s \in Path /\ s \in DOMAIN old /\ IsPrefix(from, s)
    BY <1>3
  <2>2. CASE n \in 1 .. Len(p) - 1 /\ SubSeq(Moved(s, from, p), 1, n) = SubSeq(p, 1, n)
    <3>1. IsDir(t, SubSeq(p, 1, n))
      BY <2>2
    <3>2. IsDir(new, SubSeq(p, 1, n))
      BY <1>9, <3>1 DEF IsDir
    <3>3. QED BY <2>2, <3>2
  <2>3. CASE \E m \in 1 .. Len(s) - 1 :
                /\ IsPrefix(from, SubSeq(s, 1, m))
                /\ SubSeq(Moved(s, from, p), 1, n) = Moved(SubSeq(s, 1, m), from, p)
    <3>1. PICK m \in 1 .. Len(s) - 1 :
             /\ IsPrefix(from, SubSeq(s, 1, m))
             /\ SubSeq(Moved(s, from, p), 1, n) = Moved(SubSeq(s, 1, m), from, p)
      BY <2>3
    <3>2. IsDir(old, SubSeq(s, 1, m))
      BY <2>1 DEF IsTree
    <3>3. SubSeq(s, 1, m) \in Subtree(old, from)
      BY <3>1, <3>2 DEF Subtree, IsDir
    <3>4. IsDir(new, Moved(SubSeq(s, 1, m), from, p))
      BY <1>4, <3>2, <3>3
    <3>5. QED BY <3>1, <3>4
  <2>4. QED BY <2>1, <2>2, <2>3, MovedAbove
<1>12. IsTree(new)
  <2>1. DOMAIN new \subseteq Path
    BY <1>5, <1>8 DEF IsTree
  <2>2. ASSUME NEW q \in DOMAIN new
        PROVE  /\ new[q] = Dir => q \in DirPath
               /\ \A n \in 1 .. Len(q) - 1 : IsDir(new, SubSeq(q, 1, n))
    <3>1. CASE q \in copied
      BY <1>5, <1>11, <3>1
    <3>2. CASE q \in DOMAIN t
      <4>1. \A n \in 1 .. Len(q) - 1 : IsDir(t, SubSeq(q, 1, n))
        BY <3>2 DEF IsTree
      <4>2. \A n \in 1 .. Len(q) - 1 : IsDir(new, SubSeq(q, 1, n))
        BY <1>9, <4>1 DEF IsDir
      <4>3. new[q] = t[q]
        BY <1>8, <3>2
      <4>4. QED BY <3>2, <4>2, <4>3 DEF IsTree
    <3>3. QED BY <1>8, <3>1, <3>2
  <2>3. QED BY <2>1, <2>2 DEF IsTree
<1> HIDE DEF new, copied
<1>13. QED BY <1>5, <1>8, <1>9, <1>10, <1>12 DEF new

\* What an edit makes of a tree is a tree: a deletion takes what is at or below its path,
\* anything else leaves all that is there, with the directories, and adds at or below its path.
LEMMA EditKeepsTree ==
    ASSUME NEW hist, NEW t, IsTree(t), \A r \in DOMAIN hist : IsTree(hist[r]),
           NEW e \in Edits(hist, t)
    PROVE  LET new == EditedTree(hist, t, e) IN
           /\ IsTree(new)
           /\ e.op = "delete" => /\ DOMAIN new = {q \in DOMAIN t : ~ IsPrefix(e.path, q)}
                                 /\ \A q \in DOMAIN new : IsDir(t, q) => IsDir(new, q)
           /\ e.op # "delete" => /\ e.path \in DOMAIN new
                                 /\ DOMAIN t \subseteq DOMAIN new
                                 /\ \A q \in DOMAIN new : q \in DOMAIN t \/ IsPrefix(e.path, q)
                                 /\ \A q \in DOMAIN t : IsDir(t, q) => IsDir(new, q)
           /\ \A n \in 1 .. Len(e.path) - 1 : IsDir(new, SubSeq(e.path, 1, n))
<1> DEFINE new == EditedTree(hist, t, e)
           p == e.path
<1>1. p \in Path /\ Len(p) \in Nat \ {0} /\ p \in Seq(PathName)
  BY EditFacts, PathFacts
<1>2. ASSUME e.op # "delete"
      PROVE  \A n \in 1 .. Len(p) - 1 : IsDir(t, SubSeq(p, 1, n))
  BY <1>1, <1>2, EditFacts, TreeAbove
<1>3. CASE e.op = "put"
  <2>1. new = Put(t, p, <<p, Len(hist) + 1>>)
    BY <1>3 DEF EditedTree
  <2>2. DOMAIN new = DOMAIN t \cup {p} /\ \A q \in DOMAIN new : q # p => new[q] = t[q]
    BY <2>1 DEF Put
  <2>3. new[p] # Dir
    BY <2>1 DEF Put, Dir
  <2>4. ~ IsDir(t, p)
    BY <1>3, EditFacts
  <2>5. \A q \in DOMAIN t : IsDir(t, q) => IsDir(new, q)
    BY <2>2, <2>4 DEF IsDir
  <2>6. \A n \in 1 .. Len(p) - 1 : IsDir(new, SubSeq(p, 1, n))
    BY <1>2, <1>3, <2>5 DEF IsDir
  <2>7. IsTree(new)
    <3>1. DOMAIN new \subseteq Path
      BY <1>1, <2>2 DEF IsTree
    <3>2. ASSUME NEW q \in DOMAIN new
          PROVE  /\ new[q] = Dir => q \in DirPath
                 /\ \A n \in 1 .. Len(q) - 1 : IsDir(new, SubSeq(q, 1, n))
      <4>1. CASE q = p
        BY <2>3, <2>6, <4>1
      <4>2. CASE q # p
        <5>1. q \in DOMAIN t /\ new[q] = t[q]
          BY <2>2, <4>2
        <5>2. \A n \in 1 .. Len(q) - 1 : IsDir(t, SubSeq(q, 1, n))
          BY <5>1 DEF IsTree
        <5>3. \A n \in 1 .. Len(q) - 1 : IsDir(new, SubSeq(q, 1, n))
          BY <2>5, <5>2 DEF IsDir
        <5>4. QED BY <5>1, <5>3 DEF IsTree
      <4>3. QED BY <4>1, <4>2
    <3>3. QED BY <3>1, <3>2 DEF IsTree
  <2>8. IsPrefix(p, p)
    BY <1>1, PrefixOrder
  <2>9. QED BY <1>3, <2>2, <2>5, <2>6, <2>7, <2>8
<1>4. CASE e.op = "mkdir"
  <2>1. new = Put(t, p, Dir)
    BY <1>4 DEF EditedTree
  <2>2. /\ DOMAIN new = DOMAIN t \cup {p} /\ \A q \in DOMAIN new : q # p => new[q] = t[q]
        /\ new[p] = Dir
    BY <2>1 DEF Put
  <2>3. p \in DirPath /\ p \notin DOMAIN t
    BY <1>4, EditFacts
  <2>5. \A q \in DOMAIN t : IsDir(t, q) => IsDir(new, q)
    BY <2>2 DEF IsDir
  <2>6. \A n \in 1 .. Len(p) - 1 : IsDir(new, SubSeq(p, 1, n))
    BY <1>2, <1>4, <2>5 DEF IsDir
  <2>7. IsTree(new)
    <3>1. DOMAIN new \subseteq Path
      BY <1>1, <2>2 DEF IsTree
    <3>2. ASSUME NEW q \in DOMAIN new
          PROVE  /\ new[q] = Dir => q \in DirPath
                 /\ \A n \in 1 .. Len(q) - 1 : IsDir(new, SubSeq(q, 1, n))
      <4>1. CASE q = p
        BY <2>3, <2>6, <4>1
      <4>2. CASE q # p
        <5>1. q \in DOMAIN t /\ new[q] = t[q]
          BY <2>2, <4>2
        <5>2. \A n \in 1 .. Len(q) - 1 : IsDir(t, SubSeq(q, 1, n))
          BY <5>1 DEF IsTree
        <5>3. \A n \in 1 .. Len(q) - 1 : IsDir(new, SubSeq(q, 1, n))
          BY <2>5, <5>2 DEF IsDir
        <5>4. QED BY <5>1, <5>3 DEF IsTree
      <4>3. QED BY <4>1, <4>2
    <3>3. QED BY <3>1, <3>2 DEF IsTree
  <2>8. IsPrefix(p, p)
    BY <1>1, PrefixOrder
  <2>9. QED BY <1>4, <2>2, <2>5, <2>6, <2>7, <2>8
<1>5. CASE e.op = "delete"
  <2>1. new = Restrict(t, DOMAIN t \ Subtree(t, p))
    BY <1>5 DEF EditedTree
  <2>2. DOMAIN new = {q \in DOMAIN t : ~ IsPrefix(p, q)} /\ \A q \in DOMAIN new : new[q] = t[q]
    BY <2>1 DEF Restrict, Subtree
  <2>3. \A q \in DOMAIN new : IsDir(t, q) => IsDir(new, q)
    BY <2>2 DEF IsDir
  <2>4. p \in DOMAIN t
    BY <1>5, EditFacts
  <2>5. ASSUME NEW q \in DOMAIN t, IsPrefix(p, q) => q = p, NEW n \in 1 .. Len(q) - 1
        PROVE  IsDir(new, SubSeq(q, 1, n))
    <3>1. q \in Path /\ Len(q) \in Nat /\ n \in 1 .. Len(q)
      BY <2>5, PathFacts DEF IsTree
    <3>2. /\ SubSeq(q, 1, n) \in Path /\ IsPrefix(SubSeq(q, 1, n), q)
          /\ Len(SubSeq(q, 1, n)) = n
      BY <3>1, PrefixOfPath
    <3>3. IsDir(t, SubSeq(q, 1, n))
      BY <2>5 DEF IsTree
    <3>4. ~ IsPrefix(p, SubSeq(q, 1, n))
      <4>1. SUFFICES ASSUME IsPrefix(p, SubSeq(q, 1, n)) PROVE FALSE
        OBVIOUS
      <4>2. IsPrefix(p, q)
        BY <1>1, <3>1, <3>2, <4>1, PrefixOrder
      <4>3. p = q /\ Len(p) <= n
        BY <2>5, <3>2, <4>1, <4>2 DEF IsPrefix
      <4>4. QED BY <2>5, <3>1, <4>3
    <3>5. QED BY <2>2, <2>3, <3>3, <3>4 DEF IsDir
  <2>6. \A n \in 1 .. Len(p) - 1 : IsDir(new, SubSeq(p, 1, n))
    BY <2>4, <2>5
  <2>7. IsTree(new)
    <3>1. DOMAIN new \subseteq Path
      BY <2>2 DEF IsTree
    <3>2. ASSUME NEW q \in DOMAIN new
          PROVE  /\ new[q] = Dir => q \in DirPath
                 /\ \A n \in 1 .. Len(q) - 1 : IsDir(new, SubSeq(q, 1, n))
      <4>1. q \in DOMAIN t /\ new[q] = t[q] /\ ~ IsPrefix(p, q)
        BY <2>2
      <4>2. \A n \in 1 .. Len(q) - 1 : IsDir(new, SubSeq(q, 1, n))
        BY <2>5, <4>1
      <4>3. QED BY <4>1, <4>2 DEF IsTree
    <3>3. QED BY <3>1, <3>2 DEF IsTree
  <2>8. QED BY <1>5, <2>2, <2>3, <2>6, <2>7
<1>6. CASE e.op = "copy"
  <2>1. /\ p \notin DOMAIN t /\ e.from \in Path /\ e.from \in DOMAIN hist[e.at]
        /\ IsTree(hist[e.at])
        /\ \A s \in Subtree(hist[e.at], e.from) :
              Moved(s, e.from, p) \in (IF IsDir(hist[e.at], s) THEN DirPath ELSE FilePath)
    BY <1>6, EditFacts
  <2>2. new = Copied(t, hist[e.at], e.from, p)
    BY <1>6 DEF EditedTree, Copied
  <2>3. \A n \in 1 .. Len(p) - 1 : IsDir(t, SubSeq(p, 1, n))
    BY <1>2, <1>6
  <2> HIDE DEF new, p
  <2>4. /\ IsTree(new) /\ p \in DOMAIN new /\ DOMAIN t \subseteq DOMAIN new
        /\ \A q \in DOMAIN new : q \in DOMAIN t \/ IsPrefix(p, q)
        /\ \A q \in DOMAIN t : IsDir(t, q) => IsDir(new, q)
    BY <1>1, <2>1, <2>2, <2>3, CopyKeepsTree
  <2>5. \A n \in 1 .. Len(p) - 1 : IsDir(new, SubSeq(p, 1, n))
    BY <2>3, <2>4 DEF IsDir
  <2>6. QED BY <1>6, <2>4, <2>5 DEF p, new
<1>7. QED BY <1>3, <1>4, <1>5, <1>6, EditFacts

-----------------------------------------------------------------------------
(* The invariant *)

IsSeq(s) == \E S : s \in Seq(S)

Kinds == {"add", "modify", "replace", "delete"}

\* The trees; what is exported is the last of them.
TreesOK ==
    /\ IsTree(tree)
    /\ IsSeq(svn) /\ \A r \in DOMAIN svn : IsTree(svn[r])
    /\ phase # "edit" => svn # <<>> /\ svn[Len(svn)] = tree

\* What is deleted is gone, what is changed otherwise is there, and what is above either
\* is there; a deletion has a revision before it.
ChangesOK ==
    /\ DOMAIN changes \subseteq Path
    /\ \A p \in DOMAIN changes :
          /\ changes[p].kind \in Kinds
          /\ changes[p].kind # "delete" => p \in DOMAIN tree
          /\ changes[p].kind = "delete" =>
                /\ p \notin DOMAIN tree /\ changes[p].from = NoPath
                /\ Len(svn) > IF phase = "edit" THEN 0 ELSE 1
          /\ \A n \in 1 .. Len(p) - 1 : IsDir(tree, SubSeq(p, 1, n))

\* An item of the walk, and the change it comes from.
ItemOK(it) ==
    /\ it.path \in Path /\ it.kind \in Kinds
    /\ it.dir \in BOOLEAN /\ (it.dir => it.path \in DirPath)
    /\ it.kind # "delete" => it.path \in DOMAIN tree
    /\ it.kind = "delete" => it.path \notin DOMAIN tree /\ it.from = NoPath /\ Len(svn) > 1
    /\ \E c \in DOMAIN changes : IsPrefix(c, it.path)

\* The deletions that are still to come.
Deletions == {work[i].path : i \in {i \in DOMAIN work : work[i].kind = "delete"}}

WorkOK ==
    /\ phase \in {"edit", "walk", "failed"}
    /\ IsSeq(work)
    /\ phase = "edit" => work = <<>>
    /\ \A i \in DOMAIN work : ItemOK(work[i])

\* No deletion is about what another one is about.
Apart ==
    \A i, j \in DOMAIN work :
        /\ work[i].kind = "delete" /\ work[j].kind = "delete"
        /\ IsPrefix(work[i].path, work[j].path)
        => i = j

\* The revision changed something at, below or above the directory d of a branch.
Touched(d) ==
    /\ d \in DirPath /\ IsBranch(d)
    /\ \E p \in DOMAIN changes : IsPrefix(d, p) \/ IsPrefix(p, d)

\* A branch that is deleted is gone, and no deletion to come is about it.
DeletedOK ==
    /\ IsSeq(deletedBranches)
    /\ \A i \in DOMAIN deletedBranches : \E d \in DirPath :
          /\ Touched(d) /\ deletedBranches[i] = KeyAt(d) /\ d \notin DOMAIN tree
          /\ \A w \in Deletions : ~ IsPrefix(w, d) /\ ~ IsPrefix(d, w)

\* If each branch has one directory, none is deleted twice, or deleted and changed.
DeletedOnce ==
    OneDirectory =>
        \A i \in DOMAIN deletedBranches :
            /\ \A j \in DOMAIN deletedBranches : deletedBranches[i] = deletedBranches[j] => i = j
            /\ \A t \in transactions : KeyOf(t) # deletedBranches[i]

\* A branch that is reset is there.
ResetOK ==
    /\ IsSeq(resetBranches)
    /\ \A i \in DOMAIN resetBranches : \E d \in DirPath :
          Touched(d) /\ resetBranches[i].branch = KeyAt(d) /\ d \in DOMAIN tree

\* The name a transaction for the branch with directory d has.
NameAt(d) == <<FindMatchRule(d, TRUE, "none").repository, KeyAt(d)[2]>>

\* A branch with a transaction is there, or no deletion to come is of all of it.
TransactionOK(t) ==
    /\ t = [key |-> t.key, deleted |-> t.deleted, modified |-> t.modified, merges |-> t.merges]
    /\ \E d \in DirPath :
          /\ Touched(d) /\ t.key = NameAt(d)
          /\ d \in DOMAIN tree \/ \A w \in Deletions : ~ IsPrefix(w, d)

\* A merge is of a commit another branch of the repository has.
MergeOK(t, m) ==
    /\ m[1] \in Branches /\ m[1] # KeyOf(t) /\ m[1][1] = KeyOf(t)[1]
    /\ \E i \in DOMAIN branches[m[1]] :
          branches[m[1]][i].has /\ branches[m[1]][i].rev = m[2]

TransactionsOK ==
    /\ IsFiniteSet(transactions)
    /\ \A t, u \in transactions : t.key = u.key => t = u
    /\ \A t \in transactions : TransactionOK(t) /\ \A m \in t.merges : MergeOK(t, m)

\* In between revisions there is nothing in the queues.
QueuesEmpty ==
    phase = "edit" => deletedBranches = <<>> /\ resetBranches = <<>> /\ transactions = {}

BranchesOK ==
    /\ DOMAIN git = Branches /\ DOMAIN branches = Branches
    /\ \A k \in Branches : IsSeq(branches[k])

IInv ==
    /\ TreesOK
    /\ ChangesOK
    /\ WorkOK
    /\ Apart
    /\ DeletedOK
    /\ DeletedOnce
    /\ ResetOK
    /\ TransactionsOK
    /\ QueuesEmpty
    /\ BranchesOK

-----------------------------------------------------------------------------
(* Items, their branches and transactions *)

\* A path is at or below what is above it.
LEMMA InTree ==
    ASSUME TreesOK, NEW p \in DOMAIN tree, NEW d \in Path, IsPrefix(d, p)
    PROVE  d \in DOMAIN tree
<1>1. IsTree(tree)
  BY DEF TreesOK
<1>2. d = p \/ IsDir(tree, d)
  BY <1>1, TreeAbove
<1>3. QED BY <1>2 DEF IsDir

\* Where a rule sends a path.
LEMMA SplitIs ==
    ASSUME NEW rule, NEW p
    PROVE  /\ Split(rule, p).repository = rule.repository
           /\ Split(rule, p).effective = Effective(rule.repository)
BY DEF Split

\* The branch behind a directory.
LEMMA KeyAtIs ==
    ASSUME NEW d
    PROVE  LET rule == FindMatchRule(d, TRUE, "none") IN
           KeyAt(d) = <<Effective(rule.repository), Split(rule, d).branch>>
<1>1. Target([path |-> d, dir |-> TRUE]) = Split(FindMatchRule(d, TRUE, "none"), d)
  BY DEF Target, RuleFor
<1>2. QED BY <1>1, SplitIs DEF KeyAt, BranchKey

\* It is one the rules can name.
LEMMA KeyIsBranch ==
    ASSUME NEW d \in DirPath, IsBranch(d)
    PROVE  KeyAt(d) \in Branches
<1> DEFINE rule == FindMatchRule(d, TRUE, "none")
<1>1. rule.action = "export"
  BY DEF IsBranch
<1>2. NoRule.action = "none"
  BY DEF NoRule
<1>3. PICK i \in DOMAIN Rules : rule = Rules[i] /\ Matches(Rules[i], d, TRUE)
  <2> HIDE DEF rule
  <2>1. rule # NoRule
    BY <1>1, <1>2
  <2>2. QED BY <2>1, RuleFound DEF rule
<1>4. KeyAt(d) = <<Split(Rules[i], d).effective, Split(Rules[i], d).branch>>
  BY <1>3, KeyAtIs, SplitIs
<1>5. KeyAt(d) \in {<<Split(Rules[i], p).effective, Split(Rules[i], p).branch>> :
                       p \in {p \in DirPath : Matches(Rules[i], p, TRUE)}}
  BY <1>3, <1>4
<1>6. i \in {j \in DOMAIN Rules : Rules[j].action = "export"}
  BY <1>1, <1>3
<1>7. QED BY <1>5, <1>6 DEF Branches

\* The directory of the branch an item is exported to.
LEMMA ItemDirectory ==
    ASSUME TreesOK, ChangesOK, NEW it, ItemOK(it), Exports(it)
    PROVE  \E d \in DirPath :
              /\ Touched(d) /\ IsPrefix(d, it.path)
              /\ KeyAt(d) = BranchKey(Target(it)) /\ KeyAt(d) \in Branches
              /\ NameAt(d) = <<Target(it).repository, Target(it).branch>>
              /\ Target(it).svnprefix = d
              /\ it.kind # "delete" => d \in DOMAIN tree
<1> DEFINE d == DirOf(it.path, it.dir)
           rule == FindMatchRule(it.path, it.dir, "none")
<1>1. /\ it.path \in Path /\ it.dir \in BOOLEAN /\ (it.dir => it.path \in DirPath)
      /\ it.kind # "delete" => it.path \in DOMAIN tree
      /\ rule.action = "export" /\ RuleFor(it) = rule
  BY DEF ItemOK, Exports, RuleFor
<1>2. /\ d \in DirPath /\ IsPrefix(d, it.path)
      /\ FindMatchRule(d, TRUE, "none") = rule /\ Len(d) = Len(rule.pattern)
      /\ Split(rule, it.path).branch = Split(rule, d).branch
  BY <1>1, DirectoryMatched
<1>3. d \in Path /\ DirPath \subseteq Path
  BY <1>2, PathFacts
<1>4. Target(it) = Split(rule, it.path) /\ Target(it).svnprefix = d
  BY <1>1 DEF Target, Split, DirOf
<1> HIDE DEF d, rule
<1>5. KeyAt(d) = <<Effective(rule.repository), Split(rule, d).branch>>
  BY <1>2, KeyAtIs
<1>6. KeyAt(d) = BranchKey(Target(it)) /\ NameAt(d) = <<Target(it).repository, Target(it).branch>>
  <2>1. /\ Target(it).repository = rule.repository
        /\ Target(it).effective = Effective(rule.repository)
    BY <1>4, SplitIs
  <2>2. KeyAt(d)[2] = Split(rule, d).branch
    BY <1>5
  <2>3. QED BY <1>2, <1>4, <1>5, <2>1, <2>2 DEF NameAt, BranchKey
<1>7. IsBranch(d)
  BY <1>1, <1>2 DEF IsBranch
<1>8. Touched(d)
  <2>1. PICK c \in DOMAIN changes : IsPrefix(c, it.path)
    BY DEF ItemOK
  <2>2. IsPrefix(c, d) \/ IsPrefix(d, c)
    <3>1. c \in Path
      BY DEF ChangesOK
    <3>2. QED BY <1>1, <1>2, <1>3, <2>1, <3>1, PrefixOrder
  <2>3. QED BY <1>2, <1>7, <2>1, <2>2 DEF Touched
<1>9. KeyAt(d) \in Branches
  BY <1>2, <1>7, KeyIsBranch
<1>10. it.kind # "delete" => d \in DOMAIN tree
  BY <1>1, <1>2, <1>3, InTree
<1>11. QED BY <1>2, <1>4, <1>6, <1>8, <1>9, <1>10

\* A transaction commits to the branch of the directory it is named for.
LEMMA CommitsTo ==
    ASSUME NEW t, NEW d, t.key = NameAt(d)
    PROVE  KeyOf(t) = KeyAt(d)
<1>1. /\ KeyAt(d)[1] = Effective(FindMatchRule(d, TRUE, "none").repository)
      /\ KeyAt(d) = <<KeyAt(d)[1], KeyAt(d)[2]>>
  BY KeyAtIs
<1>2. t.key[1] = FindMatchRule(d, TRUE, "none").repository /\ t.key[2] = KeyAt(d)[2]
  BY DEF NameAt
<1>3. QED BY <1>1, <1>2 DEF KeyOf

\* A commit that is found is one of the branch.
LEMMA CommitFound ==
    ASSUME BranchesOK, NEW k, NEW at, CommitAt(k, at).has
    PROVE  /\ k \in Branches
           /\ \E i \in DOMAIN branches[k] :
                 branches[k][i].has /\ branches[k][i].rev = CommitAt(k, at).rev
<1> DEFINE before == {i \in DOMAIN CommitsOf(k) : branches[k][i].rev <= at}
<1>1. before # {}
  BY DEF CommitAt
<1>2. k \in Branches /\ CommitsOf(k) = branches[k]
  BY <1>1 DEF CommitsOf
<1>3. PICK S : branches[k] \in Seq(S)
  BY <1>2 DEF BranchesOK, IsSeq
<1>4. Len(branches[k]) \in Nat /\ before \subseteq 1 .. Len(branches[k])
  BY <1>2, <1>3
<1>5. PICK i : i = CHOOSE h \in before : \A j \in before : j <= h
  OBVIOUS
<1>6. CommitAt(k, at) = branches[k][i]
  BY <1>1, <1>5 DEF CommitAt
<1>7. i \in before
  <2>1. \E j \in before : \A l \in before : l <= j
    <3> HIDE DEF before
    <3>1. QED BY <1>1, <1>4, Greatest
  <2> HIDE DEF before
  <2>2. QED BY <1>5, <2>1
<1>8. i \in DOMAIN branches[k]
  BY <1>2, <1>7
<1>9. QED BY <1>2, <1>6, <1>8

-----------------------------------------------------------------------------
(* What the steps of the walk have in common *)

\* The walk leaves Subversion alone.
LEMMA WalkKeepsTrees ==
    ASSUME TreesOK, ChangesOK, phase = "walk", phase' \in {"walk", "failed"},
           UNCHANGED <<svn, tree, changes>>
    PROVE  TreesOK' /\ ChangesOK' /\ QueuesEmpty'
<1>1. svn' = svn /\ tree' = tree /\ changes' = changes /\ phase # "edit" /\ phase' # "edit"
  OBVIOUS
<1>2. TreesOK'
  BY <1>1 DEF TreesOK
<1>3. ChangesOK'
  BY <1>1 DEF ChangesOK
<1>4. QED BY <1>1, <1>2, <1>3 DEF QueuesEmpty

\* An item that is done with takes its deletion with it.
LEMMA Consumed ==
    ASSUME WorkOK, Apart, work # <<>>, phase' \in {"walk", "failed"}, work' = Tail(work),
           UNCHANGED <<svn, tree, changes>>
    PROVE  /\ ItemOK(Head(work)) /\ WorkOK' /\ Apart' /\ Deletions' \subseteq Deletions
           /\ Head(work).kind = "delete" =>
                 /\ Head(work).path \in Deletions
                 /\ \A w \in Deletions' : /\ ~ IsPrefix(w, Head(work).path)
                                          /\ ~ IsPrefix(Head(work).path, w)
<1>1. PICK S : work \in Seq(S)
  BY DEF WorkOK, IsSeq
<1>2. /\ Len(work) \in Nat \ {0} /\ DOMAIN work = 1 .. Len(work)
      /\ Head(work) = work[1] /\ 1 \in DOMAIN work
      /\ work' \in Seq(S) /\ DOMAIN work' = 1 .. Len(work) - 1
      /\ \A i \in 1 .. Len(work) - 1 : work'[i] = work[i + 1]
  <2>1. work' \in Seq(S) /\ Len(work') = Len(work) - 1
        /\ \A i \in 1 .. Len(work') : work'[i] = work[i + 1]
    BY <1>1, HeadTailProperties
  <2>2. Len(work) \in Nat \ {0} /\ DOMAIN work = 1 .. Len(work) /\ Head(work) = work[1]
    BY <1>1
  <2>3. DOMAIN work' = 1 .. Len(work')
    BY <2>1, LenProperties
  <2>4. QED BY <2>1, <2>2, <2>3
<1>3. \A i \in DOMAIN work' : i + 1 \in DOMAIN work /\ work'[i] = work[i + 1] /\ i + 1 # 1
  BY <1>2
<1>4. \A i \in DOMAIN work : ItemOK(work[i])
  BY DEF WorkOK
<1>5. \A i \in DOMAIN work' : ItemOK(work[i + 1])
  BY <1>3, <1>4
<1>6. WorkOK'
  <2>1. (\A i \in DOMAIN work : ItemOK(work[i]))'
    <3>1. \A it : ItemOK(it) => ItemOK(it)'
      BY DEF ItemOK
    <3>2. QED BY <1>3, <1>5, <3>1
  <2>2. IsSeq(work)'
    BY <1>2 DEF IsSeq
  <2>3. phase' # "edit"
    OBVIOUS
  <2>4. QED BY <2>1, <2>2, <2>3 DEF WorkOK
<1>7. Apart'
  <2>1. \A i, j \in DOMAIN work' :
           /\ work[i + 1].kind = "delete" /\ work[j + 1].kind = "delete"
           /\ IsPrefix(work[i + 1].path, work[j + 1].path)
           => i + 1 = j + 1
    BY <1>3 DEF Apart
  <2>2. \A i, j \in DOMAIN work' : i + 1 = j + 1 => i = j
    BY <1>2
  <2>3. QED BY <1>3, <2>1, <2>2 DEF Apart
<1>8. ASSUME NEW w \in Deletions'
      PROVE  \E i \in DOMAIN work : i # 1 /\ work[i].kind = "delete" /\ work[i].path = w
  <2>1. PICK i \in DOMAIN work' : work'[i].kind = "delete" /\ work'[i].path = w
    BY <1>8 DEF Deletions
  <2>2. QED BY <1>3, <2>1
<1>9. Deletions' \subseteq Deletions
  BY <1>8 DEF Deletions
<1>10. ASSUME Head(work).kind = "delete"
       PROVE  /\ Head(work).path \in Deletions
              /\ \A w \in Deletions' : /\ ~ IsPrefix(w, Head(work).path)
                                       /\ ~ IsPrefix(Head(work).path, w)
  <2>1. Head(work).path \in Deletions
    BY <1>2, <1>10 DEF Deletions
  <2>2. QED BY <1>2, <1>8, <1>10, <2>1 DEF Apart
<1>11. ItemOK(Head(work))
  BY <1>2, <1>4
<1>12. QED BY <1>6, <1>7, <1>9, <1>10, <1>11

\* The deletions to come are those there were, or of what is in one that was.
Finer == \A w \in Deletions' : \E v \in Deletions :
             IsPrefix(v, w) /\ \A d \in Path : IsPrefix(d, w) => d = w \/ IsPrefix(d, v)

\* Fewer deletions are finer.
LEMMA FewerIsFiner ==
    ASSUME WorkOK, Deletions' \subseteq Deletions
    PROVE  Finer
<1>1. Deletions \subseteq Path
  BY DEF Deletions, WorkOK, ItemOK
<1>2. QED BY <1>1, PrefixOrder DEF Finer

\* What the queues say of directories stays true as the deletions become finer.
LEMMA FinerKeeps ==
    ASSUME WorkOK, WorkOK', Finer, UNCHANGED <<tree, changes>>
    PROVE  /\ \A d : Touched(d) => Touched(d)'
           /\ \A d \in DirPath : /\ \A w \in Deletions : ~ IsPrefix(w, d) /\ ~ IsPrefix(d, w)
                              => \A w \in Deletions' : ~ IsPrefix(w, d) /\ ~ IsPrefix(d, w)
           /\ \A t : TransactionOK(t) => TransactionOK(t)'
           /\ ResetOK /\ resetBranches' = resetBranches => ResetOK'
           /\ DeletedOK /\ deletedBranches' = deletedBranches => DeletedOK'
<1>1. DirPath \subseteq Path /\ Deletions \subseteq Path /\ Deletions' \subseteq Path
  BY PathFacts DEF Deletions, WorkOK, ItemOK
<1>2. \A d : Touched(d) => Touched(d)'
  BY DEF Touched
<1>3. ASSUME NEW d \in Path, \A w \in Deletions : ~ IsPrefix(w, d), NEW w \in Deletions'
      PROVE  ~ IsPrefix(w, d)
  <2>1. PICK v \in Deletions : IsPrefix(v, w)
    BY DEF Finer
  <2>2. QED BY <1>1, <1>3, <2>1, PrefixOrder
<1>4. ASSUME NEW d \in Path, \A w \in Deletions : ~ IsPrefix(w, d) /\ ~ IsPrefix(d, w),
             NEW w \in Deletions'
      PROVE  ~ IsPrefix(w, d) /\ ~ IsPrefix(d, w)
  <2>1. PICK v \in Deletions :
           IsPrefix(v, w) /\ (IsPrefix(d, w) => d = w \/ IsPrefix(d, v))
    BY DEF Finer
  <2>2. QED BY <1>3, <1>4, <2>1
<1>5. ASSUME NEW t, TransactionOK(t) PROVE TransactionOK(t)'
  <2>1. PICK d \in DirPath : /\ Touched(d) /\ t.key = NameAt(d)
                             /\ d \in DOMAIN tree \/ \A w \in Deletions : ~ IsPrefix(w, d)
    BY <1>5 DEF TransactionOK
  <2>2. /\ Touched(d)' /\ t.key = NameAt(d)
        /\ d \in DOMAIN tree' \/ \A w \in Deletions' : ~ IsPrefix(w, d)
    BY <1>1, <1>2, <1>3, <2>1
  <2>3. t = [key |-> t.key, deleted |-> t.deleted, modified |-> t.modified, merges |-> t.merges]
    BY <1>5 DEF TransactionOK
  <2>4. QED BY <2>2, <2>3 DEF TransactionOK
<1>6. ASSUME ResetOK, resetBranches' = resetBranches PROVE ResetOK'
  BY <1>2, <1>6 DEF ResetOK
<1>7. ASSUME DeletedOK, deletedBranches' = deletedBranches PROVE DeletedOK'
  <2>1. ASSUME NEW i \in DOMAIN deletedBranches
        PROVE  \E d \in DirPath :
                  /\ Touched(d)' /\ deletedBranches[i] = KeyAt(d) /\ d \notin DOMAIN tree'
                  /\ \A w \in Deletions' : ~ IsPrefix(w, d) /\ ~ IsPrefix(d, w)
    <3>1. PICK d \in DirPath :
             /\ Touched(d) /\ deletedBranches[i] = KeyAt(d) /\ d \notin DOMAIN tree
             /\ \A w \in Deletions : ~ IsPrefix(w, d) /\ ~ IsPrefix(d, w)
      BY <1>7 DEF DeletedOK
    <3>2. QED BY <1>1, <1>2, <1>4, <3>1
  <2>2. QED BY <1>7, <2>1 DEF DeletedOK
<1>8. QED BY <1>1, <1>2, <1>4, <1>5, <1>6, <1>7

\* The revision looked into.
LEMMA RootIs ==
    ASSUME TreesOK, phase = "walk", NEW it, ItemOK(it)
    PROVE  IsTree(RootOf(it)) /\ (it.kind # "delete" => RootOf(it) = tree)
<1>1. PICK S : svn \in Seq(S)
  BY DEF TreesOK, IsSeq
<1>2. /\ DOMAIN svn = 1 .. Len(svn) /\ Len(svn) \in Nat \ {0} /\ svn[Len(svn)] = tree
      /\ \A r \in DOMAIN svn : IsTree(svn[r])
  BY <1>1 DEF TreesOK
<1>3. it.kind = "delete" => Len(svn) > 1
  BY DEF ItemOK
<1>4. CASE it.kind = "delete"
  <2>1. RootOf(it) = svn[Len(svn) - 1] /\ Len(svn) - 1 \in DOMAIN svn
    BY <1>2, <1>3, <1>4 DEF RootOf, revnum
  <2>2. QED BY <1>2, <1>4, <2>1
<1>5. CASE it.kind # "delete"
  <2>1. RootOf(it) = svn[Len(svn)] /\ Len(svn) \in DOMAIN svn
    BY <1>2, <1>5 DEF RootOf, revnum
  <2>2. QED BY <1>2, <2>1
<1>6. QED BY <1>4, <1>5

\* A name further down.
LEMMA OneBelow ==
    ASSUME NEW p \in Path, NEW q \in Path, Front(q) = p
    PROVE  /\ IsPrefix(p, q) /\ Len(q) = Len(p) + 1
           /\ \A d \in Path : IsPrefix(d, q) => d = q \/ IsPrefix(d, p)
<1>1. /\ p \in Seq(PathName) /\ q \in Seq(PathName)
      /\ Len(p) \in Nat \ {0} /\ Len(q) \in Nat \ {0}
  BY PathFacts
<1>2. p = SubSeq(q, 1, Len(q) - 1)
  BY DEF Front
<1>3. Len(q) = Len(p) + 1
  BY <1>1, <1>2
<1>4. \A i \in 1 .. Len(p) : p[i] = q[i]
  BY <1>1, <1>2, <1>3
<1>5. IsPrefix(p, q)
  BY <1>1, <1>3, <1>4, PrefixIs
<1>6. ASSUME NEW d \in Path, IsPrefix(d, q), d # q PROVE IsPrefix(d, p)
  <2>1. Len(d) \in 1 .. Len(q) - 1
    BY <1>6, PrefixOrder
  <2>2. d \in Seq(PathName) /\ \A i \in 1 .. Len(d) : d[i] = q[i]
    <3>1. d \in Seq(PathName)
      BY PathFacts
    <3>2. QED BY <1>1, <1>6, <3>1, PrefixIs
  <2>3. Len(d) <= Len(p) /\ \A i \in 1 .. Len(d) : d[i] = p[i]
    BY <1>1, <1>3, <1>4, <2>1, <2>2
  <2>4. QED BY <1>1, <2>2, <2>3, PrefixIs
<1>7. QED BY <1>3, <1>5, <1>6

\* What the walk finds in a directory.
LEMMA ChildrenFacts ==
    ASSUME TreesOK, ChangesOK, phase = "walk", NEW it, ItemOK(it)
    PROVE  /\ IsSeq(Children(it)) /\ DOMAIN Children(it) = 1 .. Len(Children(it))
           /\ Len(Children(it)) \in Nat
           /\ \A i \in DOMAIN Children(it) :
                 LET child == Children(it)[i] IN
                 /\ ItemOK(child) /\ child.kind = it.kind
                 /\ IsPrefix(it.path, child.path) /\ Len(child.path) = Len(it.path) + 1
                 /\ \A d \in Path : IsPrefix(d, child.path) => d = child.path \/ IsPrefix(d, it.path)
           /\ \A i, j \in DOMAIN Children(it) : Children(it)[i].path = Children(it)[j].path => i = j
<1> DEFINE root == RootOf(it)
           set == {q \in Entries(root, it.path) : ~ Defers(q)}
           names == Listed(set)
           from(q) == IF it.from = NoPath THEN NoPath ELSE Append(it.from, Last(q))
           child(q) == [path |-> q, kind |-> it.kind, at |-> it.at, entry |-> FALSE,
                        from |-> from(q), dir |-> IsDir(root, q)]
<1>1. IsTree(root) /\ (it.kind # "delete" => root = tree)
  BY RootIs
<1>2. /\ names \in Seq(set \cap Path)
      /\ \A i, j \in DOMAIN names : names[i] = names[j] => i = j
  BY ListedFacts
<1>3. /\ Len(names) \in Nat /\ DOMAIN names = 1 .. Len(names)
      /\ \A i \in DOMAIN names : names[i] \in set \cap Path
  <2> HIDE DEF names, set
  <2>1. QED BY <1>2
<1>4. Children(it) = IF ~ IsDir(root, it.path) THEN <<>> ELSE [i \in DOMAIN names |-> child(names[i])]
  BY DEF Children
<1>5. CASE ~ IsDir(root, it.path)
  <2>1. Children(it) = <<>>
    BY <1>4, <1>5
  <2>2. <<>> \in Seq({}) /\ Len(<<>>) = 0 /\ DOMAIN <<>> = 1 .. 0
    OBVIOUS
  <2>3. QED BY <2>1, <2>2 DEF IsSeq
<1>6. CASE IsDir(root, it.path)
  <2>1. Children(it) = [i \in 1 .. Len(names) |-> child(names[i])]
    BY <1>3, <1>4, <1>6
  <2> HIDE DEF names, child
  <2>2. Children(it) \in Seq({child(names[i]) : i \in 1 .. Len(names)})
    BY <1>3, <2>1
  <2>3. Len(Children(it)) = Len(names) /\ DOMAIN Children(it) = 1 .. Len(names)
    BY <1>3, <2>1, <2>2
  <2>4. ASSUME NEW q \in set \cap Path
        PROVE  /\ ItemOK(child(q)) /\ child(q).kind = it.kind /\ child(q).path = q
               /\ IsPrefix(it.path, q) /\ Len(q) = Len(it.path) + 1
               /\ \A d \in Path : IsPrefix(d, q) => d = q \/ IsPrefix(d, it.path)
    <3>1. q \in Path /\ q \in DOMAIN root /\ Front(q) = it.path
      BY DEF Entries
    <3>2. /\ it.path \in Path /\ it.kind \in Kinds
          /\ it.kind = "delete" => it.path \notin DOMAIN tree /\ it.from = NoPath /\ Len(svn) > 1
      BY DEF ItemOK
    <3>3. PICK c \in DOMAIN changes : IsPrefix(c, it.path) /\ c \in Path
      BY DEF ItemOK, ChangesOK
    <3>4. /\ IsPrefix(it.path, q) /\ Len(q) = Len(it.path) + 1
          /\ \A d \in Path : IsPrefix(d, q) => d = q \/ IsPrefix(d, it.path)
      BY <3>1, <3>2, OneBelow
    <3>5. IsPrefix(c, q)
      BY <3>1, <3>2, <3>3, <3>4, PrefixOrder
    <3>6. /\ child(q).path = q /\ child(q).kind = it.kind /\ child(q).dir = IsDir(root, q)
          /\ child(q).from = from(q)
      BY DEF child
    <3>7. IsDir(root, q) \in BOOLEAN /\ (IsDir(root, q) => q \in DirPath)
      BY <1>1, <3>1 DEF IsDir, IsTree
    <3>8. it.kind = "delete" => q \notin DOMAIN tree
      BY <3>2, <3>4, InTree
    <3>9. it.kind # "delete" => q \in DOMAIN tree
      BY <1>1, <3>1
    <3>10. it.kind = "delete" => from(q) = NoPath
      BY <3>2
    <3> HIDE DEF from, root, set
    <3>11. ItemOK(child(q))
      BY <3>1, <3>2, <3>5, <3>6, <3>7, <3>8, <3>9, <3>10 DEF ItemOK
    <3>12. QED BY <3>4, <3>6, <3>11
  <2>5. \A i \in DOMAIN Children(it) : Children(it)[i] = child(names[i]) /\ names[i] \in set \cap Path
    BY <1>3, <2>1, <2>3
  <2>6. IsSeq(Children(it))
    BY <2>2 DEF IsSeq
  <2> HIDE DEF set
  <2>7. \A i, j \in DOMAIN Children(it) : Children(it)[i].path = Children(it)[j].path => i = j
    BY <1>2, <1>3, <2>3, <2>4, <2>5
  <2>8. QED BY <1>3, <2>3, <2>4, <2>5, <2>6, <2>7
<1>7. QED BY <1>5, <1>6

\* A directory that is looked into gives way to what is in it.
LEMMA Recursed ==
    ASSUME TreesOK, ChangesOK, WorkOK, Apart, phase = "walk", phase' = "walk", work # <<>>,
           work' = Children(Head(work)) \o Tail(work), UNCHANGED <<svn, tree, changes>>
    PROVE  WorkOK' /\ Apart' /\ Finer
<1> DEFINE it == Head(work)
           new == Children(it)
           n == Len(new)
<1>1. PICK S : work \in Seq(S)
  BY DEF WorkOK, IsSeq
<1>2. /\ Len(work) \in Nat \ {0} /\ DOMAIN work = 1 .. Len(work)
      /\ it = work[1] /\ 1 \in DOMAIN work
      /\ Tail(work) \in Seq(S) /\ Len(Tail(work)) = Len(work) - 1
      /\ \A i \in 1 .. Len(work) - 1 : Tail(work)[i] = work[i + 1]
  <2>1. Tail(work) \in Seq(S) /\ Len(Tail(work)) = Len(work) - 1
        /\ \A i \in 1 .. Len(Tail(work)) : Tail(work)[i] = work[i + 1]
    BY <1>1, HeadTailProperties
  <2>2. Len(work) \in Nat \ {0} /\ DOMAIN work = 1 .. Len(work) /\ it = work[1]
    BY <1>1
  <2>3. QED BY <2>1, <2>2
<1>3. \A i \in DOMAIN work : ItemOK(work[i])
  BY DEF WorkOK
<1>4. ItemOK(it)
  BY <1>2, <1>3
<1>5. /\ IsSeq(new) /\ DOMAIN new = 1 .. n /\ n \in Nat
      /\ \A i \in DOMAIN new :
            /\ ItemOK(new[i]) /\ new[i].kind = it.kind
            /\ IsPrefix(it.path, new[i].path) /\ Len(new[i].path) = Len(it.path) + 1
            /\ \A d \in Path : IsPrefix(d, new[i].path) => d = new[i].path \/ IsPrefix(d, it.path)
      /\ \A i, j \in DOMAIN new : new[i].path = new[j].path => i = j
  BY <1>4, ChildrenFacts
<1>6. PICK R : new \in Seq(R)
  BY <1>5 DEF IsSeq
<1> HIDE DEF it, new, n
<1>7. /\ work' \in Seq(R \cup S) /\ Len(work') = n + Len(work) - 1
      /\ DOMAIN work' = 1 .. n + Len(work) - 1
      /\ \A i \in 1 .. n + Len(work) - 1 :
            work'[i] = IF i <= n THEN new[i] ELSE Tail(work)[i - n]
  <2>1. new \in Seq(R \cup S) /\ Tail(work) \in Seq(R \cup S)
    BY <1>2, <1>6
  <2>2. work' = new \o Tail(work)
    BY DEF new, it
  <2>3. Len(new) = n
    BY DEF n
  <2>4. /\ work' \in Seq(R \cup S) /\ Len(work') = n + (Len(work) - 1)
        /\ \A i \in 1 .. n + (Len(work) - 1) :
              work'[i] = IF i <= n THEN new[i] ELSE Tail(work)[i - n]
    <3>1. /\ new \o Tail(work) \in Seq(R \cup S)
          /\ Len(new \o Tail(work)) = Len(new) + Len(Tail(work))
          /\ \A i \in 1 .. Len(new) + Len(Tail(work)) : (new \o Tail(work))[i] =
                 IF i <= Len(new) THEN new[i] ELSE Tail(work)[i - Len(new)]
      BY <2>1, ConcatProperties
    <3>2. QED BY <1>2, <2>2, <2>3, <3>1
  <2>5. DOMAIN work' = 1 .. Len(work')
    BY <2>4, LenProperties
  <2>6. n + (Len(work) - 1) = n + Len(work) - 1
    BY <1>2, <1>5
  <2>7. QED BY <2>4, <2>5, <2>6
<1>8. ASSUME NEW i \in DOMAIN work'
      PROVE  \/ i \in 1 .. n /\ i \in DOMAIN new /\ work'[i] = new[i]
             \/ /\ i - n + 1 \in DOMAIN work /\ i - n + 1 # 1 /\ i \notin 1 .. n
                /\ work'[i] = work[i - n + 1]
  <2>1. i \in Nat /\ 1 <= i /\ i <= n + Len(work) - 1
    BY <1>2, <1>5, <1>7
  <2>2. CASE i <= n
    BY <1>5, <1>7, <2>1, <2>2
  <2>3. CASE i > n
    <3>1. i - n \in 1 .. Len(work) - 1 /\ i - n + 1 = (i - n) + 1
      BY <1>2, <1>5, <2>1, <2>3
    <3>2. work'[i] = Tail(work)[i - n]
      BY <1>5, <1>7, <2>1, <2>3
    <3>3. work'[i] = work[i - n + 1]
      BY <1>2, <3>1, <3>2
    <3>4. i - n + 1 \in DOMAIN work /\ i - n + 1 # 1 /\ i \notin 1 .. n
      BY <1>2, <1>5, <2>1, <2>3, <3>1
    <3>5. QED BY <3>3, <3>4
  <2>4. QED BY <1>5, <2>1, <2>2, <2>3
<1>9. WorkOK'
  <2>1. \A i \in DOMAIN work' : ItemOK(new[i]) \/ ItemOK(work[i - n + 1])
    BY <1>3, <1>5, <1>8
  <2>2. (\A i \in DOMAIN work : ItemOK(work[i]))'
    <3>1. \A x : ItemOK(x) => ItemOK(x)'
      BY DEF ItemOK
    <3>2. ASSUME NEW i \in DOMAIN work' PROVE \E x : ItemOK(x) /\ work'[i] = x
      BY <1>3, <1>5, <1>8
    <3>3. QED BY <3>1, <3>2
  <2>3. IsSeq(work)'
    BY <1>7 DEF IsSeq
  <2>4. QED BY <2>2, <2>3 DEF WorkOK
<1>10. \A i \in DOMAIN work' : work'[i].path \in Path
  BY <1>9 DEF WorkOK, ItemOK
<1>11. \A i \in DOMAIN work : work[i].path \in Path
  BY <1>3 DEF ItemOK
<1>12. it.path \in Path /\ Len(it.path) \in Nat
  BY <1>4, PathFacts DEF ItemOK
<1>13. Apart'
  <2>1. ASSUME NEW i \in DOMAIN work', NEW j \in DOMAIN work',
               work'[i].kind = "delete", work'[j].kind = "delete",
               IsPrefix(work'[i].path, work'[j].path)
        PROVE  i = j
    <3>1. CASE i \in 1 .. n /\ j \in 1 .. n
      <4>1. /\ work'[i] = new[i] /\ work'[j] = new[j] /\ i \in DOMAIN new /\ j \in DOMAIN new
        BY <1>8, <3>1
      <4>2. /\ Len(new[i].path) = Len(new[j].path)
            /\ new[i].path \in Path /\ new[j].path \in Path
            /\ Len(new[i].path) \in Nat
        <5>1. new[i].path \in Path /\ new[j].path \in Path
          BY <1>10, <4>1
        <5>2. Len(new[i].path) = Len(it.path) + 1 /\ Len(new[j].path) = Len(it.path) + 1
          BY <1>5, <4>1
        <5>3. QED BY <5>1, <5>2, PathFacts
      <4>3. new[i].path = new[j].path
        <5>1. IsPrefix(new[i].path, new[j].path)
          BY <2>1, <4>1
        <5>2. ~ (Len(new[i].path) \in 1 .. Len(new[j].path) - 1)
          BY <4>2
        <5>3. QED BY <4>2, <5>1, <5>2, PrefixOrder
      <4>4. QED BY <1>5, <4>1, <4>3
    <3>2. CASE i \in 1 .. n /\ j \notin 1 .. n
      <4>1. /\ work'[i] = new[i] /\ i \in DOMAIN new /\ work'[j] = work[j - n + 1]
            /\ j - n + 1 \in DOMAIN work /\ j - n + 1 # 1
        BY <1>8, <3>2
      <4>2. it.kind = "delete" /\ IsPrefix(it.path, new[i].path)
        BY <1>5, <2>1, <4>1
      <4>3. IsPrefix(it.path, work[j - n + 1].path)
        BY <1>10, <1>11, <1>12, <2>1, <4>1, <4>2, PrefixOrder
      <4>4. QED BY <1>2, <2>1, <4>1, <4>2, <4>3 DEF Apart
    <3>3. CASE i \notin 1 .. n /\ j \in 1 .. n
      <4>1. /\ work'[j] = new[j] /\ j \in DOMAIN new /\ work'[i] = work[i - n + 1]
            /\ i - n + 1 \in DOMAIN work /\ i - n + 1 # 1
        BY <1>8, <3>3
      <4>2. it.kind = "delete" /\ IsPrefix(it.path, new[j].path)
        BY <1>5, <2>1, <4>1
      <4>3. \/ work[i - n + 1].path = new[j].path
            \/ IsPrefix(work[i - n + 1].path, it.path)
        BY <1>5, <1>11, <2>1, <4>1
      <4>4. IsPrefix(it.path, work[i - n + 1].path) \/ IsPrefix(work[i - n + 1].path, it.path)
        BY <4>2, <4>3
      <4>5. QED BY <1>2, <2>1, <4>1, <4>2, <4>4 DEF Apart
    <3>4. CASE i \notin 1 .. n /\ j \notin 1 .. n
      <4>1. /\ work'[i] = work[i - n + 1] /\ i - n + 1 \in DOMAIN work
            /\ work'[j] = work[j - n + 1] /\ j - n + 1 \in DOMAIN work
        BY <1>8, <3>4
      <4>2. i - n + 1 = j - n + 1
        BY <2>1, <4>1 DEF Apart
      <4>3. i \in Int /\ j \in Int /\ n \in Int
        BY <1>5, <1>7
      <4>4. QED BY <4>2, <4>3
    <3>5. QED BY <3>1, <3>2, <3>3, <3>4
  <2>2. QED BY <2>1 DEF Apart
<1>14. Finer
  <2>1. ASSUME NEW w \in Deletions'
        PROVE  \E v \in Deletions :
                  IsPrefix(v, w) /\ \A d \in Path : IsPrefix(d, w) => d = w \/ IsPrefix(d, v)
    <3>1. PICK i \in DOMAIN work' : work'[i].kind = "delete" /\ work'[i].path = w
      BY <2>1 DEF Deletions
    <3>2. CASE i \in DOMAIN new /\ work'[i] = new[i]
      <4>1. it.kind = "delete"
        BY <1>5, <3>1, <3>2
      <4>2. it.path \in Deletions
        BY <1>2, <4>1 DEF Deletions
      <4>3. QED BY <1>5, <3>1, <3>2, <4>2
    <3>3. CASE i - n + 1 \in DOMAIN work /\ work'[i] = work[i - n + 1]
      <4>1. w \in Deletions /\ w \in Path
        BY <1>10, <3>1, <3>3 DEF Deletions
      <4>2. IsPrefix(w, w)
        BY <4>1, PrefixOrder
      <4>3. QED BY <4>1, <4>2
    <3>4. QED BY <1>8, <3>2, <3>3
  <2>2. QED BY <2>1 DEF Finer
<1>15. QED BY <1>9, <1>13, <1>14

\* The commits a branch has stay.
LEMMA MergesStay ==
    ASSUME \A k \in Branches : DOMAIN branches[k] \subseteq DOMAIN branches'[k],
           \A k \in Branches : \A i \in DOMAIN branches[k] : branches'[k][i] = branches[k][i]
    PROVE  \A t, m : MergeOK(t, m) => MergeOK(t, m)'
<1>1. \A t : KeyOf(t)' = KeyOf(t)
  BY DEF KeyOf
<1>2. QED BY <1>1 DEF MergeOK

\* A branch gets a commit more.
LEMMA CommittedKeeps ==
    ASSUME BranchesOK, git' = git, NEW k, NEW has, NEW files, branches' = Committed(k, has, files)
    PROVE  /\ BranchesOK'
           /\ \A t, m : MergeOK(t, m) => MergeOK(t, m)'
           /\ \A l \in Branches : l # k => branches'[l] = branches[l]
<1> DEFINE c == [rev |-> revnum, has |-> has, files |-> files]
<1>1. /\ DOMAIN branches' = Branches
      /\ \A l \in Branches : branches'[l] = IF l = k THEN Append(branches[l], c) ELSE branches[l]
  BY DEF Committed, BranchesOK
<1> HIDE DEF c
<1>2. ASSUME NEW l \in Branches
      PROVE  /\ IsSeq(branches'[l])
             /\ DOMAIN branches[l] \subseteq DOMAIN branches'[l]
             /\ \A i \in DOMAIN branches[l] : branches'[l][i] = branches[l][i]
  <2>1. PICK S : branches[l] \in Seq(S)
    BY DEF BranchesOK, IsSeq
  <2>2. CASE l # k
    BY <1>1, <2>1, <2>2 DEF IsSeq
  <2>3. CASE l = k
    <3>1. branches[l] \in Seq(S \cup {c})
      BY <2>1
    <3>2. branches'[l] = Append(branches[l], c)
      BY <1>1, <2>3
    <3>3. /\ branches'[l] \in Seq(S \cup {c}) /\ Len(branches'[l]) = Len(branches[l]) + 1
          /\ \A i \in 1 .. Len(branches[l]) : branches'[l][i] = branches[l][i]
      BY <3>1, <3>2, AppendProperties
    <3>4. /\ DOMAIN branches[l] = 1 .. Len(branches[l]) /\ DOMAIN branches'[l] = 1 .. Len(branches'[l])
          /\ Len(branches[l]) \in Nat
      BY <3>1, <3>3, LenProperties
    <3>5. QED BY <3>3, <3>4 DEF IsSeq
  <2>4. QED BY <2>2, <2>3
<1>3. BranchesOK'
  BY <1>1, <1>2 DEF BranchesOK
<1>4. \A t, m : MergeOK(t, m) => MergeOK(t, m)'
  BY <1>2, MergesStay
<1>5. QED BY <1>1, <1>3, <1>4

\* The transaction an item goes to.
LEMMA OpenTransaction ==
    ASSUME TransactionsOK, NEW it
    PROVE  LET txn == TransactionOf(it) IN
           /\ txn.key = <<Target(it).repository, Target(it).branch>>
           /\ txn = [key |-> txn.key, deleted |-> txn.deleted, modified |-> txn.modified,
                     merges |-> txn.merges]
           /\ \A t \in transactions : t.key = txn.key => t = txn
           /\ \A m \in txn.merges : MergeOK(txn, m)
<1> DEFINE key == <<Target(it).repository, Target(it).branch>>
           open == {t \in transactions : t.key = key}
           txn == TransactionOf(it)
<1>1. CASE open # {}
  <2>1. txn \in open
    BY <1>1 DEF TransactionOf
  <2>2. txn \in transactions /\ txn.key = key
    BY <2>1
  <2> HIDE DEF txn
  <2>3. TransactionOK(txn) /\ (\A m \in txn.merges : MergeOK(txn, m))
        /\ \A t, u \in transactions : t.key = u.key => t = u
    BY <2>2 DEF TransactionsOK
  <2>4. QED BY <2>2, <2>3 DEF TransactionOK, txn
<1>2. CASE open = {}
  <2>1. txn = [key |-> key, deleted |-> {}, modified |-> {}, merges |-> {}]
    BY <1>2 DEF TransactionOf
  <2>2. \A t \in transactions : t.key # key
    BY <1>2
  <2> HIDE DEF txn, key
  <2>3. QED BY <2>1, <2>2 DEF txn, key
<1>3. QED BY <1>1, <1>2

\* Files that are changed leave a transaction its name and its merges.
LEMMA ChangedFacts ==
    ASSUME NEW txn, NEW gone, NEW written,
           txn = [key |-> txn.key, deleted |-> txn.deleted, modified |-> txn.modified,
                  merges |-> txn.merges]
    PROVE  LET new == Changed(txn, gone, written) IN
           /\ new.key = txn.key /\ new.merges = txn.merges
           /\ new = [key |-> new.key, deleted |-> new.deleted, modified |-> new.modified,
                     merges |-> new.merges]
<1> DEFINE prefix == PrefixOf(txn.key[1])
           new    == {<<prefix \o f[1], f[2]>> : f \in written}
           a      == txn.deleted \cup {prefix \o p : p \in gone}
           b      == {f \in txn.modified : \A g \in new : g[1] # f[1]} \cup new
<1>1. Changed(txn, gone, written) = [txn EXCEPT !.deleted = a, !.modified = b]
  BY DEF Changed
<1> HIDE DEF a, b
<1>2. PICK k, x, y, m : txn = [key |-> k, deleted |-> x, modified |-> y, merges |-> m]
  OBVIOUS
<1>3. [txn EXCEPT !.deleted = a, !.modified = b]
        = [key |-> k, deleted |-> a, modified |-> b, merges |-> m]
  <2>1. [txn EXCEPT !.deleted = a, !.modified = b] = [[txn EXCEPT !.deleted = a] EXCEPT !.modified = b]
    OBVIOUS
  <2>2. [txn EXCEPT !.deleted = a] = [key |-> k, deleted |-> a, modified |-> y, merges |-> m]
    BY <1>2
  <2>3. ASSUME NEW r, r = [key |-> k, deleted |-> a, modified |-> y, merges |-> m]
        PROVE  [r EXCEPT !.modified = b] = [key |-> k, deleted |-> a, modified |-> b, merges |-> m]
    BY <2>3
  <2>4. QED BY <2>1, <2>2, <2>3
<1>4. txn.key = k /\ txn.merges = m
  BY <1>2
<1>5. QED BY <1>1, <1>3, <1>4

\* A step that changes files of a branch.
LEMMA TransactionChanged ==
    ASSUME IInv, phase = "walk", work # <<>>, phase' = "walk", work' = Tail(work),
           UNCHANGED <<svn, tree, changes>>,
           \A t, m : MergeOK(t, m) => MergeOK(t, m)',
           Exports(Head(work)),
           NEW new, new = [key |-> new.key, deleted |-> new.deleted, modified |-> new.modified,
                           merges |-> new.merges],
           new.key = TransactionOf(Head(work)).key,
           \A m \in new.merges : m \in TransactionOf(Head(work)).merges \/ MergeOK(new, m)',
           transactions' = (transactions \ {TransactionOf(Head(work))}) \cup {new}
    PROVE  /\ TransactionsOK'
           /\ OneDirectory =>
                 \A i \in DOMAIN deletedBranches, t \in transactions' : KeyOf(t) # deletedBranches[i]
<1> DEFINE it == Head(work)
           txn == TransactionOf(it)
<1>1. /\ TreesOK /\ ChangesOK /\ WorkOK /\ Apart /\ DeletedOK /\ DeletedOnce /\ TransactionsOK
  BY DEF IInv
<1>2. /\ ItemOK(it) /\ WorkOK' /\ Deletions' \subseteq Deletions
      /\ it.kind = "delete" => /\ it.path \in Deletions
                               /\ \A w \in Deletions' : ~ IsPrefix(w, it.path)
  BY <1>1, Consumed
<1>3. Finer
  BY <1>1, <1>2, FewerIsFiner
<1>4. /\ \A d : Touched(d) => Touched(d)'
      /\ \A t : TransactionOK(t) => TransactionOK(t)'
  BY <1>1, <1>2, <1>3, FinerKeeps
<1>5. PICK d \in DirPath :
         /\ Touched(d) /\ IsPrefix(d, it.path)
         /\ NameAt(d) = <<Target(it).repository, Target(it).branch>>
         /\ it.kind # "delete" => d \in DOMAIN tree
  BY <1>1, <1>2, ItemDirectory
<1>6. /\ txn.key = NameAt(d) /\ new.key = NameAt(d)
      /\ \A t \in transactions : t.key = txn.key => t = txn
      /\ \A m \in txn.merges : MergeOK(txn, m)
  BY <1>1, <1>5, OpenTransaction
<1> HIDE DEF txn
<1>7. \A t \in transactions' : t = new \/ (t \in transactions /\ t.key # new.key)
  BY <1>6 DEF txn
<1>8. IsFiniteSet(transactions')
  <2>1. IsFiniteSet(transactions)
    BY <1>1 DEF TransactionsOK
  <2>2. IsFiniteSet(transactions \ {TransactionOf(Head(work))})
    BY <2>1, FS_Subset
  <2>3. QED BY <2>2, FS_AddElement
<1>9. TransactionOK(new)'
  <2>1. d \in Path /\ it.path \in Path /\ Deletions' \subseteq Path
    BY <1>2, PathFacts DEF ItemOK, WorkOK, Deletions
  <2>2. d \in DOMAIN tree \/ \A w \in Deletions' : ~ IsPrefix(w, d)
    <3>1. CASE it.kind # "delete"
      BY <1>5, <3>1
    <3>2. CASE it.kind = "delete"
      BY <1>2, <1>5, <2>1, <3>2, PrefixOrder
    <3>3. QED BY <3>1, <3>2
  <2>3. Touched(d)' /\ new.key = NameAt(d)
    BY <1>4, <1>5, <1>6
  <2>4. tree' = tree
    OBVIOUS
  <2>5. QED BY <2>2, <2>3, <2>4 DEF TransactionOK
<1>10. \A m \in new.merges : MergeOK(new, m)'
  <2>1. KeyOf(new) = KeyOf(txn)
    BY <1>6 DEF KeyOf
  <2>2. \A m \in txn.merges : MergeOK(new, m)
    BY <1>6, <2>1 DEF MergeOK
  <2>3. QED BY <2>2 DEF txn
<1>11. \A t \in transactions : TransactionOK(t) /\ (\A m \in t.merges : MergeOK(t, m))
  BY <1>1 DEF TransactionsOK
<1>12. \A t, u \in transactions' : t.key = u.key => t = u
  <2>1. \A t, u \in transactions : t.key = u.key => t = u
    BY <1>1 DEF TransactionsOK
  <2>2. QED BY <1>7, <2>1
<1>13. TransactionsOK'
  BY <1>4, <1>7, <1>8, <1>9, <1>10, <1>11, <1>12 DEF TransactionsOK
<1>14. ASSUME OneDirectory, NEW i \in DOMAIN deletedBranches, NEW t \in transactions',
              KeyOf(t) = deletedBranches[i]
       PROVE  FALSE
  <2>1. PICK e \in DirPath :
           /\ Touched(e) /\ deletedBranches[i] = KeyAt(e) /\ e \notin DOMAIN tree
           /\ \A w \in Deletions : ~ IsPrefix(e, w)
    BY <1>1 DEF DeletedOK
  <2>2. CASE t = new
    <3>1. KeyAt(e) = KeyAt(d)
      BY <1>6, <1>14, <2>1, <2>2, CommitsTo
    <3>2. e = d
      BY <1>5, <1>14, <2>1, <3>1 DEF OneDirectory, Touched
    <3>3. it.kind = "delete" /\ it.path \in Deletions
      BY <1>2, <1>5, <2>1, <3>2
    <3>4. QED BY <1>5, <2>1, <3>2, <3>3
  <2>3. CASE t \in transactions
    BY <1>1, <1>14, <2>3 DEF DeletedOnce
  <2>4. QED BY <1>7, <2>2, <2>3
<1>15. QED BY <1>13, <1>14

-----------------------------------------------------------------------------
(* The steps of the walk *)

\* A path no rule exports is skipped.
LEMMA SkipKeeps ==
    ASSUME IInv, Skip
    PROVE  IInv'
<1>1. /\ TreesOK /\ ChangesOK /\ WorkOK /\ Apart /\ DeletedOK /\ DeletedOnce /\ ResetOK
      /\ TransactionsOK /\ BranchesOK
  BY DEF IInv
<1>2. /\ phase = "walk" /\ work # <<>> /\ phase' = phase /\ work' = Tail(work)
      /\ svn' = svn /\ tree' = tree /\ changes' = changes
      /\ deletedBranches' = deletedBranches /\ resetBranches' = resetBranches
      /\ transactions' = transactions /\ branches' = branches /\ git' = git
  BY DEF Skip, source, queues
<1>3. TreesOK' /\ ChangesOK' /\ QueuesEmpty'
  BY <1>1, <1>2, WalkKeepsTrees
<1>4. WorkOK' /\ Apart' /\ Finer
  BY <1>1, <1>2, Consumed, FewerIsFiner
<1>5. ResetOK' /\ DeletedOK' /\ \A t : TransactionOK(t) => TransactionOK(t)'
  BY <1>1, <1>2, <1>4, FinerKeeps
<1>6. \A t, m : MergeOK(t, m) => MergeOK(t, m)'
  BY <1>2, MergesStay
<1>7. TransactionsOK'
  BY <1>1, <1>2, <1>5, <1>6 DEF TransactionsOK
<1>8. DeletedOnce' /\ BranchesOK'
  BY <1>1, <1>2 DEF DeletedOnce, BranchesOK, KeyOf
<1>9. QED BY <1>3, <1>4, <1>5, <1>7, <1>8 DEF IInv

\* A directory is looked into.
LEMMA RecurseKeeps ==
    ASSUME IInv, Recurse
    PROVE  IInv'
<1>1. /\ TreesOK /\ ChangesOK /\ WorkOK /\ Apart /\ DeletedOK /\ DeletedOnce /\ ResetOK
      /\ TransactionsOK /\ BranchesOK
  BY DEF IInv
<1>2. /\ phase = "walk" /\ work # <<>> /\ phase' = phase
      /\ work' = Children(Head(work)) \o Tail(work)
      /\ svn' = svn /\ tree' = tree /\ changes' = changes
      /\ deletedBranches' = deletedBranches /\ resetBranches' = resetBranches
      /\ transactions' = transactions /\ branches' = branches /\ git' = git
  BY DEF Recurse, source, queues
<1>3. TreesOK' /\ ChangesOK' /\ QueuesEmpty'
  BY <1>1, <1>2, WalkKeepsTrees
<1>4. WorkOK' /\ Apart' /\ Finer
  BY <1>1, <1>2, Recursed
<1>5. ResetOK' /\ DeletedOK' /\ \A t : TransactionOK(t) => TransactionOK(t)'
  BY <1>1, <1>2, <1>4, FinerKeeps
<1>6. \A t, m : MergeOK(t, m) => MergeOK(t, m)'
  BY <1>2, MergesStay
<1>7. TransactionsOK'
  BY <1>1, <1>2, <1>5, <1>6 DEF TransactionsOK
<1>8. DeletedOnce' /\ BranchesOK'
  BY <1>1, <1>2 DEF DeletedOnce, BranchesOK, KeyOf
<1>9. QED BY <1>3, <1>4, <1>5, <1>7, <1>8 DEF IInv

\* A conversion that stops leaves everything as it is.
LEMMA StopKeeps ==
    ASSUME IInv, phase = "walk", phase' = "failed",
           UNCHANGED <<svn, tree, changes, work, queues, git>>
    PROVE  IInv'
<1>1. /\ TreesOK /\ ChangesOK /\ WorkOK /\ Apart /\ DeletedOK /\ DeletedOnce /\ ResetOK
      /\ TransactionsOK /\ BranchesOK
  BY DEF IInv
<1>2. /\ svn' = svn /\ tree' = tree /\ changes' = changes /\ work' = work
      /\ deletedBranches' = deletedBranches /\ resetBranches' = resetBranches
      /\ transactions' = transactions /\ branches' = branches /\ git' = git
  BY DEF queues
<1>3. TreesOK' /\ ChangesOK' /\ QueuesEmpty'
  BY <1>1, <1>2, WalkKeepsTrees
<1>4. WorkOK' /\ Apart'
  BY <1>1, <1>2 DEF WorkOK, Apart, ItemOK
<1>5. Deletions' \subseteq Deletions
  BY <1>2 DEF Deletions
<1>6. ResetOK' /\ DeletedOK' /\ \A t : TransactionOK(t) => TransactionOK(t)'
  BY <1>1, <1>2, <1>4, <1>5, FewerIsFiner, FinerKeeps
<1>7. \A t, m : MergeOK(t, m) => MergeOK(t, m)'
  BY <1>2, MergesStay
<1>8. TransactionsOK'
  BY <1>1, <1>2, <1>6, <1>7 DEF TransactionsOK
<1>9. DeletedOnce' /\ BranchesOK'
  BY <1>1, <1>2 DEF DeletedOnce, BranchesOK, KeyOf
<1>10. QED BY <1>3, <1>4, <1>6, <1>8, <1>9 DEF IInv

\* A branch is deleted: its directory is gone, and nothing else of the revision is about it.
LEMMA DeleteBranchKeeps ==
    ASSUME IInv, DeleteBranch
    PROVE  IInv'
<1> DEFINE it == Head(work)
           k  == BranchKey(Target(it))
<1>1. /\ TreesOK /\ ChangesOK /\ WorkOK /\ Apart /\ DeletedOK /\ DeletedOnce /\ ResetOK
      /\ TransactionsOK /\ BranchesOK
  BY DEF IInv
<1>2. /\ phase = "walk" /\ work # <<>> /\ phase' = phase /\ work' = Tail(work)
      /\ svn' = svn /\ tree' = tree /\ changes' = changes
      /\ deletedBranches' = Append(deletedBranches, k) /\ resetBranches' = resetBranches
      /\ transactions' = transactions /\ branches' = Committed(k, FALSE, {}) /\ git' = git
      /\ Exports(it) /\ IsBranchDeletion(it)
  BY DEF DeleteBranch, source
<1>3. TreesOK' /\ ChangesOK' /\ QueuesEmpty'
  BY <1>1, <1>2, WalkKeepsTrees
<1>4. /\ ItemOK(it) /\ WorkOK' /\ Apart' /\ Deletions' \subseteq Deletions
      /\ it.kind = "delete" =>
            /\ it.path \in Deletions
            /\ \A w \in Deletions' : ~ IsPrefix(w, it.path) /\ ~ IsPrefix(it.path, w)
  BY <1>1, <1>2, Consumed
<1>5. Finer
  BY <1>1, <1>4, FewerIsFiner
<1>6. /\ ResetOK' /\ \A t : TransactionOK(t) => TransactionOK(t)'
      /\ \A d : Touched(d) => Touched(d)'
      /\ \A d \in DirPath : /\ \A w \in Deletions : ~ IsPrefix(w, d) /\ ~ IsPrefix(d, w)
                            => \A w \in Deletions' : ~ IsPrefix(w, d) /\ ~ IsPrefix(d, w)
  BY <1>1, <1>2, <1>4, <1>5, FinerKeeps
<1>7. BranchesOK' /\ \A t, m : MergeOK(t, m) => MergeOK(t, m)'
  BY <1>1, <1>2, CommittedKeeps
<1>8. TransactionsOK'
  BY <1>1, <1>2, <1>6, <1>7 DEF TransactionsOK
<1>9. PICK d \in DirPath : /\ Touched(d) /\ KeyAt(d) = k /\ Target(it).svnprefix = d
  BY <1>1, <1>2, <1>4, ItemDirectory
<1>10. /\ d = it.path /\ it.kind = "delete" /\ d \notin DOMAIN tree /\ d \in Path
       /\ d \in Deletions
       /\ \A w \in Deletions' : ~ IsPrefix(w, d) /\ ~ IsPrefix(d, w)
  BY <1>2, <1>4, <1>9 DEF IsBranchDeletion, IsWholeBranch, ItemOK
<1>11. /\ IsSeq(deletedBranches')
       /\ \A i \in DOMAIN deletedBranches' :
             \/ i \in DOMAIN deletedBranches /\ deletedBranches'[i] = deletedBranches[i]
             \/ i = Len(deletedBranches) + 1 /\ i \notin DOMAIN deletedBranches
                /\ deletedBranches'[i] = k
  <2>1. PICK S : deletedBranches \in Seq(S)
    BY <1>1 DEF DeletedOK, IsSeq
  <2>2. deletedBranches \in Seq(S \cup {k})
    BY <2>1
  <2> HIDE DEF k
  <2>3. /\ deletedBranches' \in Seq(S \cup {k})
        /\ Len(deletedBranches') = Len(deletedBranches) + 1
        /\ \A i \in 1 .. Len(deletedBranches) : deletedBranches'[i] = deletedBranches[i]
        /\ deletedBranches'[Len(deletedBranches) + 1] = k
    BY <1>2, <2>2, AppendProperties
  <2>4. /\ DOMAIN deletedBranches = 1 .. Len(deletedBranches)
        /\ DOMAIN deletedBranches' = 1 .. Len(deletedBranches')
        /\ Len(deletedBranches) \in Nat
    BY <2>2, <2>3, LenProperties
  <2>5. QED BY <2>3, <2>4 DEF IsSeq
<1> HIDE DEF k
<1>12. DeletedOK'
  <2>1. ASSUME NEW i \in DOMAIN deletedBranches'
        PROVE  \E e \in DirPath :
                  /\ Touched(e)' /\ deletedBranches'[i] = KeyAt(e) /\ e \notin DOMAIN tree'
                  /\ \A w \in Deletions' : ~ IsPrefix(w, e) /\ ~ IsPrefix(e, w)
    <3>1. CASE i \in DOMAIN deletedBranches /\ deletedBranches'[i] = deletedBranches[i]
      <4>1. PICK e \in DirPath :
               /\ Touched(e) /\ deletedBranches[i] = KeyAt(e) /\ e \notin DOMAIN tree
               /\ \A w \in Deletions : ~ IsPrefix(w, e) /\ ~ IsPrefix(e, w)
        BY <1>1, <3>1 DEF DeletedOK
      <4>2. QED BY <1>2, <1>6, <3>1, <4>1
    <3>2. CASE deletedBranches'[i] = k
      BY <1>2, <1>6, <1>9, <1>10, <3>2
    <3>3. QED BY <1>11, <3>1, <3>2
  <2>2. QED BY <1>11, <2>1 DEF DeletedOK
<1>13. ASSUME OneDirectory PROVE \A i \in DOMAIN deletedBranches : deletedBranches[i] # k
  <2>1. SUFFICES ASSUME NEW i \in DOMAIN deletedBranches, deletedBranches[i] = k PROVE FALSE
    OBVIOUS
  <2>2. PICK e \in DirPath : /\ Touched(e) /\ deletedBranches[i] = KeyAt(e)
                             /\ \A w \in Deletions : ~ IsPrefix(w, e)
    BY <1>1 DEF DeletedOK
  <2>3. e = d
    BY <1>9, <1>13, <2>1, <2>2 DEF OneDirectory, Touched
  <2>4. QED BY <1>10, <2>2, <2>3, PrefixOrder
<1>14. ASSUME OneDirectory PROVE \A t \in transactions : KeyOf(t) # k
  <2>1. SUFFICES ASSUME NEW t \in transactions, KeyOf(t) = k PROVE FALSE
    OBVIOUS
  <2>2. PICK e \in DirPath : /\ Touched(e) /\ t.key = NameAt(e)
                             /\ e \in DOMAIN tree \/ \A w \in Deletions : ~ IsPrefix(w, e)
    BY <1>1 DEF TransactionsOK, TransactionOK
  <2>3. e = d
    BY <1>9, <1>14, <2>1, <2>2, CommitsTo DEF OneDirectory, Touched
  <2>4. QED BY <1>10, <2>2, <2>3, PrefixOrder
<1>15. DeletedOnce'
  <2>1. SUFFICES ASSUME OneDirectory, NEW i \in DOMAIN deletedBranches'
                 PROVE  /\ \A j \in DOMAIN deletedBranches' :
                              deletedBranches'[i] = deletedBranches'[j] => i = j
                        /\ \A t \in transactions' : KeyOf(t) # deletedBranches'[i]
    BY DEF DeletedOnce, KeyOf
  <2>2. \A j \in DOMAIN deletedBranches' : deletedBranches'[i] = deletedBranches'[j] => i = j
    BY <1>1, <1>11, <1>13, <2>1 DEF DeletedOnce
  <2>3. \A t \in transactions' : KeyOf(t) # deletedBranches'[i]
    BY <1>1, <1>2, <1>11, <1>14, <2>1 DEF DeletedOnce
  <2>4. QED BY <2>2, <2>3
<1>16. QED BY <1>3, <1>4, <1>6, <1>7, <1>8, <1>12, <1>15 DEF IInv

\* A branch is copied: its directory is there.
LEMMA CreateBranchKeeps ==
    ASSUME IInv, CreateBranch
    PROVE  IInv'
<1> DEFINE it   == Head(work)
           k    == BranchKey(Target(it))
           from == BranchKey(Source(it))
           mark == CommitAt(from, it.at)
           txn  == TransactionOf(it)
           cmd  == [branch |-> k, from |-> from, has |-> mark.has, files |-> mark.files]
           new  == Changed(txn, {Target(it).path}, Written(it))
<1>1. /\ TreesOK /\ ChangesOK /\ WorkOK /\ Apart /\ DeletedOK /\ DeletedOnce /\ ResetOK
      /\ TransactionsOK /\ BranchesOK
  BY DEF IInv
<1>2. /\ phase = "walk" /\ work # <<>>
      /\ svn' = svn /\ tree' = tree /\ changes' = changes /\ git' = git
      /\ Exports(it) /\ ~ IsBranchDeletion(it) /\ IsBranchCopy(it)
  BY DEF CreateBranch, source
<1>3. CASE CommitsOf(from) = <<>>
  <2>1. phase' = "failed" /\ UNCHANGED <<queues, work>>
    BY <1>3 DEF CreateBranch
  <2>2. QED BY <1>2, <2>1, StopKeeps
<1>4. CASE CommitsOf(from) # <<>>
  <2>1. /\ resetBranches' = Append(resetBranches, cmd)
        /\ branches' = Committed(k, mark.has, mark.files)
        /\ transactions' = IF ~ svn_branches THEN transactions
                           ELSE (transactions \ {txn}) \cup {new}
        /\ work' = Tail(work) /\ deletedBranches' = deletedBranches /\ phase' = phase
    BY <1>4 DEF CreateBranch
  <2>2. TreesOK' /\ ChangesOK' /\ QueuesEmpty'
    BY <1>1, <1>2, <2>1, WalkKeepsTrees
  <2>3. ItemOK(it) /\ WorkOK' /\ Apart' /\ Deletions' \subseteq Deletions
    BY <1>1, <1>2, <2>1, Consumed
  <2>4. Finer
    BY <1>1, <2>3, FewerIsFiner
  <2>5. /\ DeletedOK' /\ \A t : TransactionOK(t) => TransactionOK(t)'
        /\ \A d : Touched(d) => Touched(d)'
    BY <1>1, <1>2, <2>1, <2>3, <2>4, FinerKeeps
  <2>6. BranchesOK' /\ \A t, m : MergeOK(t, m) => MergeOK(t, m)'
    BY <1>1, <1>2, <2>1, CommittedKeeps
  <2>7. PICK d \in DirPath : /\ Touched(d) /\ KeyAt(d) = k
                             /\ it.kind # "delete" => d \in DOMAIN tree
    BY <1>1, <1>2, <2>3, ItemDirectory
  <2>8. d \in DOMAIN tree
    <3>1. NoRule = NoRule /\ (it.kind = "delete" => it.from = NoPath)
      BY <2>3 DEF ItemOK
    <3>2. IsCopy(it)
      BY <1>2 DEF IsBranchCopy
    <3>3. it.from # NoPath
      BY <3>2 DEF IsCopy, SourceRule
    <3>4. QED BY <2>7, <3>1, <3>3
  <2>9. ResetOK'
    <3>1. PICK S : resetBranches \in Seq(S)
      BY <1>1 DEF ResetOK, IsSeq
    <3>2. resetBranches \in Seq(S \cup {cmd}) /\ cmd.branch = k
      BY <3>1
    <3> HIDE DEF cmd, k
    <3>3. /\ resetBranches' \in Seq(S \cup {cmd})
          /\ Len(resetBranches') = Len(resetBranches) + 1
          /\ \A i \in 1 .. Len(resetBranches) : resetBranches'[i] = resetBranches[i]
          /\ resetBranches'[Len(resetBranches) + 1] = cmd
      BY <2>1, <3>2, AppendProperties
    <3>4. /\ DOMAIN resetBranches = 1 .. Len(resetBranches)
          /\ DOMAIN resetBranches' = 1 .. Len(resetBranches')
          /\ Len(resetBranches) \in Nat
      BY <3>2, <3>3, LenProperties
    <3>5. \A i \in DOMAIN resetBranches' :
             \/ i \in DOMAIN resetBranches /\ resetBranches'[i] = resetBranches[i]
             \/ resetBranches'[i] = cmd
      BY <3>3, <3>4
    <3>6. ASSUME NEW i \in DOMAIN resetBranches'
          PROVE  \E e \in DirPath :
                    Touched(e)' /\ resetBranches'[i].branch = KeyAt(e) /\ e \in DOMAIN tree'
      <4>1. CASE i \in DOMAIN resetBranches /\ resetBranches'[i] = resetBranches[i]
        <5>1. PICK e \in DirPath :
                 Touched(e) /\ resetBranches[i].branch = KeyAt(e) /\ e \in DOMAIN tree
          BY <1>1, <4>1 DEF ResetOK
        <5>2. QED BY <1>2, <2>5, <4>1, <5>1
      <4>2. CASE resetBranches'[i] = cmd
        BY <1>2, <2>5, <2>7, <2>8, <3>2, <4>2
      <4>3. QED BY <3>5, <4>1, <4>2
    <3>7. IsSeq(resetBranches')
      BY <3>3 DEF IsSeq
    <3>8. QED BY <3>6, <3>7 DEF ResetOK
  <2>10. TransactionsOK' /\ DeletedOnce'
    <3>1. CASE ~ svn_branches
      <4>1. transactions' = transactions
        BY <2>1, <3>1
      <4>2. TransactionsOK'
        BY <1>1, <2>5, <2>6, <4>1 DEF TransactionsOK
      <4>3. DeletedOnce'
        BY <1>1, <2>1, <4>1 DEF DeletedOnce, KeyOf
      <4>4. QED BY <4>2, <4>3
    <3>2. CASE svn_branches
      <4>1. transactions' = (transactions \ {TransactionOf(it)}) \cup {new}
        BY <2>1, <3>2
      <4>2. /\ new.key = TransactionOf(it).key /\ new.merges = TransactionOf(it).merges
            /\ new = [key |-> new.key, deleted |-> new.deleted, modified |-> new.modified,
                      merges |-> new.merges]
        <5> DEFINE gone == {Target(it).path}
                   written == Written(it)
        <5>1. txn = [key |-> txn.key, deleted |-> txn.deleted, modified |-> txn.modified,
                     merges |-> txn.merges]
          BY <1>1, OpenTransaction
        <5> HIDE DEF txn, gone, written
        <5>2. /\ Changed(txn, gone, written).key = txn.key
              /\ Changed(txn, gone, written).merges = txn.merges
              /\ Changed(txn, gone, written) =
                   [key |-> Changed(txn, gone, written).key,
                    deleted |-> Changed(txn, gone, written).deleted,
                    modified |-> Changed(txn, gone, written).modified,
                    merges |-> Changed(txn, gone, written).merges]
          BY <5>1, ChangedFacts
        <5>3. QED BY <5>2 DEF txn, gone, written
      <4> HIDE DEF new
      <4>3. /\ TransactionsOK'
            /\ OneDirectory =>
                  \A i \in DOMAIN deletedBranches, t \in transactions' : KeyOf(t) # deletedBranches[i]
        BY <1>2, <2>1, <2>6, <4>1, <4>2, TransactionChanged
      <4>4. DeletedOnce'
        BY <1>1, <2>1, <4>3 DEF DeletedOnce, KeyOf
      <4>5. QED BY <4>3, <4>4
    <3>3. QED BY <3>1, <3>2
  <2>11. QED BY <2>2, <2>3, <2>5, <2>6, <2>9, <2>10 DEF IInv
<1>5. QED BY <1>3, <1>4

\* Files of a branch are changed; a merge that is noted is of a commit that was found.
LEMMA ChangeFilesKeeps ==
    ASSUME IInv, ChangeFiles
    PROVE  IInv'
<1> DEFINE it   == Head(work)
           txn  == TransactionOf(it)
           from == BranchKey(Source(it))
           mark == CommitAt(from, it.at)
           noted == /\ IsCopy(it) /\ from # BranchKey(Target(it))
                    /\ Source(it).effective = Target(it).effective
           deletes == \/ it.kind = "delete"
                      \/ it.kind = "replace" /\ ~ IsCopy(it)
                      \/ it.dir /\ it.from # NoPath
           gone == IF deletes THEN {Target(it).path} ELSE {}
           written == IF it.kind = "delete" THEN {} ELSE Written(it)
           changed == Changed(txn, gone, written)
           new == [changed EXCEPT !.merges =
                      IF noted /\ mark.has THEN @ \cup {<<from, mark.rev>>} ELSE @]
<1>1. /\ TreesOK /\ ChangesOK /\ WorkOK /\ Apart /\ DeletedOK /\ DeletedOnce /\ ResetOK
      /\ TransactionsOK /\ BranchesOK
  BY DEF IInv
<1>2. /\ phase = "walk" /\ work # <<>> /\ phase' = phase /\ work' = Tail(work)
      /\ svn' = svn /\ tree' = tree /\ changes' = changes
      /\ deletedBranches' = deletedBranches /\ resetBranches' = resetBranches
      /\ branches' = branches /\ git' = git
      /\ Exports(it) /\ transactions' = (transactions \ {txn}) \cup {new}
  BY DEF ChangeFiles, source
<1>3. TreesOK' /\ ChangesOK' /\ QueuesEmpty'
  BY <1>1, <1>2, WalkKeepsTrees
<1>4. ItemOK(it) /\ WorkOK' /\ Apart' /\ Finer
  BY <1>1, <1>2, Consumed, FewerIsFiner
<1>5. ResetOK' /\ DeletedOK'
  BY <1>1, <1>2, <1>4, FinerKeeps
<1>6. BranchesOK' /\ \A t, m : MergeOK(t, m) => MergeOK(t, m)'
  BY <1>1, <1>2, MergesStay DEF BranchesOK
<1>7. /\ changed.key = txn.key /\ changed.merges = txn.merges
      /\ changed = [key |-> changed.key, deleted |-> changed.deleted,
                    modified |-> changed.modified, merges |-> changed.merges]
  <2>1. txn = [key |-> txn.key, deleted |-> txn.deleted, modified |-> txn.modified,
               merges |-> txn.merges]
    BY <1>1, OpenTransaction
  <2> HIDE DEF txn, gone, written
  <2>2. QED BY <2>1, ChangedFacts
<1>8. noted /\ mark.has =>
         /\ from \in Branches /\ from # KeyOf(txn) /\ from[1] = KeyOf(txn)[1]
         /\ \E i \in DOMAIN branches[from] :
               branches[from][i].has /\ branches[from][i].rev = mark.rev
  <2>1. SUFFICES ASSUME noted, mark.has
                 PROVE  /\ from \in Branches /\ from # KeyOf(txn) /\ from[1] = KeyOf(txn)[1]
                        /\ \E i \in DOMAIN branches[from] :
                              branches[from][i].has /\ branches[from][i].rev = mark.rev
    OBVIOUS
  <2>2. /\ from \in Branches
        /\ \E i \in DOMAIN branches[from] :
              branches[from][i].has /\ branches[from][i].rev = mark.rev
    <3> HIDE DEF from
    <3>1. QED BY <1>1, <2>1, CommitFound
  <2>3. KeyOf(txn) = BranchKey(Target(it))
    <3>1. txn.key = <<Target(it).repository, Target(it).branch>>
      BY <1>1, OpenTransaction
    <3>2. Target(it).effective = Effective(Target(it).repository)
      BY SplitIs DEF Target
    <3> HIDE DEF txn, it
    <3>3. QED BY <3>1, <3>2 DEF KeyOf, BranchKey
  <2>4. from[1] = BranchKey(Target(it))[1]
    BY <2>1 DEF BranchKey
  <2>5. QED BY <2>1, <2>2, <2>3, <2>4
<1> DEFINE merges == IF noted /\ mark.has THEN changed.merges \cup {<<from, mark.rev>>}
                     ELSE changed.merges
<1>9. new = [key |-> changed.key, deleted |-> changed.deleted, modified |-> changed.modified,
             merges |-> merges]
  <2>1. new = [changed EXCEPT !.merges = merges]
    <3> HIDE DEF noted, mark, from
    <3>1. QED OBVIOUS
  <2> HIDE DEF changed, merges, new
  <2>2. \A k, x, y, m, n :
           [[key |-> k, deleted |-> x, modified |-> y, merges |-> m] EXCEPT !.merges = n]
             = [key |-> k, deleted |-> x, modified |-> y, merges |-> n]
    OBVIOUS
  <2>3. QED BY <1>7, <2>1, <2>2
<1>10. \A m \in merges : m \in txn.merges
                         \/ (noted /\ mark.has /\ m = <<from, mark.rev>>)
  <2> HIDE DEF noted, mark, from, txn, changed
  <2>1. QED BY <1>7
<1> HIDE DEF changed, merges, txn, noted, mark, from, new
<1>11. /\ new.key = txn.key /\ new.merges = merges
       /\ new = [key |-> new.key, deleted |-> new.deleted, modified |-> new.modified,
                 merges |-> new.merges]
  BY <1>7, <1>9
<1>12. PICK t : t = new
  OBVIOUS
<1>13. /\ TransactionsOK'
       /\ OneDirectory =>
             \A i \in DOMAIN deletedBranches, u \in transactions' : KeyOf(u) # deletedBranches[i]
  <2>1. /\ t.key = txn.key /\ t.merges = merges
        /\ t = [key |-> t.key, deleted |-> t.deleted, modified |-> t.modified, merges |-> t.merges]
    BY <1>11, <1>12
  <2>2. ASSUME NEW m \in t.merges, m \notin txn.merges PROVE MergeOK(t, m)
    <3>1. noted /\ mark.has /\ m = <<from, mark.rev>>
      BY <1>10, <2>1, <2>2
    <3>2. m[1] = from /\ m[2] = mark.rev /\ KeyOf(t) = KeyOf(txn)
      BY <2>1, <3>1 DEF KeyOf
    <3>3. QED BY <1>8, <3>1, <3>2 DEF MergeOK
  <2>3. \A m \in t.merges : m \in txn.merges \/ MergeOK(t, m)'
    BY <1>6, <2>2
  <2>4. transactions' = (transactions \ {txn}) \cup {t}
    BY <1>2, <1>12
  <2>5. QED BY <1>2, <1>6, <2>1, <2>3, <2>4, TransactionChanged DEF txn
<1>14. DeletedOnce'
  BY <1>1, <1>2, <1>13 DEF DeletedOnce, KeyOf
<1>15. QED BY <1>3, <1>4, <1>5, <1>6, <1>13, <1>14 DEF IInv

-----------------------------------------------------------------------------
(* The other steps *)

\* What a change does to the list of changes.
LEMMA NotedFacts ==
    ASSUME NEW list, NEW p, NEW kind, NEW from, NEW at
    PROVE  LET new == Noted(list, p, kind, from, at) IN
           /\ kind = "delete" =>
                 \A q \in DOMAIN new :
                    \/ q \in DOMAIN list /\ ~ IsPrefix(p, q) /\ new[q] = list[q]
                    \/ q = p /\ new[q].kind = "delete" /\ new[q].from = from
           /\ kind \in {"add", "modify"} =>
                 \A q \in DOMAIN new :
                    \/ q \in DOMAIN list /\ new[q] = list[q] /\ (q = p => kind = "modify")
                    \/ q = p /\ new[q].kind \in {"add", "modify", "replace"}
<1> DEFINE new == Noted(list, p, kind, from, at)
           old == IF p \in DOMAIN list THEN list[p].kind ELSE "none"
           change == [kind |-> kind, from |-> from, at |-> at]
           replace == [change EXCEPT !.kind = "replace"]
           above == Restrict(list, {q \in DOMAIN list : ~ IsPrefix(p, q)})
<1>1. new = CASE kind = "delete" /\ old = "add"    -> above
              [] kind = "delete" /\ old # "add"    -> Put(above, p, change)
              [] kind = "add" /\ old = "delete"    -> Put(list, p, replace)
              [] kind = "modify" /\ old # "none"   -> list
              [] OTHER                             -> Put(list, p, change)
  BY DEF Noted
<1>2. /\ DOMAIN above = {q \in DOMAIN list : ~ IsPrefix(p, q)}
      /\ \A q \in DOMAIN above : above[q] = list[q]
  BY DEF Restrict
<1>3. change.kind = kind /\ change.from = from
  OBVIOUS
<1>4. replace.kind = "replace"
  OBVIOUS
<1> HIDE DEF new, old, change, replace, above
<1>5. CASE kind = "delete"
  <2>1. new = above \/ new = Put(above, p, change)
    BY <1>1, <1>5
  <2>2. CASE new = above
    BY <1>2, <1>5, <2>2 DEF new
  <2>3. CASE new = Put(above, p, change)
    <3>1. DOMAIN new = DOMAIN above \cup {p} /\ new[p] = change
          /\ \A q \in DOMAIN above : q # p => new[q] = above[q]
      BY <2>3 DEF Put
    <3>2. QED BY <1>2, <1>3, <1>5, <3>1 DEF new
  <2>4. QED BY <2>1, <2>2, <2>3
<1>6. CASE kind \in {"add", "modify"}
  <2>1. \/ new = Put(list, p, replace)
        \/ new = list /\ kind = "modify"
        \/ new = Put(list, p, change)
    BY <1>1, <1>6
  <2>2. CASE new = list /\ kind = "modify"
    BY <2>2 DEF new
  <2>3. CASE new = Put(list, p, replace)
    <3>1. DOMAIN new = DOMAIN list \cup {p} /\ new[p] = replace
          /\ \A q \in DOMAIN list : q # p => new[q] = list[q]
      BY <2>3 DEF Put
    <3>2. QED BY <1>4, <1>6, <3>1 DEF new
  <2>4. CASE new = Put(list, p, change)
    <3>1. DOMAIN new = DOMAIN list \cup {p} /\ new[p] = change
          /\ \A q \in DOMAIN list : q # p => new[q] = list[q]
      BY <2>4 DEF Put
    <3>2. QED BY <1>3, <1>6, <3>1 DEF new
  <2>5. QED BY <2>1, <2>2, <2>3, <2>4
<1>7. QED BY <1>5, <1>6

\* Where nothing is under way all is well.
LEMMA NothingKeeps ==
    ASSUME work' = <<>>, deletedBranches' = <<>>, resetBranches' = <<>>, transactions' = {},
           phase' \in {"edit", "walk", "failed"}
    PROVE  /\ WorkOK' /\ Apart' /\ DeletedOK' /\ DeletedOnce' /\ ResetOK' /\ TransactionsOK'
           /\ QueuesEmpty'
<1>1. IsSeq(<<>>) /\ DOMAIN <<>> = {}
  BY EmptySeq DEF IsSeq
<1>2. WorkOK' /\ Apart' /\ DeletedOK' /\ DeletedOnce' /\ ResetOK' /\ QueuesEmpty'
  BY <1>1 DEF WorkOK, Apart, DeletedOK, DeletedOnce, ResetOK, QueuesEmpty
<1>3. TransactionsOK'
  BY FS_EmptySet DEF TransactionsOK
<1>4. QED BY <1>2, <1>3

\* An edit leaves a tree, and changes that fit it.
LEMMA EditKeeps ==
    ASSUME IInv, Edit
    PROVE  IInv'
<1>1. /\ TreesOK /\ ChangesOK /\ WorkOK /\ QueuesEmpty /\ BranchesOK
  BY DEF IInv
<1>2. /\ phase = "edit" /\ phase' = phase /\ svn # <<>> /\ svn' = svn /\ work' = work
      /\ deletedBranches' = deletedBranches /\ resetBranches' = resetBranches
      /\ transactions' = transactions /\ branches' = branches /\ git' = git
  BY DEF Edit, queues
<1>3. PICK e \in Edits(svn, tree) :
         tree' = EditedTree(svn, tree, e) /\ changes' = EditedChanges(changes, tree, e)
  BY DEF Edit
<1> DEFINE p == e.path
<1>4. IsTree(tree) /\ \A r \in DOMAIN svn : IsTree(svn[r])
  BY <1>1 DEF TreesOK
<1>5. /\ p \in Path
      /\ e.op \in {"put", "mkdir", "delete", "copy"}
      /\ e.op # "delete" => ~ IsDir(tree, p)
      /\ e.op \in {"mkdir", "copy"} => p \notin DOMAIN tree
      /\ e.op = "delete" => e.from = NoPath
  <2>1. p \notin DOMAIN tree => ~ IsDir(tree, p)
    BY DEF IsDir
  <2>2. QED BY <1>4, <2>1, EditFacts
<1>6. /\ IsTree(tree')
      /\ e.op = "delete" => /\ DOMAIN tree' = {q \in DOMAIN tree : ~ IsPrefix(p, q)}
                            /\ \A q \in DOMAIN tree' : IsDir(tree, q) => IsDir(tree', q)
      /\ e.op # "delete" => /\ p \in DOMAIN tree' /\ DOMAIN tree \subseteq DOMAIN tree'
                            /\ \A q \in DOMAIN tree' : q \in DOMAIN tree \/ IsPrefix(p, q)
                            /\ \A q \in DOMAIN tree : IsDir(tree, q) => IsDir(tree', q)
      /\ \A n \in 1 .. Len(p) - 1 : IsDir(tree', SubSeq(p, 1, n))
  BY <1>3, <1>4, EditKeepsTree
<1> DEFINE kind == CASE e.op = "delete" -> "delete"
                     [] e.op = "put" /\ p \in DOMAIN tree -> "modify"
                     [] OTHER -> "add"
<1>7. /\ e.op = "delete" => kind = "delete"
      /\ e.op # "delete" => /\ kind \in {"add", "modify"}
                            /\ kind = "modify" => p \in DOMAIN tree
  <2> HIDE DEF p
  <2>1. QED OBVIOUS
<1>8. changes' = Noted(changes, p, kind, e.from, e.at)
  BY <1>3 DEF EditedChanges
<1> HIDE DEF p, kind
<1>9. /\ e.op = "delete" =>
            \A q \in DOMAIN changes' :
               \/ q \in DOMAIN changes /\ ~ IsPrefix(p, q) /\ changes'[q] = changes[q]
               \/ q = p /\ changes'[q].kind = "delete" /\ changes'[q].from = NoPath
      /\ e.op # "delete" =>
            \A q \in DOMAIN changes' :
               \/ q \in DOMAIN changes /\ changes'[q] = changes[q] /\ (q = p => p \in DOMAIN tree)
               \/ q = p /\ changes'[q].kind \in {"add", "modify", "replace"}
  <2> DEFINE at == e.at
             from == e.from
  <2>1. changes' = Noted(changes, p, kind, from, at)
    BY <1>8
  <2>2. e.op = "delete" => from = NoPath
    BY <1>5
  <2> HIDE DEF at, from
  <2>3. QED BY <1>7, <2>1, <2>2, NotedFacts
<1>10. TreesOK'
  BY <1>1, <1>2, <1>6 DEF TreesOK
<1>11. IsPrefix(p, p) /\ Len(svn) > 0
  <2>1. PICK S : svn \in Seq(S)
    BY <1>1 DEF TreesOK, IsSeq
  <2>2. QED BY <1>2, <1>5, <2>1, PrefixOrder
<1>12. ASSUME NEW q \in DOMAIN changes
       PROVE  /\ q \in Path /\ Len(q) \in Nat /\ changes[q].kind \in Kinds
              /\ changes[q].kind # "delete" => q \in DOMAIN tree
              /\ changes[q].kind = "delete" => q \notin DOMAIN tree /\ changes[q].from = NoPath
              /\ \A n \in 1 .. Len(q) - 1 : IsDir(tree, SubSeq(q, 1, n))
  <2>1. q \in Path
    BY <1>1 DEF ChangesOK
  <2>2. QED BY <1>1, <2>1, PathFacts DEF ChangesOK
<1>13. ASSUME NEW q \in DOMAIN changes'
       PROVE  /\ q \in Path /\ changes'[q].kind \in Kinds
              /\ changes'[q].kind # "delete" => q \in DOMAIN tree'
              /\ changes'[q].kind = "delete" => q \notin DOMAIN tree' /\ changes'[q].from = NoPath
              /\ \A n \in 1 .. Len(q) - 1 : IsDir(tree', SubSeq(q, 1, n))
  <2>1. CASE q = p /\ changes'[q].kind = "delete" /\ changes'[q].from = NoPath /\ e.op = "delete"
    BY <1>5, <1>6, <1>11, <2>1 DEF Kinds
  <2>2. CASE q = p /\ changes'[q].kind \in {"add", "modify", "replace"} /\ e.op # "delete"
    BY <1>5, <1>6, <2>2 DEF Kinds
  <2>3. CASE q \in DOMAIN changes /\ ~ IsPrefix(p, q) /\ changes'[q] = changes[q] /\ e.op = "delete"
    <3>1. /\ q \in DOMAIN tree => q \in DOMAIN tree'
          /\ q \notin DOMAIN tree => q \notin DOMAIN tree'
      BY <1>6, <2>3
    <3>2. ASSUME NEW n \in 1 .. Len(q) - 1 PROVE IsDir(tree', SubSeq(q, 1, n))
      <4>1. q \in Path /\ n \in 1 .. Len(q) /\ IsDir(tree, SubSeq(q, 1, n))
        BY <1>12, <2>3, <3>2
      <4>2. SubSeq(q, 1, n) \in Path /\ IsPrefix(SubSeq(q, 1, n), q)
        BY <4>1, PrefixOfPath
      <4>3. ~ IsPrefix(p, SubSeq(q, 1, n))
        BY <1>5, <2>3, <4>1, <4>2, PrefixOrder
      <4>4. SubSeq(q, 1, n) \in DOMAIN tree'
        BY <1>6, <2>3, <4>1, <4>3 DEF IsDir
      <4>5. QED BY <1>6, <2>3, <4>1, <4>4
    <3>3. QED BY <1>12, <2>3, <3>1, <3>2
  <2>4. CASE /\ q \in DOMAIN changes /\ changes'[q] = changes[q] /\ (q = p => p \in DOMAIN tree)
             /\ e.op # "delete"
    <3>1. \A n \in 1 .. Len(q) - 1 : IsDir(tree', SubSeq(q, 1, n))
      BY <1>6, <1>12, <2>4 DEF IsDir
    <3>2. q \in DOMAIN tree => q \in DOMAIN tree'
      BY <1>6, <2>4
    <3>3. ASSUME changes[q].kind = "delete" PROVE q \notin DOMAIN tree'
      <4>1. q \notin DOMAIN tree /\ q # p /\ q \in Path
        BY <1>12, <2>4, <3>3
      <4>2. SUFFICES ASSUME IsPrefix(p, q) PROVE FALSE
        BY <1>6, <2>4, <4>1
      <4>3. Len(p) \in 1 .. Len(q) - 1 /\ p = SubSeq(q, 1, Len(p))
        BY <1>5, <4>1, <4>2, PrefixOrder
      <4>4. IsDir(tree, p)
        BY <1>12, <2>4, <4>3
      <4>5. QED BY <1>5, <2>4, <4>4
    <3>4. QED BY <1>12, <2>4, <3>1, <3>2, <3>3
  <2>5. QED BY <1>9, <2>1, <2>2, <2>3, <2>4
<1>14. ChangesOK'
  <2>1. DOMAIN changes' \subseteq Path
    BY <1>13
  <2>2. QED BY <1>2, <1>11, <1>13, <2>1 DEF ChangesOK
<1>15. work = <<>> /\ deletedBranches = <<>> /\ resetBranches = <<>> /\ transactions = {}
  BY <1>1, <1>2 DEF WorkOK, QueuesEmpty
<1>16. /\ WorkOK' /\ Apart' /\ DeletedOK' /\ DeletedOnce' /\ ResetOK' /\ TransactionsOK'
       /\ QueuesEmpty'
  <2>1. /\ work' = <<>> /\ deletedBranches' = <<>> /\ resetBranches' = <<>> /\ transactions' = {}
        /\ phase' = "edit"
    BY <1>2, <1>15
  <2>2. QED BY <2>1, NothingKeeps
<1>17. BranchesOK'
  BY <1>1, <1>2 DEF BranchesOK
<1>18. QED BY <1>10, <1>14, <1>16, <1>17 DEF IInv

\* At the beginning there is a tree to import.
LEMMA InitHolds ==
    ASSUME Init
    PROVE  IInv
<1>1. /\ svn = <<>> /\ tree \in Imports /\ phase = "edit" /\ work = <<>>
      /\ deletedBranches = <<>> /\ resetBranches = <<>> /\ transactions = {}
      /\ branches = [k \in Branches |-> <<>>]
      /\ git = [k \in Branches |-> [there |-> FALSE, files |-> {}]]
      /\ changes = [p \in DOMAIN tree |-> [kind |-> "add", from |-> NoPath, at |-> 0]]
  BY DEF Init
<1>2. IsTree(tree)
  BY <1>1, SvnExportAssumption
<1>3. IsSeq(<<>>) /\ DOMAIN <<>> = {}
  BY EmptySeq DEF IsSeq
<1>4. TreesOK
  BY <1>1, <1>2, <1>3 DEF TreesOK
<1>5. ChangesOK
  <2>1. DOMAIN changes = DOMAIN tree /\ \A p \in DOMAIN changes : changes[p].kind = "add"
    BY <1>1
  <2>2. \A p \in DOMAIN tree : \A n \in 1 .. Len(p) - 1 : IsDir(tree, SubSeq(p, 1, n))
    BY <1>2 DEF IsTree
  <2>3. DOMAIN tree \subseteq Path
    BY <1>2 DEF IsTree
  <2>4. QED BY <2>1, <2>2, <2>3 DEF ChangesOK, Kinds
<1>6. WorkOK /\ Apart /\ DeletedOK /\ DeletedOnce /\ ResetOK /\ QueuesEmpty
  BY <1>1, <1>3 DEF WorkOK, Apart, DeletedOK, DeletedOnce, ResetOK, QueuesEmpty
<1>7. TransactionsOK
  BY <1>1, FS_EmptySet DEF TransactionsOK
<1>8. BranchesOK
  BY <1>1, <1>3 DEF BranchesOK
<1>9. QED BY <1>4, <1>5, <1>6, <1>7, <1>8 DEF IInv

\* A commit to Subversion gives the walk its changes; no deletion is about another, since
\* what is above a deletion is there.
LEMMA PublishKeeps ==
    ASSUME IInv, Publish
    PROVE  IInv'
<1> DEFINE paths == Listed(DOMAIN changes)
           item(p) == [path |-> p, kind |-> changes[p].kind, from |-> changes[p].from,
                       at |-> changes[p].at,
                       dir |-> \/ IsDir(tree, p)
                               \/ changes[p].kind = "delete" /\ WasDir(revnum, p),
                       entry |-> TRUE]
<1>1. /\ TreesOK /\ ChangesOK /\ WorkOK /\ QueuesEmpty /\ BranchesOK
  BY DEF IInv
<1>2. /\ phase = "edit" /\ phase' = "walk" /\ svn' = Append(svn, tree)
      /\ tree' = tree /\ changes' = changes
      /\ deletedBranches' = deletedBranches /\ resetBranches' = resetBranches
      /\ transactions' = transactions /\ branches' = branches /\ git' = git
      /\ work' = [i \in DOMAIN paths |-> item(paths[i])]
  BY DEF Publish, queues
<1>3. deletedBranches' = <<>> /\ resetBranches' = <<>> /\ transactions' = {}
  BY <1>1, <1>2 DEF QueuesEmpty
<1>4. PICK S : svn \in Seq(S)
  BY <1>1 DEF TreesOK, IsSeq
<1>5. /\ Len(svn) \in Nat /\ DOMAIN svn = 1 .. Len(svn)
      /\ svn' \in Seq(S \cup {tree}) /\ Len(svn') = Len(svn) + 1
      /\ DOMAIN svn' = 1 .. Len(svn) + 1
      /\ \A r \in 1 .. Len(svn) : svn'[r] = svn[r]
      /\ svn'[Len(svn) + 1] = tree /\ svn' # <<>>
  <2>1. svn \in Seq(S \cup {tree})
    BY <1>4
  <2>2. /\ svn' \in Seq(S \cup {tree}) /\ Len(svn') = Len(svn) + 1 /\ svn' # <<>>
        /\ \A r \in 1 .. Len(svn) : svn'[r] = svn[r]
        /\ svn'[Len(svn) + 1] = tree
    BY <1>2, <2>1, AppendProperties
  <2>3. DOMAIN svn' = 1 .. Len(svn') /\ DOMAIN svn = 1 .. Len(svn) /\ Len(svn) \in Nat
    BY <2>1, <2>2, LenProperties
  <2>4. QED BY <2>2, <2>3
<1>6. IsTree(tree) /\ \A r \in DOMAIN svn : IsTree(svn[r])
  BY <1>1 DEF TreesOK
<1>7. TreesOK'
  <2>1. ASSUME NEW r \in DOMAIN svn' PROVE IsTree(svn'[r])
    <3>1. r \in DOMAIN svn \/ r = Len(svn) + 1
      BY <1>5
    <3>2. QED BY <1>5, <1>6, <3>1
  <2>2. IsSeq(svn')
    BY <1>5 DEF IsSeq
  <2>3. svn'[Len(svn')] = tree'
    BY <1>2, <1>5
  <2>4. QED BY <1>2, <1>5, <1>6, <2>1, <2>2, <2>3 DEF TreesOK
<1>8. ASSUME NEW p \in DOMAIN changes
      PROVE  /\ p \in Path /\ changes[p].kind \in Kinds
             /\ changes[p].kind # "delete" => p \in DOMAIN tree
             /\ changes[p].kind = "delete" =>
                   p \notin DOMAIN tree /\ changes[p].from = NoPath /\ Len(svn) > 0
             /\ \A n \in 1 .. Len(p) - 1 : IsDir(tree, SubSeq(p, 1, n))
  BY <1>1, <1>2 DEF ChangesOK
<1>9. ChangesOK'
  <2>1. Len(svn) > 0 => Len(svn') > 1
    BY <1>5
  <2>2. DOMAIN changes' \subseteq Path
    BY <1>2, <1>8
  <2>3. QED BY <1>2, <1>8, <2>1, <2>2 DEF ChangesOK
<1>10. /\ paths \in Seq(DOMAIN changes \cap Path)
       /\ \A i, j \in DOMAIN paths : paths[i] = paths[j] => i = j
  BY ListedFacts
<1> HIDE DEF paths
<1>11. /\ Len(paths) \in Nat /\ DOMAIN paths = 1 .. Len(paths)
       /\ \A i \in DOMAIN paths : paths[i] \in DOMAIN changes
  BY <1>10
<1>12. ASSUME NEW p \in DOMAIN changes
       PROVE  \E it : /\ it = item(p) /\ it.path = p /\ it.kind = changes[p].kind
                      /\ ItemOK(it)'
  <2>1. /\ item(p).path = p /\ item(p).kind = changes[p].kind /\ item(p).from = changes[p].from
    OBVIOUS
  <2>2. item(p).dir \in BOOLEAN /\ (item(p).dir => p \in DirPath)
    <3>1. IsDir(tree, p) \in BOOLEAN /\ (IsDir(tree, p) => p \in DirPath)
      BY <1>6 DEF IsDir, IsTree
    <3>2. WasDir(revnum, p) \in BOOLEAN /\ (WasDir(revnum, p) => p \in DirPath)
      BY <1>6 DEF WasDir, IsDir, IsTree
    <3>3. item(p).dir = (IsDir(tree, p) \/ (changes[p].kind = "delete" /\ WasDir(revnum, p)))
      OBVIOUS
    <3> HIDE DEF item
    <3>4. CASE item(p).dir = TRUE
      BY <3>1, <3>2, <3>3, <3>4
    <3>5. CASE item(p).dir = FALSE
      BY <3>5
    <3>6. QED BY <3>3, <3>4, <3>5
  <2>3. p \in DOMAIN changes' /\ IsPrefix(p, p)
    BY <1>2, <1>8, PrefixOrder
  <2>4. Len(svn) > 0 => Len(svn') > 1
    BY <1>5
  <2>5. PICK it : it = item(p)
    OBVIOUS
  <2> HIDE DEF item
  <2>6. ItemOK(it)'
    BY <1>2, <1>8, <2>1, <2>2, <2>3, <2>4, <2>5 DEF ItemOK
  <2>7. QED BY <2>1, <2>5, <2>6
<1>13. /\ Len(work') \in Nat /\ DOMAIN work' = DOMAIN paths /\ IsSeq(work')
       /\ \A i \in DOMAIN work' : work'[i] = item(paths[i])
  <2> DEFINE items == {item(paths[i]) : i \in 1 .. Len(paths)}
  <2> HIDE DEF item
  <2>1. work' = [i \in 1 .. Len(paths) |-> item(paths[i])]
    BY <1>2, <1>11
  <2>2. work' \in Seq(items)
    BY <1>11, <2>1
  <2>3. Len(work') \in Nat /\ IsSeq(work')
    BY <2>2, LenProperties DEF IsSeq
  <2>4. DOMAIN work' = 1 .. Len(paths) /\ \A i \in 1 .. Len(paths) : work'[i] = item(paths[i])
    BY <2>1
  <2>5. QED BY <1>11, <2>3, <2>4
<1> HIDE DEF item
<1>14. \A i \in DOMAIN work' : /\ work'[i].path = paths[i]
                               /\ work'[i].kind = changes[paths[i]].kind
                               /\ paths[i] \in DOMAIN changes
  BY <1>11, <1>12, <1>13
<1>15. WorkOK'
  <2>1. (\A i \in DOMAIN work : ItemOK(work[i]))'
    BY <1>11, <1>12, <1>13
  <2>2. QED BY <1>2, <1>13, <2>1 DEF WorkOK
<1>16. Apart'
  <2>1. ASSUME NEW i \in DOMAIN work', NEW j \in DOMAIN work',
               work'[i].kind = "delete", work'[j].kind = "delete",
               IsPrefix(work'[i].path, work'[j].path)
        PROVE  i = j
    <3> DEFINE p == paths[i]
               q == paths[j]
    <3>1. /\ p \in DOMAIN changes /\ q \in DOMAIN changes
          /\ changes[p].kind = "delete" /\ changes[q].kind = "delete" /\ IsPrefix(p, q)
      BY <1>14, <2>1
    <3>2. p = q \/ (Len(p) \in 1 .. Len(q) - 1 /\ p = SubSeq(q, 1, Len(p)))
      BY <1>8, <3>1, PrefixOrder
    <3>3. CASE p = q
      BY <1>10, <1>13, <2>1, <3>3
    <3>4. CASE Len(p) \in 1 .. Len(q) - 1 /\ p = SubSeq(q, 1, Len(p))
      <4>1. IsDir(tree, p)
        BY <1>8, <3>1, <3>4
      <4>2. QED BY <1>8, <3>1, <4>1 DEF IsDir
    <3>5. QED BY <3>2, <3>3, <3>4
  <2>2. QED BY <2>1 DEF Apart
<1>17. DeletedOK' /\ DeletedOnce' /\ ResetOK' /\ TransactionsOK' /\ QueuesEmpty'
  <2>1. IsSeq(<<>>) /\ DOMAIN <<>> = {}
    BY EmptySeq DEF IsSeq
  <2>2. DeletedOK' /\ DeletedOnce' /\ ResetOK' /\ QueuesEmpty'
    BY <1>3, <2>1 DEF DeletedOK, DeletedOnce, ResetOK, QueuesEmpty
  <2>3. TransactionsOK'
    BY <1>3, FS_EmptySet DEF TransactionsOK
  <2>4. QED BY <2>2, <2>3
<1>18. BranchesOK'
  BY <1>1, <1>2 DEF BranchesOK
<1>19. QED BY <1>7, <1>9, <1>15, <1>16, <1>17, <1>18 DEF IInv

\* A commit to git empties the queues, or stops the conversion.
LEMMA CommitKeeps ==
    ASSUME IInv, Commit
    PROVE  IInv'
<1> DEFINE reset == AfterQueues
           new   == AfterTransactions(reset)
           count(k) == Cardinality({t \in transactions : KeyOf(t) = k})
           commits(k) == [i \in 1 .. count(k) |->
                             [rev |-> revnum, has |-> TRUE, files |-> new[k].files]]
<1>1. /\ TreesOK /\ ChangesOK /\ WorkOK /\ Apart /\ ResetOK /\ TransactionsOK /\ BranchesOK
  BY DEF IInv
<1>2. /\ phase = "walk" /\ work = <<>>
      /\ svn' = svn /\ tree' = tree /\ work' = work
  BY DEF Commit
<1>3. CASE \E i \in DOMAIN resetBranches : ~ reset[resetBranches[i].branch].there
  <2>1. phase' = "failed" /\ UNCHANGED <<git, queues, changes>>
    BY <1>3 DEF Commit
  <2>2. QED BY <1>2, <2>1, StopKeeps
<1>4. CASE ~ \E i \in DOMAIN resetBranches : ~ reset[resetBranches[i].branch].there
  <2>1. /\ git' = new
        /\ branches' = [k \in Branches |-> branches[k] \o commits(k)]
        /\ deletedBranches' = <<>> /\ resetBranches' = <<>> /\ transactions' = {}
        /\ changes' = <<>> /\ phase' = "edit"
    BY <1>4 DEF Commit
  <2>2. IsFiniteSet(transactions) /\ Len(resetBranches) \in Nat
    <3>1. PICK S : resetBranches \in Seq(S)
      BY <1>1 DEF ResetOK, IsSeq
    <3>2. QED BY <1>1, <3>1 DEF TransactionsOK
  <2>3. DOMAIN git' = Branches
    <3>1. DOMAIN reset = Branches
      BY <2>2, QueuesKeepRefs
    <3> HIDE DEF reset
    <3>2. DOMAIN AfterTransactions(reset) = Branches
      BY <2>2, <3>1, TransactionsKeepRefs
    <3>3. QED BY <2>1, <3>2
  <2>4. ASSUME NEW k \in Branches PROVE IsSeq(branches'[k])
    <3>1. PICK S : branches[k] \in Seq(S)
      BY <1>1 DEF BranchesOK, IsSeq
    <3>2. count(k) \in Nat
      <4>1. IsFiniteSet({t \in transactions : KeyOf(t) = k})
        BY <2>2, FS_Subset
      <4>2. QED BY <4>1, FS_CardinalityType
    <3> DEFINE c == [rev |-> revnum, has |-> TRUE, files |-> new[k].files]
    <3> HIDE DEF count, new
    <3>3. commits(k) = [i \in 1 .. count(k) |-> c]
      OBVIOUS
    <3> HIDE DEF commits, c
    <3>4. commits(k) \in Seq({c})
      BY <3>2, <3>3
    <3>5. branches[k] \o commits(k) \in Seq(S \cup {c})
      <4>1. branches[k] \in Seq(S \cup {c}) /\ commits(k) \in Seq(S \cup {c})
        BY <3>1, <3>4
      <4>2. QED BY <4>1, ConcatProperties
    <3>6. branches'[k] = branches[k] \o commits(k)
      BY <2>1
    <3>7. QED BY <3>5, <3>6 DEF IsSeq
  <2>5. BranchesOK'
    <3>1. DOMAIN branches' = Branches
      BY <2>1
    <3>2. QED BY <2>3, <2>4, <3>1 DEF BranchesOK
  <2>6. TreesOK'
    BY <1>1, <1>2, <2>1 DEF TreesOK
  <2>7. ChangesOK'
    <3>1. DOMAIN changes' = {}
      BY <2>1
    <3>2. QED BY <3>1 DEF ChangesOK
  <2>8. /\ WorkOK' /\ Apart' /\ DeletedOK' /\ DeletedOnce' /\ ResetOK' /\ TransactionsOK'
        /\ QueuesEmpty'
    <3>1. work' = <<>>
      BY <1>2
    <3>2. QED BY <2>1, <3>1, NothingKeeps
  <2>9. QED BY <2>5, <2>6, <2>7, <2>8 DEF IInv
<1>5. QED BY <1>3, <1>4

\* Every step keeps the invariant.
LEMMA StepKeeps ==
    ASSUME IInv, [Next]_vars
    PROVE  IInv'
<1>1. CASE Edit
  BY <1>1, EditKeeps
<1>2. CASE Publish
  BY <1>2, PublishKeeps
<1>3. CASE Skip
  BY <1>3, SkipKeeps
<1>4. CASE Recurse
  BY <1>4, RecurseKeeps
<1>5. CASE Fail
  <2>1. phase = "walk" /\ phase' = "failed" /\ UNCHANGED <<svn, tree, changes, work, queues, git>>
    BY <1>5 DEF Fail, source
  <2>2. QED BY <2>1, StopKeeps
<1>6. CASE DeleteBranch
  BY <1>6, DeleteBranchKeeps
<1>7. CASE CreateBranch
  BY <1>7, CreateBranchKeeps
<1>8. CASE ChangeFiles
  BY <1>8, ChangeFilesKeeps
<1>9. CASE Commit
  BY <1>9, CommitKeeps
<1>10. CASE UNCHANGED vars
  <2>1. /\ svn' = svn /\ tree' = tree /\ changes' = changes /\ work' = work /\ phase' = phase
        /\ deletedBranches' = deletedBranches /\ resetBranches' = resetBranches
        /\ transactions' = transactions /\ branches' = branches /\ git' = git
    BY <1>10 DEF vars, source, queues
  <2>2. /\ TreesOK' /\ ChangesOK' /\ WorkOK' /\ Apart' /\ BranchesOK' /\ QueuesEmpty'
    BY <2>1 DEF IInv, TreesOK, ChangesOK, WorkOK, ItemOK, Apart, BranchesOK, QueuesEmpty
  <2>3. Deletions' \subseteq Deletions
    BY <2>1 DEF Deletions
  <2>4. ResetOK' /\ DeletedOK' /\ \A t : TransactionOK(t) => TransactionOK(t)'
    BY <2>1, <2>2, <2>3, FewerIsFiner, FinerKeeps DEF IInv
  <2>5. \A t, m : MergeOK(t, m) => MergeOK(t, m)'
    BY <2>1, MergesStay
  <2>6. TransactionsOK'
    BY <2>1, <2>4, <2>5 DEF IInv, TransactionsOK
  <2>7. DeletedOnce'
    BY <2>1 DEF IInv, DeletedOnce, KeyOf
  <2>8. QED BY <2>2, <2>4, <2>6, <2>7 DEF IInv
<1>11. QED BY <1>1, <1>2, <1>3, <1>4, <1>5, <1>6, <1>7, <1>8, <1>9, <1>10 DEF Next

\* The invariant holds at every step.
LEMMA Invariant == Spec => []IInv
BY InitHolds, StepKeeps, PTL DEF Spec

-----------------------------------------------------------------------------
(* The theorems *)

\* What is looked at are paths and what was done to them, and what is asked for are branches
\* the rules can name.
THEOREM SvnExportTypes == Spec => []TypeOK
<1>1. IInv => TypeOK
  <2>1. SUFFICES ASSUME IInv PROVE TypeOK
    OBVIOUS
  <2>2. /\ TreesOK /\ ChangesOK /\ WorkOK /\ DeletedOK /\ TransactionsOK /\ BranchesOK
    BY <2>1 DEF IInv
  <2>3. \A r \in DOMAIN svn : DOMAIN svn[r] \subseteq Path
    BY <2>2 DEF TreesOK, IsTree
  <2>4. /\ DOMAIN changes \subseteq Path /\ phase \in {"edit", "walk", "failed"}
        /\ \A i \in DOMAIN work : /\ work[i].path \in Path
                                  /\ work[i].kind \in {"add", "modify", "replace", "delete"}
    BY <2>2 DEF ChangesOK, WorkOK, ItemOK, Kinds
  <2>5. Range(deletedBranches) \subseteq Branches
    <3>1. \A i \in DOMAIN deletedBranches : deletedBranches[i] \in Branches
      BY <2>2, KeyIsBranch DEF DeletedOK, Touched
    <3>2. QED BY <3>1 DEF Range
  <2>6. \A t \in transactions : KeyOf(t) \in Branches
    BY <2>2, CommitsTo, KeyIsBranch DEF TransactionsOK, TransactionOK, Touched
  <2>7. QED BY <2>2, <2>3, <2>4, <2>5, <2>6 DEF TypeOK, BranchesOK
<1>2. QED BY <1>1, Invariant, PTL

\* If each branch has one directory, a branch that a revision deletes is not mentioned
\* otherwise, no branch has two transactions, and what is merged are commits of other
\* branches of the same repository, whatever the revision deletes, copies and changes.
THEOREM SvnExportAsksProperly ==
    ASSUME OneDirectory
    PROVE  Spec => []AsksProperly
<1>1. IInv => AsksProperly
  <2>1. SUFFICES ASSUME IInv PROVE AsksProperly
    OBVIOUS
  <2>2. /\ DeletedOK /\ DeletedOnce /\ ResetOK /\ TransactionsOK
    BY <2>1 DEF IInv
  <2>3. /\ \A i, j \in DOMAIN deletedBranches : deletedBranches[i] = deletedBranches[j] => i = j
        /\ \A i \in DOMAIN deletedBranches : \A t \in transactions : KeyOf(t) # deletedBranches[i]
    BY <2>2 DEF DeletedOnce
  <2>4. ASSUME NEW i \in DOMAIN deletedBranches, NEW j \in DOMAIN resetBranches,
               resetBranches[j].branch = deletedBranches[i]
        PROVE  FALSE
    <3>1. PICK d \in DirPath :
             Touched(d) /\ deletedBranches[i] = KeyAt(d) /\ d \notin DOMAIN tree
      BY <2>2 DEF DeletedOK
    <3>2. PICK e \in DirPath :
             Touched(e) /\ resetBranches[j].branch = KeyAt(e) /\ e \in DOMAIN tree
      BY <2>2 DEF ResetOK
    <3>3. d = e
      BY <2>4, <3>1, <3>2 DEF OneDirectory, Touched
    <3>4. QED BY <3>1, <3>2, <3>3
  <2>5. \A k \in Range(deletedBranches) :
           /\ \A i \in DOMAIN resetBranches : resetBranches[i].branch # k
           /\ \A t \in transactions : KeyOf(t) # k
    BY <2>3, <2>4 DEF Range
  <2>6. ASSUME NEW t \in transactions, NEW u \in transactions, KeyOf(t) = KeyOf(u)
        PROVE  t = u
    <3>1. PICK d \in DirPath : Touched(d) /\ t.key = NameAt(d)
      BY <2>2 DEF TransactionsOK, TransactionOK
    <3>2. PICK e \in DirPath : Touched(e) /\ u.key = NameAt(e)
      BY <2>2 DEF TransactionsOK, TransactionOK
    <3>3. KeyAt(d) = KeyAt(e)
      BY <2>6, <3>1, <3>2, CommitsTo
    <3>4. d = e
      BY <3>1, <3>2, <3>3 DEF OneDirectory, Touched
    <3>5. QED BY <2>2, <3>1, <3>2, <3>4 DEF TransactionsOK
  <2>7. \A t \in transactions : \A m \in t.merges : MergeOK(t, m)
    BY <2>2 DEF TransactionsOK
  <2>8. QED BY <2>3, <2>5, <2>6, <2>7 DEF AsksProperly, MergeOK
<1>2. QED BY <1>1, Invariant, PTL

\* The branches whose commits a step of an item's export changes.
LEMMA ItemTouches ==
    ASSUME IInv, work # <<>>, Exports(Head(work)),
           NEW has, NEW files, branches' = Committed(BranchKey(Target(Head(work))), has, files),
           NEW k \in Branches, branches'[k] # branches[k]
    PROVE  \E d \in DirPath : Touched(d) /\ KeyAt(d) = k
<1>1. TreesOK /\ ChangesOK /\ WorkOK /\ BranchesOK
  BY DEF IInv
<1>2. ItemOK(Head(work))
  <2>1. PICK S : work \in Seq(S)
    BY <1>1 DEF WorkOK, IsSeq
  <2>2. Head(work) = work[1] /\ 1 \in DOMAIN work
    BY <2>1
  <2>3. QED BY <1>1, <2>2 DEF WorkOK
<1>3. k = BranchKey(Target(Head(work)))
  BY <1>1 DEF Committed, BranchesOK
<1>4. QED BY <1>1, <1>2, <1>3, ItemDirectory

\* Only branches the revision is about get commits, resets or deletions.
THEOREM SvnExportLeavesOthers == Spec => OthersUntouched
<1> DEFINE About(k) == \E p \in DOMAIN changes, d \in DirPath :
                          /\ IsPrefix(d, p) \/ IsPrefix(p, d)
                          /\ IsBranch(d) /\ KeyAt(d) = k
           Kept == \A k \in Branches : branches'[k] # branches[k] => About(k)
<1>1. ASSUME IInv, Next, NEW k \in Branches, branches'[k] # branches[k]
      PROVE  \E d \in DirPath : Touched(d) /\ KeyAt(d) = k
  <2>1. CASE Edit \/ Publish \/ Skip \/ Recurse \/ Fail \/ ChangeFiles
    BY <1>1, <2>1 DEF Edit, Publish, Skip, Recurse, Fail, ChangeFiles, queues
  <2>2. CASE DeleteBranch
    <3>1. /\ work # <<>> /\ Exports(Head(work))
          /\ branches' = Committed(BranchKey(Target(Head(work))), FALSE, {})
      BY <2>2 DEF DeleteBranch
    <3>2. QED BY <1>1, <3>1, ItemTouches
  <2>3. CASE CreateBranch
    <3> DEFINE mark == CommitAt(BranchKey(Source(Head(work))), Head(work).at)
    <3>1. /\ work # <<>> /\ Exports(Head(work))
          /\ \/ branches' = Committed(BranchKey(Target(Head(work))), mark.has, mark.files)
             \/ branches' = branches
      BY <2>3 DEF CreateBranch, queues
    <3>2. QED BY <1>1, <3>1, ItemTouches
  <2>4. CASE Commit
    <3>1. PICK S : branches[k] \in Seq(S)
      BY <1>1 DEF IInv, BranchesOK, IsSeq
    <3>2. PICK f : branches' = [l \in Branches |->
                      branches[l] \o [i \in 1 .. Cardinality({t \in transactions : KeyOf(t) = l}) |->
                                         [rev |-> revnum, has |-> TRUE, files |-> f[l].files]]]
      BY <1>1, <2>4 DEF Commit, queues
    <3>3. {t \in transactions : KeyOf(t) = k} # {}
      <4>1. SUFFICES ASSUME {t \in transactions : KeyOf(t) = k} = {} PROVE FALSE
        OBVIOUS
      <4>2. Cardinality({t \in transactions : KeyOf(t) = k}) = 0
        BY <4>1, FS_EmptySet
      <4>3. branches'[k] = branches[k] \o [i \in 1 .. 0 |->
                              [rev |-> revnum, has |-> TRUE, files |-> f[k].files]]
        BY <3>2, <4>2
      <4>4. [i \in 1 .. 0 |-> [rev |-> revnum, has |-> TRUE, files |-> f[k].files]] = <<>>
        OBVIOUS
      <4>5. branches[k] \o <<>> = branches[k]
        BY <3>1, ConcatEmptySeq
      <4>6. QED BY <1>1, <4>3, <4>4, <4>5
    <3>4. PICK t \in transactions : KeyOf(t) = k
      BY <3>3
    <3>5. PICK d \in DirPath : Touched(d) /\ t.key = NameAt(d)
      BY <1>1, <3>4 DEF IInv, TransactionsOK, TransactionOK
    <3>6. QED BY <3>4, <3>5, CommitsTo
  <2>5. QED BY <1>1, <2>1, <2>2, <2>3, <2>4 DEF Next
<1>2. ASSUME IInv, [Next]_vars PROVE [Kept]_vars
  <2>1. CASE Next
    <3>1. Kept
      BY <1>1, <1>2, <2>1 DEF Touched
    <3>2. QED BY <3>1
  <2>2. CASE UNCHANGED vars
    BY <2>2
  <2>3. QED BY <1>2, <2>1, <2>2
<1>3. Spec => [][Kept]_vars
  <2> HIDE DEF Kept
  <2>1. QED BY <1>2, Invariant, PTL DEF Spec
<1>4. QED BY <1>3 DEF OthersUntouched
=============================================================================
