------------------------- MODULE IncrementalProofs -------------------------
(***************************************************************************)
(* Proofs about the choice of the revision to resume at, for any number of *)
(* repositories, any logs in order and any --resume-from.                  *)
(***************************************************************************)
EXTENDS Incremental, WellFoundedInduction, SequenceTheorems, TLAPS

\* A set of natural numbers has a least element.
LEMMA Least ==
    ASSUME NEW S, S \subseteq Nat, S # {}
    PROVE  \E i \in S : \A j \in S : i <= j
<1>1. PICK i \in S : \A j \in S : ~ (<<j, i>> \in OpToRel(<, Nat))
  BY NatLessThanWellFounded, WFMin
<1>2. \A j \in S : ~ (j < i)
  BY <1>1 DEF OpToRel
<1>3. QED BY <1>2

Line == [rev : 1 .. MaxRev, mark : 0 .. MaxMark]

InOrder(lines) == \A i, j \in DOMAIN lines : i < j => lines[i].rev <= lines[j].rev

\* A log as the run found it, or cut.
CutFrom(lines, whole) ==
    /\ Len(lines) <= Len(whole)
    /\ \A i \in 1 .. Len(lines) : lines[i] = whole[i]

\* What is kept of r is past, or r was interrupted within min_rev.
Past(r) ==
    \A i \in 1 .. Len(log[r]) :
        \/ log[r][i].rev < min_rev
        \/ /\ log[r][i].rev = min_rev
           /\ Len(log[r]) < Len(before[r])
           /\ before[r][Len(log[r]) + 1].rev = min_rev
           /\ before[r][Len(log[r]) + 1].mark > valid[r]

LogsOK ==
    \A r \in Repo :
        /\ log[r] \in Seq(Line) /\ before[r] \in Seq(Line)
        /\ InOrder(before[r])
        /\ CutFrom(log[r], before[r])

\* What was dropped lies beyond the cutoff.
DroppedOK ==
    status \in {"loop", "export"} =>
        \A r \in Repo : \A i \in 1 .. Len(before[r]) :
            i > Len(log[r]) => cutoff <= before[r][i].rev

\* The cutoff is at least min_rev, and at most what --resume-from says.
CutoffOK ==
    status \in {"loop", "export"} =>
        /\ min_rev <= cutoff
        /\ resume_from # 0 => cutoff <= resume_from
        /\ status = "export" => cutoff >= resume_from

\* Of the repositories asked so far only the past is kept, unless the run will fail.
PastOK ==
    /\ status = "loop" /\ cutoff >= resume_from =>
           \A r \in Repo : r < next => Past(r)
    /\ status = "export" => \A r \in Repo : Past(r)

Types ==
    /\ log \in [Repo -> Seq(Line)]
    /\ before \in [Repo -> Seq(Line)]
    /\ valid \in [Repo -> 0 .. MaxMark]
    /\ status \in {"off", "loop", "export", "failed"}
    /\ next \in 1 .. NRepo + 1
    /\ cutoff \in 1 .. INT_MAX
    /\ min_rev \in 1 .. MaxRev + 1
    /\ resume_from \in 0 .. MaxRev
    /\ again \in BOOLEAN

\* The inductive invariant.
IInv == Types /\ LogsOK /\ DroppedOK /\ CutoffOK /\ PastOK

\* The bounds as numbers.
LEMMA Bounds == /\ NRepo \in Nat /\ MaxRev \in Nat /\ MaxMark \in Nat /\ INT_MAX \in Nat
                /\ MaxRev + 1 < INT_MAX
BY IncrementalAssumption

-----------------------------------------------------------------------------
(* setupIncremental of one repository *)

\* The lines kept are those before the first that is not.
LEMMA KeptFacts ==
    ASSUME NEW lines \in Seq(Line), NEW limit \in Nat, NEW known \in Nat
    PROVE  LET n == Kept(lines, limit, known)
           IN  /\ n \in 0 .. Len(lines)
               /\ \A i \in 1 .. n : ~ Stops(lines[i], limit, known)
               /\ n < Len(lines) => Stops(lines[n + 1], limit, known)
<1> DEFINE S == {k \in 0 .. Len(lines) : k < Len(lines) => Stops(lines[k + 1], limit, known)}
           Good(n) == /\ \A i \in 1 .. n : ~ Stops(lines[i], limit, known)
                      /\ n < Len(lines) => Stops(lines[n + 1], limit, known)
<1>1. Len(lines) \in S /\ S \subseteq Nat
  OBVIOUS
<1>2. PICK k \in S : \A j \in S : k <= j
  BY <1>1, Least
<1>3. \A i \in 1 .. k : ~ Stops(lines[i], limit, known)
  <2>1. SUFFICES ASSUME NEW i \in 1 .. k, Stops(lines[i], limit, known) PROVE FALSE
    OBVIOUS
  <2>2. i - 1 \in S
    BY <1>2, <2>1
  <2>3. k <= i - 1 /\ k \in Nat /\ i \in 1 .. k
    BY <1>1, <1>2, <2>1, <2>2
  <2>4. QED BY <2>3
<1>4. k \in 0 .. Len(lines) /\ Good(k)
  BY <1>2, <1>3
<1>5. Kept(lines, limit, known) = CHOOSE n \in 0 .. Len(lines) : Good(n)
  BY DEF Kept
<1> HIDE DEF Good
<1>6. Kept(lines, limit, known) \in 0 .. Len(lines) /\ Good(Kept(lines, limit, known))
  BY <1>4, <1>5
<1>7. QED BY <1>6 DEF Good

\* What a repository reports: the cutoff does not grow, what it drops lies beyond it, and
\* the revision it asks for is behind all it keeps, or the one it was interrupted in.
LEMMA ReportFacts ==
    ASSUME NEW lines \in Seq(Line), InOrder(lines), NEW limit \in 1 .. INT_MAX,
           NEW known \in 0 .. MaxMark
    PROVE  LET n  == Kept(lines, limit, known)
               c  == Cutoff(lines, n, limit)
               rn == RepoNext(lines, n, limit)
           IN  /\ n \in 0 .. Len(lines)
               /\ c \in 1 .. INT_MAX /\ c <= limit
               /\ rn \in 1 .. MaxRev + 1 \/ rn = c
               /\ rn <= c
               /\ \A i \in n + 1 .. Len(lines) : c <= lines[i].rev
               /\ \A i \in 1 .. n : \/ lines[i].rev < rn
                                    \/ /\ lines[i].rev = c
                                       /\ rn = c
                                       /\ n < Len(lines)
                                       /\ lines[n + 1].rev = c
                                       /\ lines[n + 1].mark > known
               /\ c = limit \/ c \in 1 .. MaxRev
               /\ n < Len(lines) => c \in 1 .. MaxRev
<1> DEFINE n  == Kept(lines, limit, known)
           c  == Cutoff(lines, n, limit)
           rn == RepoNext(lines, n, limit)
<1>1. /\ n \in 0 .. Len(lines)
      /\ \A i \in 1 .. n : ~ Stops(lines[i], limit, known)
      /\ n < Len(lines) => Stops(lines[n + 1], limit, known)
  <2>1. limit \in Nat /\ known \in Nat
    BY Bounds
  <2>2. QED BY <2>1, KeptFacts
<1>2. Len(lines) \in Nat /\ DOMAIN lines = 1 .. Len(lines)
  OBVIOUS
<1>3. \A i \in 1 .. Len(lines) : lines[i].rev \in 1 .. MaxRev /\ lines[i].mark \in 0 .. MaxMark
  <2>1. \A i \in 1 .. Len(lines) : lines[i] \in Line
    OBVIOUS
  <2>2. QED BY <2>1 DEF Line
<1>4. \A i, j \in 1 .. Len(lines) : i <= j => lines[i].rev <= lines[j].rev
  <2>1. \A i \in 1 .. Len(lines) : lines[i].rev \in Nat
    BY <1>3, Bounds
  <2>2. \A i, j \in 1 .. Len(lines) : i < j => lines[i].rev <= lines[j].rev
    BY <1>2 DEF InOrder
  <2>3. QED BY <1>2, <2>1, <2>2
<1>5. \A i \in 1 .. n : lines[i].rev < limit
  BY <1>1, <1>2, <1>3, Bounds DEF Stops
<1>6. CASE n < Len(lines)
  <2> DEFINE stop == lines[n + 1]
  <2>1. /\ n + 1 \in 1 .. Len(lines) /\ stop.rev \in 1 .. MaxRev
        /\ stop.rev >= limit \/ stop.mark > known
    BY <1>1, <1>2, <1>3, <1>6 DEF Stops
  <2>2. c = IF stop.rev < limit THEN stop.rev ELSE limit
    BY <1>6 DEF Cutoff
  <2>3. rn = c
    BY <1>6 DEF RepoNext
  <2> HIDE DEF c, rn, n
  <2>4. c \in 1 .. MaxRev /\ c <= limit /\ c <= stop.rev
    BY <2>1, <2>2, Bounds
  <2>5. \A i \in n + 1 .. Len(lines) : stop.rev <= lines[i].rev
    BY <1>1, <1>2, <1>4, <2>1
  <2>6. \A i \in n + 1 .. Len(lines) : c <= lines[i].rev
    BY <1>1, <1>2, <1>3, <2>1, <2>4, <2>5, Bounds
  <2>7. ASSUME NEW i \in 1 .. n
        PROVE  \/ lines[i].rev < c
               \/ lines[i].rev = c /\ stop.rev = c /\ stop.mark > known
    <3>1. lines[i].rev <= stop.rev /\ lines[i].rev < limit /\ lines[i].rev \in 1 .. MaxRev
      BY <1>1, <1>2, <1>3, <1>4, <1>5, <2>1
    <3>2. QED BY <2>1, <2>2, <2>4, <3>1, Bounds
  <2>8. QED BY <1>1, <1>6, <2>1, <2>3, <2>4, <2>6, <2>7, Bounds DEF c, rn, n
<1>7. CASE n = Len(lines)
  <2>1. c = limit
    BY <1>2, <1>7 DEF Cutoff
  <2>2. rn = IF n = 0 THEN 1 ELSE lines[n].rev + 1
    BY <1>2, <1>7 DEF RepoNext
  <2> HIDE DEF c, rn, n
  <2>3. rn \in 1 .. MaxRev + 1 /\ rn <= limit
    <3>1. CASE n = 0
      BY <2>2, <3>1, Bounds
    <3>2. CASE n # 0
      <4>1. n \in 1 .. Len(lines) /\ n \in 1 .. n
        BY <1>1, <1>2, <3>2
      <4>2. lines[n].rev \in 1 .. MaxRev /\ lines[n].rev < limit
        BY <1>3, <1>5, <4>1
      <4>3. QED BY <2>2, <3>2, <4>2, Bounds
    <3>3. QED BY <3>1, <3>2
  <2>4. ASSUME NEW i \in 1 .. n
        PROVE  lines[i].rev < rn
    <3>1. n \in 1 .. Len(lines) /\ i \in 1 .. Len(lines) /\ i <= n /\ n # 0
      BY <1>1, <1>2
    <3>2. lines[i].rev <= lines[n].rev /\ lines[n].rev \in 1 .. MaxRev
          /\ lines[i].rev \in 1 .. MaxRev
      BY <1>3, <1>4, <3>1
    <3>3. QED BY <2>2, <3>1, <3>2, Bounds
  <2>5. QED BY <1>1, <1>2, <1>7, <2>1, <2>3, <2>4, Bounds DEF c, rn, n
<1>8. QED BY <1>1, <1>2, <1>6, <1>7

-----------------------------------------------------------------------------
(* The inductive invariant *)

\* The converter has not run.
LEMMA InitIInv == Init => IInv
<1> SUFFICES ASSUME Init PROVE IInv
  OBVIOUS
<1>1. \A r \in Repo : log[r] \in Log
  BY DEF Init
<1>2. \A r \in Repo : log[r] \in Seq(Line) /\ InOrder(log[r])
  BY <1>1, IncrementalAssumption DEF Line, InOrder
<1>3. Types
  <2>1. log \in [Repo -> Seq(Line)]
    BY <1>2 DEF Init
  <2>2. valid \in [Repo -> 0 .. MaxMark] /\ before = log /\ status = "off" /\ again = FALSE
    BY DEF Init
  <2>3. next = 1 /\ min_rev = 1 /\ resume_from = 0 /\ cutoff = INT_MAX
    BY DEF Init
  <2>4. /\ next \in 1 .. NRepo + 1 /\ min_rev \in 1 .. MaxRev + 1
        /\ resume_from \in 0 .. MaxRev /\ cutoff \in 1 .. INT_MAX
    BY <2>3, Bounds
  <2>5. QED BY <2>1, <2>2, <2>4 DEF Types
<1>4. LogsOK
  BY <1>2 DEF Init, LogsOK, CutFrom
<1>5. DroppedOK /\ CutoffOK /\ PastOK
  BY DEF Init, DroppedOK, CutoffOK, PastOK
<1>6. QED BY <1>3, <1>4, <1>5 DEF IInv

\* A log that was cut is in order like the whole one.
LEMMA CutInOrder ==
    ASSUME NEW lines \in Seq(Line), NEW whole \in Seq(Line), CutFrom(lines, whole),
           InOrder(whole)
    PROVE  InOrder(lines)
<1>1. DOMAIN lines = 1 .. Len(lines) /\ DOMAIN whole = 1 .. Len(whole)
  OBVIOUS
<1>2. QED BY <1>1 DEF CutFrom, InOrder

\* A run begins with the logs as they are.
LEMMA StartStep ==
    ASSUME IInv, NEW from \in ResumeFroms, Start(from)
    PROVE  IInv'
<1>1. /\ resume_from' = from /\ cutoff' = (IF from # 0 THEN from ELSE INT_MAX)
      /\ min_rev' = 1 /\ next' = 1 /\ status' = "loop" /\ before' = log
      /\ again' \in BOOLEAN /\ log' = log /\ valid' = valid
  BY DEF Start
<1>2. from \in 0 .. MaxRev
  BY IncrementalAssumption
<1>3. cutoff' \in 1 .. INT_MAX
  BY <1>1, <1>2, Bounds
<1>4. \A r \in Repo : log[r] \in Seq(Line) /\ InOrder(log[r])
  BY CutInOrder DEF IInv, LogsOK
<1>5. Types'
  BY <1>1, <1>2, <1>3, Bounds DEF IInv, Types
<1>6. LogsOK'
  BY <1>1, <1>4 DEF LogsOK, CutFrom
<1>7. DroppedOK'
  BY <1>1 DEF DroppedOK
<1>8. CutoffOK'
  BY <1>1, <1>2, <1>3, Bounds DEF CutoffOK
<1>9. PastOK'
  BY <1>1 DEF PastOK, Repo
<1>10. QED BY <1>5, <1>6, <1>7, <1>8, <1>9 DEF IInv

\* What asking one repository changes: its log is cut, or, in a run that is going to fail,
\* left as it was; the backup file plays no part in that.
LEMMA AskedFacts ==
    ASSUME IInv, SetupIncremental
    PROVE  LET n  == Kept(log[next], cutoff, valid[next])
               c  == Cutoff(log[next], n, cutoff)
               rn == RepoNext(log[next], n, cutoff)
           IN  /\ next \in Repo /\ status = "loop"
               /\ cutoff' = c
               /\ \/ log' = [log EXCEPT ![next] = SubSeq(@, 1, n)]
                  \/ log' = log /\ c < resume_from
               /\ n < Len(log[next]) /\ c < resume_from => log' = log
               /\ \/ c < min_rev /\ next' = 1 /\ min_rev' = 1
                  \/ /\ ~ (c < min_rev) /\ next' = next + 1
                     /\ min_rev' = IF min_rev < rn THEN rn ELSE min_rev
               /\ UNCHANGED <<valid, status, resume_from, before, again>>
<1> DEFINE n  == Kept(log[next], cutoff, valid[next])
           c  == Cutoff(log[next], n, cutoff)
           rn == RepoNext(log[next], n, cutoff)
           backup   == Backup(next, n)
           restored == Restores(c, rn)
<1>1. /\ next \in Repo /\ status = "loop" /\ cutoff' = c
      /\ log' = [log EXCEPT ![next] = IF restored /\ backup # None THEN backup[2]
                                      ELSE SubSeq(@, 1, n)]
      /\ UNCHANGED <<valid, status, resume_from, before, again>>
  BY DEF SetupIncremental
<1>2. IF c < min_rev
      THEN next' = 1 /\ min_rev' = 1
      ELSE next' = next + 1 /\ min_rev' = IF min_rev < rn THEN rn ELSE min_rev
  BY DEF SetupIncremental, StartsOver
<1>3. log \in [Repo -> Seq(Line)]
  BY DEF IInv, Types
<1>4. CASE restored /\ backup # None
  <2>1. c < resume_from /\ rn = c
    BY <1>4 DEF Restores
  <2>2. n < Len(log[next])
    <3>1. CASE ~ (n < Len(log[next]))
      <4>1. c = cutoff
        BY <3>1 DEF Cutoff
      <4>2. backup = None
        BY <2>1, <3>1, <4>1 DEF Backup
      <4>3. QED BY <1>4, <4>2
    <3>2. QED BY <3>1
  <2>3. backup[2] = log[next]
    BY <2>2 DEF Backup, File
  <2>4. log' = log
    BY <1>1, <1>3, <1>4, <2>3
  <2>5. QED BY <1>1, <1>2, <2>1, <2>4
<1>5. CASE ~ (restored /\ backup # None)
  <2>1. n < Len(log[next]) => rn = c /\ backup = File(log[next])
    BY DEF RepoNext, Backup
  <2>2. ASSUME NEW x PROVE File(x) # None
    <3>1. File(x)[1] = TRUE /\ None[1] = FALSE
      BY DEF File, None
    <3>2. QED BY <3>1
  <2>3. c < resume_from /\ rn = c => restored
    BY DEF Restores
  <2> HIDE DEF n, c, rn, backup, restored
  <2>4. ~ (n < Len(log[next]) /\ c < resume_from)
    BY <1>5, <2>1, <2>2, <2>3
  <2>5. log' = [log EXCEPT ![next] = SubSeq(@, 1, n)]
    BY <1>1, <1>5
  <2>6. QED BY <1>1, <1>2, <2>4, <2>5 DEF n, c, rn
<1>6. QED BY <1>4, <1>5

\* Asking one repository keeps it.
LEMMA SetupStep ==
    ASSUME IInv, SetupIncremental
    PROVE  IInv'
<1> DEFINE whole == before[next]
           lines == log[next]
           n  == Kept(lines, cutoff, valid[next])
           c  == Cutoff(lines, n, cutoff)
           rn == RepoNext(lines, n, cutoff)
<1>1. /\ next \in Repo /\ status = "loop" /\ cutoff' = c
      /\ \/ log' = [log EXCEPT ![next] = SubSeq(@, 1, n)]
         \/ log' = log /\ c < resume_from
      /\ \/ c < min_rev /\ next' = 1 /\ min_rev' = 1
         \/ /\ ~ (c < min_rev) /\ next' = next + 1
            /\ min_rev' = IF min_rev < rn THEN rn ELSE min_rev
      /\ UNCHANGED <<valid, status, resume_from, before, again>>
  BY AskedFacts
<1>2. /\ lines \in Seq(Line) /\ whole \in Seq(Line) /\ CutFrom(lines, whole)
      /\ InOrder(whole) /\ cutoff \in 1 .. INT_MAX /\ valid[next] \in 0 .. MaxMark
      /\ min_rev \in 1 .. MaxRev + 1 /\ resume_from \in 0 .. MaxRev
  BY <1>1 DEF IInv, LogsOK, Types
<1>3. InOrder(lines)
  BY <1>2, CutInOrder
<1>4. /\ n \in 0 .. Len(lines)
      /\ c \in 1 .. INT_MAX /\ c <= cutoff
      /\ rn \in 1 .. MaxRev + 1 \/ rn = c
      /\ rn <= c
      /\ \A i \in n + 1 .. Len(lines) : c <= lines[i].rev
      /\ \A i \in 1 .. n : \/ lines[i].rev < rn
                           \/ /\ lines[i].rev = c
                              /\ rn = c
                              /\ n < Len(lines)
                              /\ lines[n + 1].rev = c
                              /\ lines[n + 1].mark > valid[next]
      /\ c = cutoff \/ c \in 1 .. MaxRev
      /\ n < Len(lines) => c \in 1 .. MaxRev
  BY <1>2, <1>3, ReportFacts
<1>5. rn \in 1 .. MaxRev + 1
  <2>1. CASE n < Len(lines)
    <3>1. rn = c
      BY <2>1 DEF RepoNext
    <3>2. QED BY <1>4, <2>1, <3>1, Bounds
  <2>2. CASE n = Len(lines)
    <3>1. rn = IF n = 0 THEN 1 ELSE lines[n].rev + 1
      BY <1>2, <2>2 DEF RepoNext
    <3>2. n # 0 => lines[n].rev \in 1 .. MaxRev
      <4>1. n # 0 => lines[n] \in Line
        BY <1>2, <1>4
      <4>2. QED BY <4>1 DEF Line
    <3>3. QED BY <3>1, <3>2, Bounds
  <2>3. QED BY <1>2, <1>4, <2>1, <2>2
<1>6. SubSeq(lines, 1, n) \in Seq(Line) /\ Len(SubSeq(lines, 1, n)) = n
      /\ \A i \in 1 .. n : SubSeq(lines, 1, n)[i] = lines[i]
  <2>1. \A i \in 1 .. n : lines[i] \in Line
    BY <1>2, <1>4
  <2>2. QED BY <1>2, <1>4, <2>1, SubSeqProperties
<1>7. \A r \in Repo : r # next => log'[r] = log[r]
  BY <1>1 DEF IInv, Types
<1>8. /\ log'[next] \in Seq(Line)
      /\ Len(log'[next]) \in {n, Len(lines)}
      /\ \A i \in 1 .. Len(log'[next]) : log'[next][i] = lines[i]
      /\ c >= resume_from => Len(log'[next]) = n
  <2>1. log'[next] = SubSeq(lines, 1, n) \/ (log'[next] = lines /\ c < resume_from)
    BY <1>1 DEF IInv, Types
  <2>2. CASE log'[next] = SubSeq(lines, 1, n)
    BY <1>4, <1>6, <2>2
  <2>3. CASE log'[next] = lines /\ c < resume_from
    <3>1. c \in Int /\ resume_from \in Int
      BY <1>2, <1>4, Bounds
    <3>2. ~ (c >= resume_from)
      BY <2>3, <3>1
    <3>3. QED BY <1>2, <2>3, <3>2
  <2>4. QED BY <2>1, <2>2, <2>3
<1>9. /\ min_rev' \in 1 .. MaxRev + 1 /\ next' \in 1 .. NRepo + 1
      /\ min_rev' <= c
  <2>1. next \in 1 .. NRepo /\ NRepo \in Nat /\ MaxRev \in Nat
    BY <1>1, Bounds DEF Repo
  <2>2. /\ c \in Int /\ rn \in 1 .. MaxRev + 1 /\ rn <= c /\ c >= 1
        /\ min_rev \in 1 .. MaxRev + 1
    BY <1>2, <1>4, <1>5
  <2>3. CASE c < min_rev /\ next' = 1 /\ min_rev' = 1
    BY ONLY <2>1, <2>2, <2>3
  <2>4. CASE /\ ~ (c < min_rev) /\ next' = next + 1
             /\ min_rev' = IF min_rev < rn THEN rn ELSE min_rev
    BY ONLY <2>1, <2>2, <2>4
  <2>5. QED BY <1>1, <2>3, <2>4
<1> HIDE DEF n, c, rn, lines, whole
<1>10. Types'
  <2>1. log' \in [Repo -> Seq(Line)]
    <3>1. log \in [Repo -> Seq(Line)] /\ log' = [r \in Repo |-> log'[r]]
      BY <1>1 DEF IInv, Types
    <3>2. QED BY <1>7, <1>8, <3>1
  <2>2. QED BY <1>1, <1>4, <1>9, <2>1 DEF IInv, Types
<1>11. LogsOK'
  <2>1. CutFrom(log'[next], before[next])
    BY <1>2, <1>4, <1>8 DEF CutFrom, whole
  <2>2. QED BY <1>1, <1>7, <1>8, <2>1 DEF IInv, LogsOK
<1>12. DroppedOK'
  <2>1. ASSUME NEW r \in Repo, NEW i \in 1 .. Len(before[r]), i > Len(log'[r])
        PROVE  c <= before[r][i].rev
    <3>0. before[r][i].rev \in 1 .. MaxRev
      <4>1. before[r][i] \in Line
        BY DEF IInv, LogsOK
      <4>2. QED BY <4>1 DEF Line
    <3>1. CASE i > Len(log[r])
      <4>1. cutoff <= before[r][i].rev
        BY <1>1, <2>1, <3>1 DEF IInv, DroppedOK
      <4>2. QED BY <1>2, <1>4, <3>0, <4>1, Bounds
    <3>2. CASE ~ (i > Len(log[r]))
      <4>1. r = next
        BY <1>7, <2>1, <3>2
      <4>2. i \in n + 1 .. Len(lines) /\ before[r][i] = lines[i]
        BY <1>2, <1>4, <1>8, <2>1, <3>2, <4>1 DEF CutFrom, lines, whole
      <4>3. QED BY <1>4, <4>2
    <3>3. QED BY <3>1, <3>2
  <2>2. QED BY <1>1, <2>1 DEF DroppedOK
<1>13. CutoffOK'
  BY <1>1, <1>2, <1>4, <1>9, Bounds DEF IInv, CutoffOK
<1>14. PastOK'
  <2>1. SUFFICES ASSUME c >= resume_from, NEW r \in Repo, r < next'
                 PROVE  Past(r)'
    BY <1>1 DEF PastOK
  <2>2. /\ ~ (c < min_rev) /\ next' = next + 1 /\ next \in Nat /\ r \in Nat
        /\ min_rev' = IF min_rev < rn THEN rn ELSE min_rev
    BY <1>1, <2>1, Bounds DEF Repo
  <2>3. before' = before /\ valid' = valid
    BY <1>1
  <2>4. CASE r = next
    <3>1. Len(log'[r]) = n /\ \A i \in 1 .. n : log'[r][i] = lines[i]
      BY <1>8, <2>1, <2>4
    <3>2. ASSUME NEW i \in 1 .. n
          PROVE  \/ lines[i].rev < min_rev'
                 \/ /\ lines[i].rev = min_rev'
                    /\ n < Len(before[r])
                    /\ before[r][n + 1].rev = min_rev'
                    /\ before[r][n + 1].mark > valid[r]
      <4>0. lines[i].rev \in 1 .. MaxRev
        <5>1. lines[i] \in Line
          BY <1>2, <1>4
        <5>2. QED BY <5>1 DEF Line
      <4>1. CASE lines[i].rev < rn
        BY <1>2, <1>5, <2>2, <4>0, <4>1, Bounds
      <4>2. CASE /\ lines[i].rev = c /\ rn = c /\ n < Len(lines)
                 /\ lines[n + 1].rev = c /\ lines[n + 1].mark > valid[next]
        <5>1. min_rev' = c
          BY <1>2, <1>4, <1>9, <2>2, <4>2, Bounds
        <5>2. n < Len(before[r]) /\ before[r][n + 1] = lines[n + 1]
          BY <1>2, <1>4, <2>4, <4>2 DEF CutFrom, lines, whole
        <5>3. QED BY <2>4, <4>2, <5>1, <5>2
      <4>3. QED BY <1>4, <4>1, <4>2
    <3>3. QED BY <2>3, <3>1, <3>2 DEF Past
  <2>5. CASE r # next
    <3>1. r < next /\ cutoff >= resume_from
      BY <1>2, <1>4, <2>1, <2>2, <2>5, Bounds
    <3>2. Past(r) /\ log'[r] = log[r] /\ log[r] \in Seq(Line)
      BY <1>1, <1>7, <2>5, <3>1 DEF IInv, PastOK, LogsOK
    <3>3. min_rev' \in Nat /\ min_rev \in Nat /\ min_rev <= min_rev'
      BY <1>2, <1>5, <2>2, Bounds
    <3>4. \A i \in 1 .. Len(log[r]) : log[r][i].rev \in 1 .. MaxRev
      <4>1. \A i \in 1 .. Len(log[r]) : log[r][i] \in Line
        BY <3>2
      <4>2. QED BY <4>1 DEF Line
    <3>5. CASE min_rev' = min_rev
      BY <2>3, <3>2, <3>5 DEF Past
    <3>6. CASE min_rev < min_rev'
      <4>1. \A i \in 1 .. Len(log[r]) : log[r][i].rev <= min_rev
        BY <3>2, <3>3, <3>4, Bounds DEF Past
      <4>2. \A i \in 1 .. Len(log[r]) : log[r][i].rev < min_rev'
        BY <3>3, <3>4, <3>6, <4>1, Bounds
      <4>3. QED BY <3>2, <4>2 DEF Past
    <3>7. QED BY <3>3, <3>5, <3>6
  <2>6. QED BY <2>4, <2>5
<1>15. QED BY <1>10, <1>11, <1>12, <1>13, <1>14 DEF IInv

\* When all were asked, what holds of those asked so far holds of all.
LEMMA DecideStep ==
    ASSUME IInv, Decide
    PROVE  IInv'
<1>1. /\ status = "loop" /\ next = NRepo + 1
      /\ status' = IF cutoff < resume_from THEN "failed" ELSE "export"
      /\ min_rev' = IF cutoff >= resume_from /\ resume_from # 0 THEN resume_from ELSE min_rev
      /\ UNCHANGED <<log, valid, next, cutoff, resume_from, before, again>>
  BY DEF Decide
<1>2. /\ cutoff \in 1 .. INT_MAX /\ resume_from \in 0 .. MaxRev /\ min_rev \in 1 .. MaxRev + 1
      /\ min_rev <= cutoff /\ (resume_from # 0 => cutoff <= resume_from)
  BY <1>1 DEF IInv, Types, CutoffOK
<1>3. /\ min_rev' \in 1 .. MaxRev + 1 /\ min_rev <= min_rev'
      /\ status' = "export" => min_rev' <= cutoff
  BY <1>1, <1>2, Bounds
<1>4. Types'
  BY <1>1, <1>3 DEF IInv, Types
<1>5. LogsOK'
  BY <1>1 DEF IInv, LogsOK
<1>6. DroppedOK'
  BY <1>1 DEF IInv, DroppedOK
<1>7. CutoffOK'
  BY <1>1, <1>2, <1>3, Bounds DEF IInv, CutoffOK
<1>8. PastOK'
  <2>1. SUFFICES ASSUME status' = "export", NEW r \in Repo PROVE Past(r)'
    BY <1>1 DEF PastOK
  <2>2. cutoff >= resume_from /\ r < next
    BY <1>1, <1>2, <2>1, Bounds DEF Repo
  <2>3. Past(r) /\ log[r] \in Seq(Line)
    BY <1>1, <2>2 DEF IInv, PastOK, LogsOK
  <2>4. \A i \in 1 .. Len(log[r]) : log[r][i].rev \in 1 .. MaxRev
    <3>1. \A i \in 1 .. Len(log[r]) : log[r][i] \in Line
      BY <2>3
    <3>2. QED BY <3>1 DEF Line
  <2>5. CASE min_rev' = min_rev
    BY <1>1, <2>3, <2>5 DEF Past
  <2>6. CASE min_rev < min_rev'
    <3>1. \A i \in 1 .. Len(log[r]) : log[r][i].rev < min_rev'
      BY <1>2, <1>3, <2>3, <2>4, <2>6, Bounds DEF Past
    <3>2. QED BY <1>1, <3>1 DEF Past
  <2>7. QED BY <1>2, <1>3, <2>5, <2>6, Bounds
<1>9. QED BY <1>4, <1>5, <1>6, <1>7, <1>8 DEF IInv

\* Every step keeps the inductive invariant.
LEMMA StepIInv == IInv /\ [Next]_vars => IInv'
<1> SUFFICES ASSUME IInv, [Next]_vars PROVE IInv'
  OBVIOUS
<1>1. CASE UNCHANGED vars
  BY <1>1 DEF vars, IInv, Types, LogsOK, DroppedOK, CutoffOK, PastOK, Past
<1>2. CASE Next
  BY <1>2, StartStep, SetupStep, DecideStep DEF Next
<1>3. QED BY <1>1, <1>2

\* The inductive invariant of the loop.
THEOREM Invariance == Spec => []IInv
<1>1. QED BY InitIInv, StepIInv, PTL DEF Spec

-----------------------------------------------------------------------------
(* What it is for *)

\* The types, for every run.
THEOREM TypeCorrect == Spec => []TypeOK
<1>1. IInv => TypeOK
  BY DEF IInv, Types, TypeOK, Line
<1>2. QED BY <1>1, Invariance, PTL

\* No revision is lost: what any repository drops from its log is exported again.
THEOREM NothingIsLost == Spec => []NothingLost
<1>1. IInv => NothingLost
  <2> SUFFICES ASSUME IInv, status = "export", NEW r \in Repo,
                      NEW i \in DOMAIN before[r], i > Len(log[r])
               PROVE  min_rev <= before[r][i].rev
    BY DEF NothingLost
  <2>1. before[r] \in Seq(Line) /\ i \in 1 .. Len(before[r])
    BY DEF IInv, LogsOK
  <2>2. cutoff <= before[r][i].rev /\ min_rev <= cutoff
    BY <2>1 DEF IInv, DroppedOK, CutoffOK
  <2>3. before[r][i].rev \in 1 .. MaxRev
    <3>1. before[r][i] \in Line
      BY <2>1
    <3>2. QED BY <3>1 DEF Line
  <2>4. QED BY <2>2, <2>3, Bounds DEF IInv, Types
<1>2. QED BY <1>1, Invariance, PTL

\* Nothing that is kept is exported again, but for a revision interrupted within it.
THEOREM KeptIsThePast == Spec => []KeptIsPast
<1>1. IInv => KeptIsPast
  <2> SUFFICES ASSUME IInv, status = "export", NEW r \in Repo
               PROVE  \A i \in DOMAIN log[r] :
                        \/ log[r][i].rev < min_rev
                        \/ /\ log[r][i].rev = min_rev
                           /\ Len(log[r]) < Len(before[r])
                           /\ before[r][Len(log[r]) + 1].rev = min_rev
                           /\ before[r][Len(log[r]) + 1].mark > valid[r]
    BY DEF KeptIsPast
  <2>1. DOMAIN log[r] = 1 .. Len(log[r])
    BY DEF IInv, LogsOK
  <2>2. QED BY <2>1 DEF IInv, PastOK, Past
<1>2. QED BY <1>1, Invariance, PTL

\* The loop starts over only with a smaller cutoff, so that it cannot start over forever.
THEOREM ProgressOfTheLoop == Spec => CutoffDecreases
<1>1. ASSUME IInv, [Next]_vars, status = "loop", next \in Repo, next' = 1, ~ UNCHANGED vars
      PROVE  cutoff' < cutoff
  <2>1. SetupIncremental
    BY <1>1, Bounds DEF Next, Start, Decide, Repo
  <2> DEFINE c == Cutoff(log[next], Kept(log[next], cutoff, valid[next]), cutoff)
  <2>2. cutoff' = c /\ (c < min_rev \/ next' = next + 1)
    BY <2>1, AskedFacts, <1>1
  <2> HIDE DEF c
  <2>3. c < min_rev
    BY <1>1, <2>2, Bounds DEF Repo
  <2>4. min_rev <= cutoff /\ cutoff \in Nat /\ min_rev \in Nat /\ cutoff' \in Nat
    <3>1. IInv'
      BY <1>1, StepIInv
    <3>2. QED BY <1>1, <3>1, Bounds DEF IInv, CutoffOK, Types
  <2>5. QED BY <2>2, <2>3, <2>4
<1>2. IInv /\ [Next]_vars
        => [status = "loop" /\ next \in Repo /\ next' = 1 => cutoff' < cutoff]_vars
  BY <1>1
<1>3. QED BY <1>2, Invariance, PTL DEF Spec, CutoffDecreases
-----------------------------------------------------------------------------
(* A run that fails leaves the reason where it was *)

\* The log of r has a line from before the revision asked for, with a commit that was not
\* written: r was interrupted there.
Interrupted(r) ==
    \E i \in 1 .. Len(log[r]) : log[r][i].rev < resume_from /\ log[r][i].mark > valid[r]

\* A cutoff before the revision asked for comes from a repository that is still seen to be
\* interrupted, each such repository brings about such a cutoff when it is asked, and after
\* a run that failed there is one.
ReasonKept ==
    /\ status \in {"loop", "failed"} /\ cutoff < resume_from => \E r \in Repo : Interrupted(r)
    /\ status = "loop" => \A r \in Repo : r < next /\ Interrupted(r) => cutoff < resume_from
    /\ status = "failed" => cutoff < resume_from
    /\ again => status \in {"loop", "failed"} /\ \E r \in Repo : Interrupted(r)

\* Asking a repository drops no line from before the revision asked for ("Restore the log
\* file so we fail the next time"), and brings the cutoff before it if there is a reason.
LEMMA ReasonSeen ==
    ASSUME IInv, SetupIncremental
    PROVE  /\ \A r \in Repo : Interrupted(r)' <=> Interrupted(r)
           /\ Interrupted(next) => cutoff' < resume_from
           /\ cutoff' < resume_from => cutoff < resume_from \/ Interrupted(next)
           /\ cutoff' <= cutoff /\ cutoff' \in Int
<1> DEFINE lines == log[next]
           known == valid[next]
           n  == Kept(lines, cutoff, known)
           c  == Cutoff(lines, n, cutoff)
<1>1. /\ next \in Repo /\ cutoff' = c
      /\ \/ log' = [log EXCEPT ![next] = SubSeq(@, 1, n)]
         \/ log' = log /\ c < resume_from
      /\ n < Len(lines) /\ c < resume_from => log' = log
      /\ valid' = valid /\ resume_from' = resume_from
  BY AskedFacts
<1>2. /\ lines \in Seq(Line) /\ InOrder(lines)
      /\ cutoff \in 1 .. INT_MAX /\ known \in 0 .. MaxMark /\ resume_from \in 0 .. MaxRev
  <2>1. before[next] \in Seq(Line) /\ InOrder(before[next]) /\ CutFrom(lines, before[next])
        /\ lines \in Seq(Line)
    BY <1>1 DEF IInv, LogsOK
  <2>2. QED BY <1>1, <2>1, CutInOrder DEF IInv, Types
<1>3. /\ n \in 0 .. Len(lines) /\ c \in 1 .. INT_MAX /\ c <= cutoff
      /\ \A i \in n + 1 .. Len(lines) : c <= lines[i].rev
  BY <1>2, ReportFacts
<1>4. /\ \A i \in 1 .. n : ~ Stops(lines[i], cutoff, known)
      /\ n < Len(lines) => Stops(lines[n + 1], cutoff, known)
  <2>1. cutoff \in Nat /\ known \in Nat
    BY <1>2, Bounds
  <2>2. QED BY <1>2, <2>1, KeptFacts
<1>5. \A i \in 1 .. Len(lines) : lines[i].rev \in 1 .. MaxRev /\ lines[i].mark \in 0 .. MaxMark
  <2>1. \A i \in 1 .. Len(lines) : lines[i] \in Line
    BY <1>2
  <2>2. QED BY <2>1 DEF Line
<1>6. /\ Len(SubSeq(lines, 1, n)) = n
      /\ \A i \in 1 .. n : SubSeq(lines, 1, n)[i] = lines[i]
  <2>1. \A i \in 1 .. n : lines[i] \in Line
    BY <1>2, <1>3
  <2>2. QED BY <1>2, <1>3, <2>1, SubSeqProperties
<1>7. /\ \A r \in Repo : r # next => log'[r] = log[r]
      /\ log'[next] = SubSeq(lines, 1, n) \/ log'[next] = lines
      /\ n < Len(lines) /\ c < resume_from => log'[next] = lines
  BY <1>1 DEF IInv, Types
<1>8. /\ n < Len(lines) => c = IF lines[n + 1].rev < cutoff THEN lines[n + 1].rev ELSE cutoff
      /\ ~ (n < Len(lines)) => c = cutoff
  BY DEF Cutoff
<1>9. Interrupted(next) <=>
        \E i \in 1 .. Len(lines) : lines[i].rev < resume_from /\ lines[i].mark > known
  BY DEF Interrupted
<1> HIDE DEF n, c, lines, known
<1>10. Interrupted(next) => c < resume_from
  <2> SUFFICES ASSUME NEW i \in 1 .. Len(lines),
                      lines[i].rev < resume_from, lines[i].mark > known
               PROVE  c < resume_from
    BY <1>9
  <2>1. n < i
    BY <1>3, <1>4, <1>5 DEF Stops
  <2>2. c <= lines[i].rev
    BY <1>3, <2>1
  <2>3. QED BY <1>2, <1>3, <1>5, <2>2, Bounds
<1>11. c < resume_from => cutoff < resume_from \/ Interrupted(next)
  <2> SUFFICES ASSUME c < resume_from, ~(cutoff < resume_from) PROVE Interrupted(next)
    OBVIOUS
  <2>1. n < Len(lines) /\ c = lines[n + 1].rev /\ lines[n + 1].rev < cutoff
    BY <1>8
  <2>2. n + 1 \in 1 .. Len(lines)
    BY <1>2, <1>3, <2>1
  <2>3. lines[n + 1].mark > known
    BY <1>2, <1>4, <1>5, <2>1, <2>2, Bounds DEF Stops
  <2>4. QED BY <1>9, <2>1, <2>2, <2>3
<1>12. ASSUME NEW r \in Repo PROVE Interrupted(r)' <=> Interrupted(r)
  <2>1. Interrupted(r)' <=>
          \E i \in 1 .. Len(log'[r]) : log'[r][i].rev < resume_from /\ log'[r][i].mark > valid[r]
    BY <1>1 DEF Interrupted
  <2>2. CASE log'[r] = log[r]
    BY <2>1, <2>2 DEF Interrupted
  <2>3. CASE log'[r] # log[r]
    <3>1. r = next /\ log'[r] = SubSeq(lines, 1, n) /\ ~(n < Len(lines) /\ c < resume_from)
      BY <1>7, <2>3 DEF lines
    <3>2. Interrupted(r)' <=>
            \E i \in 1 .. n : lines[i].rev < resume_from /\ lines[i].mark > known
      BY <1>6, <2>1, <3>1 DEF known
    <3>3. n \in 0 .. Len(lines) /\ Len(lines) \in Nat
      BY <1>2, <1>3
    <3>4. ASSUME NEW i \in 1 .. Len(lines), lines[i].rev < resume_from, ~(i <= n)
          PROVE  FALSE
      <4>1. n < Len(lines) /\ c <= lines[i].rev
        BY <1>3, <3>3, <3>4
      <4>2. c < resume_from
        BY <1>2, <1>3, <1>5, <3>4, <4>1, Bounds
      <4>3. QED BY <3>1, <4>1, <4>2
    <3>5. QED BY <1>9, <3>1, <3>2, <3>3, <3>4
  <2>4. QED BY <2>2, <2>3
<1>13. QED BY <1>1, <1>3, <1>10, <1>11, <1>12

\* A run that failed and is started again finds the reason.
LEMMA StartReason ==
    ASSUME IInv, ReasonKept, NEW from \in ResumeFroms, Start(from)
    PROVE  ReasonKept'
<1>1. /\ resume_from' = from /\ cutoff' = (IF from # 0 THEN from ELSE INT_MAX)
      /\ next' = 1 /\ status' = "loop" /\ log' = log /\ valid' = valid
      /\ again' = (status = "failed" /\ from = resume_from)
  BY DEF Start
<1>2. from \in 0 .. MaxRev
  BY IncrementalAssumption
<1>3. ~(cutoff' < resume_from')
  BY <1>1, <1>2, Bounds
<1>4. again' => \E r \in Repo : Interrupted(r)'
  <2> SUFFICES ASSUME again' PROVE \E r \in Repo : Interrupted(r)'
    OBVIOUS
  <2>1. PICK r \in Repo : Interrupted(r)
    BY <1>1 DEF ReasonKept
  <2>2. Interrupted(r)'
    BY <1>1, <2>1 DEF Interrupted
  <2>3. QED BY <2>2
<1>5. \A r \in Repo : ~(r < next')
  BY <1>1 DEF Repo
<1>6. QED BY <1>1, <1>3, <1>4, <1>5 DEF ReasonKept

\* The reason stays while the repositories are asked.
LEMMA SetupReason == ASSUME IInv, ReasonKept, SetupIncremental PROVE ReasonKept'
<1>1. /\ next \in Repo /\ status = "loop" /\ next' \in {1, next + 1}
      /\ status' = "loop" /\ again' = again /\ resume_from' = resume_from
  BY AskedFacts
<1>2. /\ \A r \in Repo : Interrupted(r)' <=> Interrupted(r)
      /\ Interrupted(next) => cutoff' < resume_from
      /\ cutoff' < resume_from => cutoff < resume_from \/ Interrupted(next)
      /\ cutoff' <= cutoff /\ cutoff' \in Int
  BY ReasonSeen
<1>3. cutoff \in Int /\ resume_from \in Int
  BY Bounds DEF IInv, Types
<1>4. cutoff < resume_from => cutoff' < resume_from
  BY <1>2, <1>3
<1>5. ASSUME NEW r \in Repo, r < next', Interrupted(r)' PROVE cutoff' < resume_from'
  <2>1. r = next \/ r < next
    BY <1>1, <1>5, Bounds DEF Repo
  <2>2. QED BY <1>1, <1>2, <1>4, <1>5, <2>1 DEF ReasonKept
<1>6. cutoff' < resume_from' => \E r \in Repo : Interrupted(r)'
  <2>1. cutoff' < resume_from' => \E r \in Repo : Interrupted(r)
    BY <1>1, <1>2 DEF ReasonKept
  <2>2. QED BY <1>2, <2>1
<1>7. again' => \E r \in Repo : Interrupted(r)'
  BY <1>1, <1>2 DEF ReasonKept
<1>8. QED BY <1>1, <1>5, <1>6, <1>7 DEF ReasonKept

\* When all were asked a reason is seen, and the run fails.
LEMMA DecideReason == ASSUME IInv, ReasonKept, Decide PROVE ReasonKept'
<1>1. /\ status = "loop" /\ next = NRepo + 1
      /\ status' = IF cutoff < resume_from THEN "failed" ELSE "export"
      /\ log' = log /\ valid' = valid /\ cutoff' = cutoff /\ resume_from' = resume_from
      /\ again' = again
  BY DEF Decide
<1>2. \A r \in Repo : Interrupted(r)' <=> Interrupted(r)
  BY <1>1 DEF Interrupted
<1>3. \A r \in Repo : r < next
  BY <1>1, Bounds DEF Repo
<1>4. (\E r \in Repo : Interrupted(r)) <=> cutoff < resume_from
  BY <1>1, <1>3 DEF ReasonKept
<1>5. QED BY <1>1, <1>2, <1>4 DEF ReasonKept

\* "Restore the log file so we fail the next time svn2git is invoked with the same
\* arguments": after a run that failed the next one with the same --resume-from never
\* exports.
THEOREM FailureRepeats == Spec => []FailsAgain
<1>1. Init => ReasonKept
  <2> SUFFICES ASSUME Init PROVE ReasonKept
    OBVIOUS
  <2>1. status = "off" /\ again = FALSE
    BY DEF Init
  <2>2. QED BY <2>1 DEF ReasonKept
<1>2. IInv /\ ReasonKept /\ [Next]_vars => ReasonKept'
  <2> SUFFICES ASSUME IInv, ReasonKept, [Next]_vars PROVE ReasonKept'
    OBVIOUS
  <2>1. CASE UNCHANGED vars
    BY <2>1 DEF vars, ReasonKept, Interrupted
  <2>2. CASE Next
    BY <2>2, StartReason, SetupReason, DecideReason DEF Next
  <2>3. QED BY <2>1, <2>2
<1>3. ReasonKept => FailsAgain
  BY DEF ReasonKept, FailsAgain
<1>4. QED BY <1>1, <1>2, <1>3, Invariance, PTL DEF Spec
=============================================================================
