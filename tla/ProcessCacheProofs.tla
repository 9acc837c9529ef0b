------------------------- MODULE ProcessCacheProofs -------------------------
(***************************************************************************)
(* Proofs about the process cache, for any number of repositories and any  *)
(* size of the cache.                                                      *)
(***************************************************************************)
EXTENDS ProcessCache, FiniteSetTheorems, SequenceTheorems, TLAPS

Injective(list) == \A i, j \in DOMAIN list : list[i] = list[j] => i = j

\* ProcessCache::remove of something that is not in the list does nothing.
LEMMA WithoutAbsent ==
    ASSUME NEW list \in Seq(Repo), NEW r \in Repo, r \notin Range(list)
    PROVE  Without(list, r) = list
<1>1. \A i \in 1 .. Len(list) : list[i] # r
  BY DEF Range
<1>2. QED BY <1>1 DEF Without, RemoveFirst

\* ProcessCache::remove of the k-th entry: those before it stay, those behind it move up.
LEMMA WithoutPresent ==
    ASSUME NEW list \in Seq(Repo), Injective(list), NEW k \in 1 .. Len(list)
    PROVE  /\ Without(list, list[k]) \in Seq(Repo)
           /\ Len(Without(list, list[k])) = Len(list) - 1
           /\ \A i \in 1 .. Len(list) - 1 :
                 Without(list, list[k])[i] = IF i < k THEN list[i] ELSE list[i + 1]
<1> DEFINE a == SubSeq(list, 1, k - 1)
           b == SubSeq(list, k + 1, Len(list))
           I == {i \in 1 .. Len(list) : list[i] = list[k]}
<1>1. I = {k}
  BY DEF Injective
<1>2. SelectInSeq(list, LAMBDA v : v = list[k]) = k
  <2>1. SelectInSeq(list, LAMBDA v : v = list[k]) = IF I # {} THEN Min(I) ELSE 0
    BY DEF SelectInSeq
  <2>2. Min({k}) = k
    BY DEF Min
  <2>3. QED BY <2>1, <2>2, <1>1
<1>3. Without(list, list[k]) = a \o b
  BY <1>2 DEF Without, RemoveFirst, RemoveAt
<1>4. a \in Seq(Repo) /\ Len(a) = k - 1 /\ \A i \in 1 .. k - 1 : a[i] = list[i]
  <2>1. \A i \in 1 .. k - 1 : list[i] \in Repo
    OBVIOUS
  <2>2. QED BY <2>1, SubSeqProperties
<1>5. /\ b \in Seq(Repo) /\ Len(b) = Len(list) - k
      /\ \A i \in 1 .. Len(list) - k : b[i] = list[k + i]
  <2>1. \A i \in k + 1 .. Len(list) : list[i] \in Repo
    OBVIOUS
  <2>2. /\ b \in Seq(Repo) 
        /\ Len(b) = IF k + 1 <= Len(list) THEN Len(list) - (k + 1) + 1 ELSE 0
        /\ \A i \in 1 .. Len(list) - (k + 1) + 1 : b[i] = list[(k + 1) + i - 1]
    BY <2>1, SubSeqProperties
  <2>3. QED BY <2>2
<1> HIDE DEF a, b
<1>6. /\ a \o b \in Seq(Repo)
      /\ Len(a \o b) = Len(a) + Len(b)
      /\ \A i \in 1 .. Len(a) + Len(b) :
            (a \o b)[i] = IF i <= Len(a) THEN a[i] ELSE b[i - Len(a)]
  BY <1>4, <1>5, ConcatProperties
<1>7. Len(a) + Len(b) = Len(list) - 1
  BY <1>4, <1>5
<1>8. ASSUME NEW i \in 1 .. Len(list) - 1
      PROVE  (a \o b)[i] = IF i < k THEN list[i] ELSE list[i + 1]
  <2>1. CASE i < k
    BY <2>1, <1>4, <1>6, <1>7
  <2>2. CASE i >= k
    <3>1. (a \o b)[i] = b[i - (k - 1)]
      BY <2>2, <1>4, <1>6, <1>7
    <3>2. i - (k - 1) \in 1 .. Len(list) - k
      BY <2>2
    <3>3. b[i - (k - 1)] = list[k + (i - (k - 1))]
      BY <3>2, <1>5
    <3>4. k + (i - (k - 1)) = i + 1
      OBVIOUS
    <3>5. QED BY <2>2, <3>1, <3>3, <3>4
  <2>3. i < k \/ i >= k
    OBVIOUS
  <2>4. QED BY <2>1, <2>2, <2>3
<1>9. QED BY <1>3, <1>6, <1>7, <1>8

\* ProcessCache::remove takes one repository out of the list and leaves the others, each
\* of them once.
LEMMA WithoutFacts ==
    ASSUME NEW list \in Seq(Repo), Injective(list), NEW r \in Repo
    PROVE  /\ Without(list, r) \in Seq(Repo)
           /\ Injective(Without(list, r))
           /\ Range(Without(list, r)) = Range(list) \ {r}
           /\ Len(Without(list, r)) <= Len(list)
<1>1. CASE r \notin Range(list)
  BY <1>1, WithoutAbsent
<1>2. CASE r \in Range(list)
  <2>1. PICK k \in 1 .. Len(list) : list[k] = r
    BY <1>2 DEF Range
  <2> DEFINE w == Without(list, r)
  <2>2. /\ w \in Seq(Repo)
        /\ Len(w) = Len(list) - 1
        /\ \A i \in 1 .. Len(list) - 1 : w[i] = IF i < k THEN list[i] ELSE list[i + 1]
    BY <2>1, WithoutPresent
  <2> HIDE DEF w
  <2>3. DOMAIN w = 1 .. Len(list) - 1 /\ DOMAIN list = 1 .. Len(list)
    BY <2>2
  <2>4. Injective(w)
    <3> DEFINE up(n) == IF n < k THEN n ELSE n + 1
    <3>1. ASSUME NEW i \in 1 .. Len(list) - 1, NEW j \in 1 .. Len(list) - 1, w[i] = w[j]
          PROVE  i = j
      <4>1. list[up(i)] = list[up(j)]
        BY <3>1, <2>2
      <4>2. up(i) \in DOMAIN list /\ up(j) \in DOMAIN list
        BY <2>3
      <4> HIDE DEF up
      <4>3. up(i) = up(j)
        BY <4>1, <4>2 DEF Injective
      <4>4. QED BY <4>3 DEF up
    <3>2. QED BY <3>1, <2>3 DEF Injective
  <2>5. Range(w) \subseteq Range(list) \ {r}
    <3>1. ASSUME NEW i \in 1 .. Len(list) - 1
          PROVE  w[i] \in Range(list) /\ w[i] # r
      <4>1. PICK m \in DOMAIN list : w[i] = list[m] /\ m # k
        <5>1. CASE i < k
          <6>1. i \in DOMAIN list /\ w[i] = list[i] /\ i # k
            BY ONLY <2>2, <2>3, <5>1, list \in Seq(Repo), k \in 1 .. Len(list)
          <6>2. QED BY <6>1
        <5>2. CASE ~(i < k)
          <6>1. i + 1 \in DOMAIN list /\ w[i] = list[i + 1] /\ i + 1 # k
            BY ONLY <2>2, <2>3, <5>2, list \in Seq(Repo), k \in 1 .. Len(list)
          <6>2. QED BY <6>1
        <5>3. QED BY <5>1, <5>2
      <4>2. list[m] # r
        BY <2>1, <2>3, <4>1 DEF Injective
      <4>3. QED BY <4>1, <4>2 DEF Range
    <3>2. QED BY <3>1, <2>3 DEF Range
  <2>6. Range(list) \ {r} \subseteq Range(w)
    <3>1. ASSUME NEW j \in 1 .. Len(list), list[j] # r
          PROVE  \E i \in 1 .. Len(list) - 1 : w[i] = list[j]
      <4>1. CASE j < k
        BY <4>1, <2>2
      <4>2. CASE j > k
        <5>1. j - 1 \in 1 .. Len(list) - 1 /\ w[j - 1] = list[j]
          BY <4>2, <2>2
        <5>2. QED BY <5>1
      <4>3. QED BY <4>1, <4>2, <3>1, <2>1
    <3>2. QED BY <3>1, <2>3 DEF Range
  <2>7. QED BY <2>2, <2>4, <2>5, <2>6 DEF w
<1>3. QED BY <1>1, <1>2

\* The loop of ProcessCache::touch leaves room for one more and closes nothing twice.
LEMMA RoomFacts ==
    ASSUME NEW list \in Seq(Repo), Injective(list),
           Len(list) <= maxSimultaneousProcesses
    PROVE  /\ Room(list) \in Seq(Repo)
           /\ Injective(Room(list))
           /\ Range(Room(list)) \subseteq Range(list)
           /\ Len(Room(list)) < maxSimultaneousProcesses
<1>1. CASE Len(list) < maxSimultaneousProcesses
  BY <1>1 DEF Room
<1>2. CASE Len(list) = maxSimultaneousProcesses
  <2> DEFINE s == SubSeq(list, 2, Len(list))
  <2>1. Room(list) = s
    BY <1>2, ProcessCacheAssumption DEF Room
  <2>2. \A i \in 2 .. Len(list) : list[i] \in Repo
    OBVIOUS
  <2>3. /\ s \in Seq(Repo)
        /\ Len(s) = IF 2 <= Len(list) THEN Len(list) - 2 + 1 ELSE 0
        /\ \A i \in 1 .. Len(list) - 2 + 1 : s[i] = list[2 + i - 1]
    BY <2>2, SubSeqProperties
  <2> HIDE DEF s
  <2>4. Len(s) = Len(list) - 1 /\ \A i \in 1 .. Len(list) - 1 : s[i] = list[i + 1]
    BY <2>3, <1>2, ProcessCacheAssumption
  <2>5. DOMAIN s = 1 .. Len(list) - 1 /\ DOMAIN list = 1 .. Len(list)
    BY <2>3, <2>4
  <2>6. Injective(s)
    <3>1. ASSUME NEW i \in 1 .. Len(list) - 1, NEW j \in 1 .. Len(list) - 1, s[i] = s[j]
          PROVE  i = j
      <4>1. list[i + 1] = list[j + 1]
        BY <3>1, <2>4
      <4>2. i + 1 \in DOMAIN list /\ j + 1 \in DOMAIN list
        BY <2>5
      <4>3. i + 1 = j + 1
        BY <4>1, <4>2 DEF Injective
      <4>4. QED BY <4>3
    <3>2. QED BY <3>1, <2>5 DEF Injective
  <2>7. Range(s) \subseteq Range(list)
    BY <2>4, <2>5 DEF Range
  <2>8. QED BY <2>1, <2>3, <2>4, <2>6, <2>7, <1>2
<1>3. QED BY <1>1, <1>2, ProcessCacheAssumption

\* A repository appended behind others.
LEMMA AppendFacts ==
    ASSUME NEW m \in Seq(Repo), Injective(m), NEW r \in Repo, r \notin Range(m)
    PROVE  /\ Append(m, r) \in Seq(Repo)
           /\ Len(Append(m, r)) = Len(m) + 1
           /\ Injective(Append(m, r))
           /\ Range(Append(m, r)) = Range(m) \cup {r}
<1>1. /\ Append(m, r) \in Seq(Repo) /\ Len(Append(m, r)) = Len(m) + 1
      /\ \A i \in 1 .. Len(m) : Append(m, r)[i] = m[i]
      /\ Append(m, r)[Len(m) + 1] = r
  OBVIOUS
<1>2. DOMAIN m = 1 .. Len(m) /\ DOMAIN Append(m, r) = 1 .. Len(m) + 1
  BY <1>1
<1>3. \A i \in 1 .. Len(m) : m[i] # r
  BY <1>2 DEF Range
<1>4. Injective(Append(m, r))
  BY <1>1, <1>2, <1>3 DEF Injective
<1>5. Range(Append(m, r)) = Range(m) \cup {r}
  BY <1>1, <1>2 DEF Range
<1>6. QED BY <1>1, <1>4, <1>5

\* What touch leaves: the repository touched, at the end, and no more than there is
\* room for.
LEMMA TouchedFacts ==
    ASSUME cache \in Seq(Repo), Injective(cache),
           Len(cache) <= maxSimultaneousProcesses, NEW r \in Repo
    PROVE  /\ Touched(r) \in Seq(Repo)
           /\ Injective(Touched(r))
           /\ Range(Touched(r)) = (Range(cache) \ Victims(r)) \cup {r}
           /\ r \notin Victims(r)
           /\ Len(Touched(r)) <= maxSimultaneousProcesses
<1> DEFINE w == Without(cache, r)
           m == Room(w)
<1>1. /\ w \in Seq(Repo) /\ Injective(w) /\ Range(w) = Range(cache) \ {r}
      /\ Len(w) <= maxSimultaneousProcesses
  BY WithoutFacts, ProcessCacheAssumption
<1>2. /\ m \in Seq(Repo) /\ Injective(m) /\ Range(m) \subseteq Range(w)
      /\ Len(m) < maxSimultaneousProcesses
  BY <1>1, RoomFacts
<1>3. Touched(r) = Append(m, r) /\ Victims(r) = Range(w) \ Range(m)
  BY DEF Touched, Victims
<1> HIDE DEF w, m
<1>4. /\ Append(m, r) \in Seq(Repo) /\ Len(Append(m, r)) = Len(m) + 1
      /\ Injective(Append(m, r)) /\ Range(Append(m, r)) = Range(m) \cup {r}
  BY <1>1, <1>2, AppendFacts
<1>5. QED BY <1>1, <1>2, <1>3, <1>4, ProcessCacheAssumption

-----------------------------------------------------------------------------
(* The inductive invariant *)

\* A process that is thought to run and does not has ended on its own.
GoneMeansCrashed ==
    \A r \in Repo : processHasStarted[r] /\ state[r] = "NotRunning" => r \in crashed

\* CacheIsExact ties a process to its place in the list; it is inductive with the
\* types, with what ended on its own, and with the order of use being an order.
IInv ==
    /\ TypeOK
    /\ CacheIsExact
    /\ GoneMeansCrashed
    /\ AbortsOnlyAfterCrash
    /\ Injective(used)

\* The converter starts with no process.
LEMMA InitIInv == Init => IInv
<1> SUFFICES ASSUME Init PROVE IInv
  OBVIOUS
<1>1. cache = <<>> /\ used = <<>> /\ Range(cache) = {}
  BY DEF Init, Range
<1>2. TypeOK
  <2>1. <<>> \in Seq(Repo) /\ Len(<<>>) = 0
    OBVIOUS
  <2>2. Len(cache) <= maxSimultaneousProcesses
    BY <1>1, <2>1, ProcessCacheAssumption
  <2>3. /\ state \in [Repo -> {"NotRunning", "Running"}]
        /\ processHasStarted \in [Repo -> BOOLEAN]
        /\ aborted \in BOOLEAN /\ deleted \subseteq Repo /\ crashed \subseteq Repo
    BY DEF Init
  <2>4. QED BY <1>1, <2>1, <2>2, <2>3 DEF TypeOK
<1>3. CacheIsExact
  BY <1>1 DEF Init, CacheIsExact, RunningProcesses
<1>4. QED BY <1>1, <1>2, <1>3 DEF Init, IInv, GoneMeansCrashed, AbortsOnlyAfterCrash, Injective

\* startFastImport keeps it.
LEMMA StartStep ==
    ASSUME IInv, NEW r \in Repo, StartFastImport(r)
    PROVE  IInv'
<1> DEFINE closed  == Victims(r)
           died    == state[r] = "NotRunning" /\ processHasStarted[r]
<1>1. /\ cache \in Seq(Repo) /\ Injective(cache) /\ Len(cache) <= maxSimultaneousProcesses
      /\ used \in Seq(Repo) /\ Injective(used)
      /\ \A s \in Repo : processHasStarted[s] <=> s \in Range(cache)
      /\ RunningProcesses \subseteq Range(cache)
  BY DEF IInv, TypeOK, CacheIsExact, Injective
<1>2. /\ cache' \in Seq(Repo) /\ Injective(cache')
      /\ Range(cache') = (Range(cache) \ closed) \cup {r} /\ r \notin closed
      /\ Len(cache') <= maxSimultaneousProcesses
  BY <1>1, TouchedFacts DEF StartFastImport
<1>3. used' \in Seq(Repo) /\ Injective(used') /\ used' # <<>> /\ used'[Len(used')] = r
  <2>1. /\ Without(used, r) \in Seq(Repo) /\ Injective(Without(used, r))
        /\ r \notin Range(Without(used, r))
    BY <1>1, WithoutFacts
  <2>2. used' = Append(Without(used, r), r)
    BY DEF StartFastImport
  <2> HIDE DEF Without
  <2>3. /\ Len(used') = Len(Without(used, r)) + 1
        /\ used'[Len(Without(used, r)) + 1] = r
    BY <2>1, <2>2
  <2>4. QED BY <2>1, <2>2, <2>3, AppendFacts
<1>4. \A s \in Repo : processHasStarted'[s] = IF s = r THEN TRUE
                                              ELSE s \notin closed /\ processHasStarted[s]
  BY DEF StartFastImport, HasStartedAfterClosing
<1>5. processHasStarted' \in [Repo -> BOOLEAN]
  BY DEF StartFastImport, HasStartedAfterClosing, IInv, TypeOK
<1>6. \A s \in Repo : state'[s] = IF s \in closed THEN "NotRunning"
                                  ELSE IF s = r /\ ~ died THEN "Running" ELSE state[s]
  <2>1. died \in BOOLEAN
    BY DEF IInv, TypeOK
  <2>2. state' = [s \in Repo |-> IF s \in closed THEN "NotRunning"
                                ELSE IF s = r /\ ~ died THEN "Running"
                                ELSE state[s]]
    BY DEF StartFastImport
  <2> HIDE DEF died, closed
  <2>3. QED BY <2>1, <2>2
<1>7. state' \in [Repo -> {"NotRunning", "Running"}]
  <2>1. state' = [s \in Repo |-> IF s \in closed THEN "NotRunning"
                                ELSE IF s = r /\ ~ died THEN "Running"
                                ELSE state[s]]
    BY DEF StartFastImport
  <2>2. QED BY <2>1, <1>6 DEF IInv, TypeOK
<1>8. deleted' = deleted /\ crashed' = crashed /\ aborted' = died
  BY DEF StartFastImport
<1>9. died \in BOOLEAN /\ (died => r \in crashed)
  BY DEF IInv, TypeOK, GoneMeansCrashed
<1> HIDE DEF closed, died
<1>10. TypeOK'
  BY <1>2, <1>3, <1>5, <1>7, <1>8, <1>9 DEF IInv, TypeOK
<1>11. CacheIsExact'
  <2>1. \A s \in Repo : processHasStarted'[s] <=> s \in Range(cache')
    BY <1>1, <1>2, <1>4
  <2>2. RunningProcesses' \subseteq Range(cache')
    BY <1>1, <1>2, <1>6 DEF RunningProcesses
  <2>3. QED BY <2>1, <2>2, <1>2 DEF CacheIsExact, Injective
<1>12. GoneMeansCrashed'
  BY <1>2, <1>4, <1>6, <1>8, <1>9 DEF IInv, GoneMeansCrashed
<1>13. AbortsOnlyAfterCrash'
  BY <1>3, <1>8, <1>9 DEF AbortsOnlyAfterCrash
<1>14. QED BY <1>3, <1>10, <1>11, <1>12, <1>13 DEF IInv

\* The destructor of one repository keeps it.
LEMMA DeleteStep ==
    ASSUME IInv, NEW r \in Repo, Delete(r)
    PROVE  IInv'
<1>1. /\ cache' \in Seq(Repo) /\ Injective(cache') /\ Range(cache') = Range(cache) \ {r}
      /\ Len(cache') <= maxSimultaneousProcesses
  BY WithoutFacts, ProcessCacheAssumption DEF Delete, IInv, TypeOK, CacheIsExact, Injective
<1>2. /\ \A s \in Repo : processHasStarted'[s] = (s # r /\ processHasStarted[s])
      /\ processHasStarted' \in [Repo -> BOOLEAN]
  BY DEF Delete, HasStartedAfterClosing, IInv, TypeOK
<1>3. /\ \A s \in Repo : state'[s] = IF s = r THEN "NotRunning" ELSE state[s]
      /\ state' \in [Repo -> {"NotRunning", "Running"}]
  BY DEF Delete, IInv, TypeOK
<1>4. aborted' = aborted /\ crashed' = crashed /\ used' = used /\ deleted' \subseteq Repo
  BY DEF Delete, IInv, TypeOK
<1>5. TypeOK'
  BY <1>1, <1>2, <1>3, <1>4 DEF IInv, TypeOK
<1>6. CacheIsExact'
  <2>1. \A s \in Repo : processHasStarted'[s] <=> s \in Range(cache')
    BY <1>1, <1>2 DEF IInv, CacheIsExact
  <2>2. RunningProcesses' \subseteq Range(cache')
    BY <1>1, <1>3 DEF IInv, CacheIsExact, RunningProcesses
  <2>3. QED BY <2>1, <2>2, <1>1 DEF CacheIsExact, Injective
<1>7. GoneMeansCrashed'
  BY <1>2, <1>3, <1>4 DEF IInv, GoneMeansCrashed
<1>8. AbortsOnlyAfterCrash' /\ Injective(used')
  BY <1>4 DEF IInv, AbortsOnlyAfterCrash
<1>9. QED BY <1>5, <1>6, <1>7, <1>8 DEF IInv

\* A process that ends on its own keeps it.
LEMMA CrashStep ==
    ASSUME IInv, NEW r \in Repo, ProcessCrash(r)
    PROVE  IInv'
<1>1. crashed' = crashed \cup {r} /\ crashed \subseteq Repo
  BY DEF ProcessCrash, IInv, TypeOK
<1>2. /\ \A s \in Repo : state'[s] = IF s = r THEN "NotRunning" ELSE state[s]
      /\ state' \in [Repo -> {"NotRunning", "Running"}]
  BY DEF ProcessCrash, IInv, TypeOK
<1>3. UNCHANGED <<cache, processHasStarted, aborted, deleted, used>>
  BY DEF ProcessCrash
<1>4. TypeOK'
  BY <1>1, <1>2, <1>3 DEF IInv, TypeOK
<1>5. CacheIsExact'
  BY <1>2, <1>3 DEF IInv, CacheIsExact, RunningProcesses
<1>6. GoneMeansCrashed' /\ AbortsOnlyAfterCrash'
  BY <1>1, <1>2, <1>3 DEF IInv, GoneMeansCrashed, AbortsOnlyAfterCrash
<1>7. Injective(used')
  BY <1>3 DEF IInv
<1>8. QED BY <1>4, <1>5, <1>6, <1>7 DEF IInv

\* Every step keeps the inductive invariant.
LEMMA StepIInv == IInv /\ [Next]_vars => IInv'
<1> SUFFICES ASSUME IInv, [Next]_vars PROVE IInv'
  OBVIOUS
<1>1. CASE UNCHANGED vars
  BY <1>1 DEF vars, IInv, TypeOK, CacheIsExact, RunningProcesses, GoneMeansCrashed,
              AbortsOnlyAfterCrash, Injective
<1>2. CASE Next
  BY <1>2, StartStep, DeleteStep, CrashStep DEF Next
<1>3. QED BY <1>1, <1>2

\* The inductive invariant of the cache.
THEOREM Invariance == Spec => []IInv
<1>1. QED BY InitIInv, StepIInv, PTL DEF Spec

-----------------------------------------------------------------------------
(* What it is for *)

\* The types, for every run.
THEOREM TypeCorrect == Spec => []TypeOK
<1>1. IInv => TypeOK
  BY DEF IInv
<1>2. QED BY <1>1, Invariance, PTL

\* No process escapes the cache, whatever is started, closed or ends on its own.
THEOREM CacheCorrect == Spec => []CacheIsExact
<1>1. IInv => CacheIsExact
  BY DEF IInv
<1>2. QED BY <1>1, Invariance, PTL

\* startFastImport never takes a process closed to make room for a crashed one.
THEOREM NoFalseAlarm == Spec => []AbortsOnlyAfterCrash
<1>1. IInv => AbortsOnlyAfterCrash
  BY DEF IInv
<1>2. QED BY <1>1, Invariance, PTL

\* At most maxSimultaneousProcesses processes run: each has a place in the list, and
\* the list has so many places.
THEOREM LimitHolds == Spec => []ProcessLimit
<1>1. IInv => ProcessLimit
  <2> SUFFICES ASSUME IInv PROVE ProcessLimit
    OBVIOUS
  <2>1. /\ cache \in [1 .. Len(cache) -> Repo] /\ Len(cache) \in Nat
        /\ Len(cache) <= maxSimultaneousProcesses
    BY DEF IInv, TypeOK
  <2>2. IsFiniteSet(1 .. Len(cache)) /\ Cardinality(1 .. Len(cache)) = Len(cache)
    <3>1. 1 \in Int /\ Len(cache) \in Int
      BY <2>1
    <3>2. Cardinality(1 .. Len(cache)) = IF 1 > Len(cache) THEN 0 ELSE Len(cache) - 1 + 1
      BY <3>1, FS_Interval
    <3>3. QED BY <2>1, <3>1, <3>2, FS_Interval
  <2>3. cache \in Surjection(1 .. Len(cache), Range(cache))
    BY <2>1 DEF Surjection, Range
  <2>4. IsFiniteSet(Range(cache)) /\ Cardinality(Range(cache)) <= Len(cache)
    BY <2>2, <2>3, FS_Surjection
  <2>5. /\ Cardinality(RunningProcesses) <= Cardinality(Range(cache))
        /\ IsFiniteSet(RunningProcesses)
    BY <2>4, FS_Subset DEF IInv, CacheIsExact
  <2>6. /\ Cardinality(RunningProcesses) \in Nat /\ Cardinality(Range(cache)) \in Nat
    BY <2>4, <2>5, FS_CardinalityType
  <2>7. QED BY <2>1, <2>4, <2>5, <2>6, ProcessCacheAssumption DEF ProcessLimit
<1>2. QED BY <1>1, Invariance, PTL
-----------------------------------------------------------------------------
(* The order of use *)

\* a stands before b in the list.
Before(list, a, b) ==
    \E i, j \in DOMAIN list : i < j /\ list[i] = a /\ list[j] = b

\* ProcessCache::remove does not change the order of the others.
LEMMA WithoutOrder ==
    ASSUME NEW list \in Seq(Repo), Injective(list), NEW r \in Repo, NEW a, NEW b
    PROVE  Before(Without(list, r), a, b) <=> Before(list, a, b) /\ a # r /\ b # r
<1>1. CASE r \notin Range(list)
  <2>1. Without(list, r) = list
    BY <1>1, WithoutAbsent
  <2>2. Before(list, a, b) => a # r /\ b # r
    BY <1>1 DEF Before, Range
  <2>3. QED BY <2>1, <2>2
<1>2. CASE r \in Range(list)
  <2>1. PICK k \in 1 .. Len(list) : list[k] = r
    BY <1>2 DEF Range
  <2> DEFINE w == Without(list, r)
  <2>2. /\ w \in Seq(Repo)
        /\ Len(w) = Len(list) - 1
        /\ \A i \in 1 .. Len(list) - 1 : w[i] = IF i < k THEN list[i] ELSE list[i + 1]
    BY <2>1, WithoutPresent
  <2> HIDE DEF w
  <2>3. DOMAIN w = 1 .. Len(list) - 1 /\ DOMAIN list = 1 .. Len(list)
    BY <2>2
  <2>4. ASSUME NEW i \in 1 .. Len(list) - 1, NEW j \in 1 .. Len(list) - 1,
               i < j, w[i] = a, w[j] = b
        PROVE  Before(list, a, b) /\ a # r /\ b # r
    <3> DEFINE up(n) == IF n < k THEN n ELSE n + 1
    <3>1. /\ up(i) \in 1 .. Len(list) /\ up(j) \in 1 .. Len(list) /\ up(i) < up(j)
          /\ up(i) # k /\ up(j) # k
      BY <2>4
    <3>2. list[up(i)] = a /\ list[up(j)] = b
      BY <2>2, <2>4
    <3> HIDE DEF up
    <3>3. a # r /\ b # r
      BY <3>1, <3>2, <2>1, <2>3 DEF Injective
    <3>4. QED BY <3>1, <3>2, <3>3, <2>3 DEF Before
  <2>5. ASSUME NEW i \in 1 .. Len(list), NEW j \in 1 .. Len(list),
               i < j, list[i] = a, list[j] = b, a # r, b # r
        PROVE  Before(w, a, b)
    <3> DEFINE down(n) == IF n < k THEN n ELSE n - 1
    <3>1. i # k /\ j # k
      BY <2>1, <2>5
    <3>2. /\ down(i) \in 1 .. Len(list) - 1 /\ down(j) \in 1 .. Len(list) - 1
          /\ down(i) < down(j)
      BY <2>5, <3>1
    <3>3. w[down(i)] = a /\ w[down(j)] = b
      <4>1. ASSUME NEW n \in 1 .. Len(list), n # k PROVE w[down(n)] = list[n]
        <5>1. CASE n < k
          BY <5>1, <2>2
        <5>2. CASE n > k
          <6>1. n - 1 \in 1 .. Len(list) - 1 /\ ~(n - 1 < k) /\ (n - 1) + 1 = n
            BY <5>2
          <6>2. QED BY <5>2, <6>1, <2>2
        <5>3. QED BY <4>1, <5>1, <5>2
      <4>2. QED BY <4>1, <3>1, <2>5
    <3> HIDE DEF down
    <3>4. QED BY <3>2, <3>3, <2>3 DEF Before
  <2>6. QED BY <2>3, <2>4, <2>5 DEF Before, w
<1>3. QED BY <1>1, <1>2

\* What the loop of ProcessCache::touch leaves is in the order it was in, and comes
\* behind everything it has closed.
LEMMA RoomOrder ==
    ASSUME NEW list \in Seq(Repo), Injective(list),
           Len(list) <= maxSimultaneousProcesses, NEW a, NEW b
    PROVE  /\ Before(Room(list), a, b) => Before(list, a, b)
           /\ a \in Range(list) \ Range(Room(list)) /\ b \in Range(Room(list))
                => Before(list, a, b)
<1>1. CASE Len(list) < maxSimultaneousProcesses
  BY <1>1 DEF Room
<1>2. CASE Len(list) = maxSimultaneousProcesses
  <2> DEFINE s == SubSeq(list, 2, Len(list))
  <2>1. Room(list) = s
    BY <1>2, ProcessCacheAssumption DEF Room
  <2>2. \A i \in 2 .. Len(list) : list[i] \in Repo
    OBVIOUS
  <2>3. /\ s \in Seq(Repo)
        /\ Len(s) = IF 2 <= Len(list) THEN Len(list) - 2 + 1 ELSE 0
        /\ \A i \in 1 .. Len(list) - 2 + 1 : s[i] = list[2 + i - 1]
    BY <2>2, SubSeqProperties
  <2> HIDE DEF s
  <2>4. Len(s) = Len(list) - 1 /\ \A i \in 1 .. Len(list) - 1 : s[i] = list[i + 1]
    BY <2>3, <1>2, ProcessCacheAssumption
  <2>5. DOMAIN s = 1 .. Len(list) - 1 /\ DOMAIN list = 1 .. Len(list)
    BY <2>3, <2>4
  <2>6. ASSUME NEW i \in 1 .. Len(list) - 1, NEW j \in 1 .. Len(list) - 1,
               i < j, s[i] = a, s[j] = b
        PROVE  Before(list, a, b)
    <3>1. /\ i + 1 \in DOMAIN list /\ j + 1 \in DOMAIN list /\ i + 1 < j + 1
          /\ list[i + 1] = a /\ list[j + 1] = b
      BY <2>4, <2>5, <2>6
    <3>2. QED BY <3>1 DEF Before
  <2>7. ASSUME NEW i \in 1 .. Len(list), NEW j \in 1 .. Len(list) - 1,
               list[i] = a, s[j] = b, a \notin Range(s)
        PROVE  Before(list, a, b)
    <3>1. i = 1
      <4>1. SUFFICES ASSUME i # 1 PROVE FALSE
        OBVIOUS
      <4>2. i - 1 \in 1 .. Len(list) - 1 /\ (i - 1) + 1 = i
        BY <4>1
      <4>3. s[i - 1] = a
        BY <4>2, <2>4, <2>7
      <4>4. QED BY <4>2, <4>3, <2>5, <2>7 DEF Range
    <3>2. j + 1 \in DOMAIN list /\ list[j + 1] = b /\ 1 < j + 1 /\ 1 \in DOMAIN list
      BY <2>4, <2>5, <2>7
    <3>3. QED BY <3>1, <3>2, <2>7 DEF Before
  <2>8. QED BY <2>1, <2>5, <2>6, <2>7 DEF Before, Range
<1>3. QED BY <1>1, <1>2, ProcessCacheAssumption

\* What is appended comes behind all the others.
LEMMA AppendOrder ==
    ASSUME NEW m \in Seq(Repo), NEW r \in Repo, r \notin Range(m), NEW a, NEW b
    PROVE  Before(Append(m, r), a, b) <=> Before(m, a, b) \/ (a \in Range(m) /\ b = r)
<1> DEFINE s == Append(m, r)
<1>1. /\ s \in Seq(Repo) /\ Len(s) = Len(m) + 1
      /\ \A i \in 1 .. Len(m) : s[i] = m[i]
      /\ s[Len(m) + 1] = r
  OBVIOUS
<1> HIDE DEF s
<1>2. DOMAIN m = 1 .. Len(m) /\ DOMAIN s = 1 .. Len(m) + 1 /\ Len(m) \in Nat
  BY <1>1
<1>3. ASSUME NEW i \in DOMAIN s, NEW j \in DOMAIN s, i < j, s[i] = a, s[j] = b
      PROVE  Before(m, a, b) \/ (a \in Range(m) /\ b = r)
  <2>1. i \in DOMAIN m /\ m[i] = a
    BY <1>1, <1>2, <1>3
  <2>2. CASE j = Len(m) + 1
    BY <2>1, <2>2, <1>1, <1>3 DEF Range
  <2>3. CASE j # Len(m) + 1
    <3>1. j \in DOMAIN m /\ m[j] = b
      BY <2>3, <1>1, <1>2, <1>3
    <3>2. QED BY <2>1, <3>1, <1>3 DEF Before
  <2>4. QED BY <2>2, <2>3
<1>4. ASSUME NEW i \in DOMAIN m, NEW j \in DOMAIN m, i < j, m[i] = a, m[j] = b
      PROVE  Before(s, a, b)
  <2>1. i \in DOMAIN s /\ j \in DOMAIN s /\ s[i] = a /\ s[j] = b
    BY <1>1, <1>2, <1>4
  <2>2. QED BY <2>1, <1>4 DEF Before
<1>5. ASSUME NEW i \in DOMAIN m, m[i] = a, b = r
      PROVE  Before(s, a, b)
  <2>1. i \in DOMAIN s /\ Len(m) + 1 \in DOMAIN s /\ i < Len(m) + 1 /\ s[i] = a
    BY <1>1, <1>2, <1>5
  <2>2. QED BY <2>1, <1>1, <1>5 DEF Before
<1>6. Before(s, a, b) <=> Before(m, a, b) \/ (a \in Range(m) /\ b = r)
  BY <1>3, <1>4, <1>5 DEF Before, Range
<1>7. QED BY <1>6 DEF s

\* The list of the cache is the tail of the order of use: it agrees with it, and what
\* was closed to make room lies before all of it.
UsedInOrder ==
    /\ Range(cache) \subseteq Range(used)
    /\ \A a, b \in Repo : Before(cache, a, b) => Before(used, a, b)
    /\ \A a, b \in Repo :
          a \in Range(used) \ (Range(cache) \cup deleted) /\ b \in Range(cache)
             => Before(used, a, b)

\* startFastImport moves one repository to the end of both orders.
LEMMA StartOrder ==
    ASSUME IInv, UsedInOrder, NEW r \in Repo, StartFastImport(r)
    PROVE  UsedInOrder'
<1> DEFINE w == Without(cache, r)
           m == Room(w)
           u == Without(used, r)
<1>1. /\ cache \in Seq(Repo) /\ Injective(cache) /\ Len(cache) <= maxSimultaneousProcesses
      /\ used \in Seq(Repo) /\ Injective(used)
  BY DEF IInv, TypeOK, CacheIsExact, Injective
<1>2. /\ w \in Seq(Repo) /\ Injective(w) /\ Range(w) = Range(cache) \ {r}
      /\ Len(w) <= maxSimultaneousProcesses
  BY <1>1, WithoutFacts, ProcessCacheAssumption
<1>3. /\ m \in Seq(Repo) /\ Injective(m) /\ Range(m) \subseteq Range(w)
  BY <1>2, RoomFacts
<1>4. /\ u \in Seq(Repo) /\ Injective(u) /\ Range(u) = Range(used) \ {r}
  BY <1>1, WithoutFacts
<1>5. cache' = Append(m, r) /\ used' = Append(u, r) /\ deleted' = deleted
  BY DEF StartFastImport, Touched
<1>6. \A a, b \in Repo : Before(w, a, b) <=> Before(cache, a, b) /\ a # r /\ b # r
  BY <1>1, WithoutOrder
<1>7. \A a, b \in Repo : Before(u, a, b) <=> Before(used, a, b) /\ a # r /\ b # r
  BY <1>1, WithoutOrder
<1>8. \A a, b \in Repo :
         /\ Before(m, a, b) => Before(w, a, b)
         /\ a \in Range(w) \ Range(m) /\ b \in Range(m) => Before(w, a, b)
  BY <1>2, RoomOrder
<1> HIDE DEF w, m, u
<1>9. \A a, b \in Repo : Before(cache', a, b) <=> Before(m, a, b) \/ (a \in Range(m) /\ b = r)
  BY <1>2, <1>3, <1>5, AppendOrder
<1>10. \A a, b \in Repo : Before(used', a, b) <=> Before(u, a, b) \/ (a \in Range(u) /\ b = r)
  BY <1>4, <1>5, AppendOrder
<1>11. /\ Range(cache') = Range(m) \cup {r}
       /\ Range(used') = Range(u) \cup {r}
  BY <1>2, <1>3, <1>4, <1>5, AppendFacts
<1>12. Range(cache') \subseteq Range(used')
  BY <1>2, <1>3, <1>4, <1>11 DEF UsedInOrder
<1>13. ASSUME NEW a \in Repo, NEW b \in Repo, Before(cache', a, b)
       PROVE  Before(used', a, b)
  BY <1>2, <1>3, <1>4, <1>6, <1>7, <1>8, <1>9, <1>10, <1>13 DEF UsedInOrder
<1>14. ASSUME NEW a \in Repo, NEW b \in Repo,
              a \in Range(used') \ (Range(cache') \cup deleted'), b \in Range(cache')
       PROVE  Before(used', a, b)
  <2>1. a # r /\ a \in Range(u) /\ a \in Range(used) /\ a \notin Range(m) /\ a \notin deleted
    BY <1>4, <1>5, <1>11, <1>14
  <2>2. CASE b = r
    BY <2>1, <2>2, <1>10
  <2>3. CASE b # r
    <3>1. b \in Range(m) /\ b \in Range(w) /\ b \in Range(cache)
      BY <2>3, <1>2, <1>3, <1>11, <1>14
    <3>2. Before(used, a, b)
      <4>1. CASE a \in Range(cache)
        BY <4>1, <2>1, <3>1, <1>2, <1>6, <1>8 DEF UsedInOrder
      <4>2. CASE a \notin Range(cache)
        BY <4>2, <2>1, <3>1 DEF UsedInOrder
      <4>3. QED BY <4>1, <4>2
    <3>3. QED BY <2>1, <2>3, <3>2, <1>7, <1>10
  <2>4. QED BY <2>2, <2>3
<1>15. QED BY <1>12, <1>13, <1>14 DEF UsedInOrder

\* The destructor takes one out of the list; the order of use stays.
LEMMA DeleteOrder ==
    ASSUME IInv, UsedInOrder, NEW r \in Repo, Delete(r)
    PROVE  UsedInOrder'
<1>1. cache \in Seq(Repo) /\ Injective(cache)
  BY DEF IInv, TypeOK, CacheIsExact, Injective
<1>2. cache' = Without(cache, r) /\ used' = used /\ deleted' = deleted \cup {r}
  BY DEF Delete
<1>3. Range(cache') = Range(cache) \ {r}
  BY <1>1, <1>2, WithoutFacts
<1>4. \A a, b \in Repo : Before(cache', a, b) => Before(cache, a, b)
  BY <1>1, <1>2, WithoutOrder
<1>5. QED BY <1>2, <1>3, <1>4 DEF UsedInOrder

\* The list of the cache is in the order of use in every state.
THEOREM OrderInvariance == Spec => []UsedInOrder
<1>1. Init => UsedInOrder
  BY DEF Init, UsedInOrder, Before, Range
<1>2. IInv /\ UsedInOrder /\ [Next]_vars => UsedInOrder'
  <2> SUFFICES ASSUME IInv, UsedInOrder, [Next]_vars PROVE UsedInOrder'
    OBVIOUS
  <2>1. CASE cache' = cache /\ used' = used /\ deleted' = deleted
    BY <2>1 DEF UsedInOrder
  <2>2. CASE Next
    BY <2>1, <2>2, StartOrder, DeleteOrder DEF Next, ProcessCrash
  <2>3. QED BY <2>1, <2>2 DEF vars
<1>3. QED BY <1>1, <1>2, Invariance, PTL DEF Spec

\* ProcessCache::touch closes the processes unused for longest: whatever is still in the
\* list was used after everything it has closed to make room.
THEOREM LeastRecentlyUsed == Spec => []LeastRecentlyUsedGoes
<1>1. IInv /\ UsedInOrder => LeastRecentlyUsedGoes
  <2> SUFFICES ASSUME IInv, UsedInOrder, NEW i \in DOMAIN used, NEW j \in DOMAIN used,
                      used[i] \in Range(cache), used[j] \notin Range(cache) \cup deleted
               PROVE  j < i
    BY DEF LeastRecentlyUsedGoes
  <2>1. used \in Seq(Repo) /\ Injective(used)
    BY DEF IInv, TypeOK
  <2>2. used[i] \in Repo /\ used[j] \in Repo /\ used[j] \in Range(used)
    BY <2>1 DEF Range
  <2>3. Before(used, used[j], used[i])
    BY <2>2 DEF UsedInOrder
  <2>4. QED BY <2>1, <2>3 DEF Before, Injective
<1>2. QED BY <1>1, Invariance, OrderInvariance, PTL
=============================================================================
