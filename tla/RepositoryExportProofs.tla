----------------------- MODULE RepositoryExportProofs -----------------------
(***************************************************************************)
(* Proofs about an export that nothing disturbs: however fast-import is    *)
(* stopped and started and however many runs the export takes, git ends    *)
(* up with the branches, the tags and the backups Subversion calls for,    *)
(* revision by revision as BranchHistory says.                             *)
(*                                                                         *)
(* ExportInv relates the branches in memory, the log, the marks and the    *)
(* process to the histories the operations call for; after it come its     *)
(* consequences, one lemma for each action, and the theorems.              *)
(***************************************************************************)
EXTENDS RepositoryProofs

(* The setting *)

\* The setting of these theorems: no crash, no branch whose name is a directory of another's,
\* one Subversion path behind each branch, and copies of what has commits.  Evictions come
\* in every phase, and runs end and start again.
Undisturbed ==
    /\ NullIsNoHistory
    /\ CrashKinds = {} /\ Conflicts = {}
    /\ ~ ManyToOne /\ ~ EmptySources

-----------------------------------------------------------------------------
(* The last element before a point *)

\* The greatest element of a set, once it is found.
LEMMA LatestIs ==
    ASSUME NEW S, S \subseteq Int, NEW i \in S, \A j \in S : j <= i
    PROVE  (CHOOSE k \in S : \A j \in S : j <= k) = i
<1> DEFINE c == CHOOSE k \in S : \A j \in S : j <= k
<1>1. c \in S /\ \A j \in S : j <= c
  OBVIOUS
<1> HIDE DEF c
<1>2. c = i
  BY <1>1
<1>3. QED BY <1>2 DEF c

\* The mark of the last commit of a branch not after `at`, 0 if there is none.
EntryMark(br, at) ==
    LET before == {i \in 1 .. Len(br.marks) : br.commits[i] <= at}
    IN  IF before = {} THEN 0
        ELSE br.marks[CHOOSE i \in before : \A j \in before : j <= i]

\* The mark of the last of the first n lines that is of branch b and not after r.
LineMark(lines, n, b, r) ==
    LET own == {i \in 1 .. n : lines[i].branch = b /\ lines[i].rev <= r}
    IN  IF own = {} THEN 0
        ELSE lines[CHOOSE i \in own : \A j \in own : j <= i].mark

\* One more line is read: it counts if it is of the branch and not too late.
LEMMA LineMarkNext ==
    ASSUME NEW lines, NEW n \in Nat, NEW b, NEW r
    PROVE  LineMark(lines, n + 1, b, r) =
               IF lines[n + 1].branch = b /\ lines[n + 1].rev <= r THEN lines[n + 1].mark
               ELSE LineMark(lines, n, b, r)
<1> DEFINE fits(i) == lines[i].branch = b /\ lines[i].rev <= r
           old == {i \in 1 .. n : fits(i)}
           own == {i \in 1 .. n + 1 : fits(i)}
<1>1. CASE fits(n + 1)
  <2>1. own \subseteq Int /\ n + 1 \in own /\ \A j \in own : j <= n + 1
    BY <1>1
  <2>2. (CHOOSE k \in own : \A j \in own : j <= k) = n + 1
    BY <2>1, LatestIs
  <2>3. QED BY <1>1, <2>1, <2>2 DEF LineMark
<1>2. CASE ~ fits(n + 1)
  <2>1. own = old
    BY <1>2
  <2>2. LineMark(lines, n + 1, b, r) = (IF own = {} THEN 0
            ELSE lines[CHOOSE i \in own : \A j \in own : j <= i].mark)
    BY DEF LineMark
  <2>3. LineMark(lines, n, b, r) = (IF old = {} THEN 0
            ELSE lines[CHOOSE i \in old : \A j \in old : j <= i].mark)
    BY DEF LineMark
  <2> HIDE DEF own, old
  <2>4. LineMark(lines, n + 1, b, r) = LineMark(lines, n, b, r)
    BY ONLY <2>1, <2>2, <2>3
  <2>5. QED BY <1>2, <2>4
<1>3. QED BY <1>1, <1>2

\* Sequences that agree on the first n lines answer alike.
LEMMA LineMarkSame ==
    ASSUME NEW lines, NEW more, NEW n \in Nat, \A i \in 1 .. n : more[i] = lines[i],
           NEW b, NEW r
    PROVE  LineMark(more, n, b, r) = LineMark(lines, n, b, r)
<1> DEFINE own(l) == {i \in 1 .. n : l[i].branch = b /\ l[i].rev <= r}
           c == CHOOSE i \in own(lines) : \A j \in own(lines) : j <= i
<1>1. own(more) = own(lines)
  OBVIOUS
<1>2. own(lines) # {} => c \in 1 .. n
  <2>1. own(lines) \subseteq 1 .. n
    OBVIOUS
  <2> HIDE DEF own
  <2>2. own(lines) # {} => \E i \in own(lines) : \A j \in own(lines) : j <= i
    BY <2>1, Greatest
  <2>3. QED BY <2>1, <2>2
<1>3. /\ LineMark(more, n, b, r) = (IF own(more) = {} THEN 0
            ELSE more[CHOOSE i \in own(more) : \A j \in own(more) : j <= i].mark)
      /\ LineMark(lines, n, b, r) = (IF own(lines) = {} THEN 0
            ELSE lines[CHOOSE i \in own(lines) : \A j \in own(lines) : j <= i].mark)
  BY DEF LineMark
<1> HIDE DEF own
<1>4. own(lines) # {} => more[c] = lines[c]
  BY <1>2
<1> HIDE DEF c
<1>5. QED BY <1>1, <1>3, <1>4 DEF c

\* A line appended.
LEMMA LineMarkAppend ==
    ASSUME NEW lines \in Seq(Line), NEW line \in Line, NEW b, NEW r
    PROVE  LET more == Append(lines, line)
           IN  LineMark(more, Len(more), b, r) =
                   IF line.branch = b /\ line.rev <= r THEN line.mark
                   ELSE LineMark(lines, Len(lines), b, r)
<1> DEFINE more == Append(lines, line)
           n    == Len(lines)
<1>1. n \in Nat /\ Len(more) = n + 1 /\ (\A i \in 1 .. n : more[i] = lines[i]) /\ more[n + 1] = line
  BY AppendFacts
<1> HIDE DEF more, n
<1>2. LineMark(more, n, b, r) = LineMark(lines, n, b, r)
  BY <1>1, LineMarkSame
<1>3. LineMark(more, n + 1, b, r) =
               IF more[n + 1].branch = b /\ more[n + 1].rev <= r THEN more[n + 1].mark
               ELSE LineMark(more, n, b, r)
  BY <1>1, LineMarkNext
<1>4. QED BY <1>1, <1>2, <1>3 DEF more, n

\* What a line can be found to say.
LEMMA LineMarkIsOne ==
    ASSUME NEW lines, NEW n \in Nat, NEW b, NEW r
    PROVE  \/ LineMark(lines, n, b, r) = 0
           \/ \E i \in 1 .. n : /\ lines[i].branch = b /\ lines[i].rev <= r
                                /\ LineMark(lines, n, b, r) = lines[i].mark
<1> DEFINE own == {i \in 1 .. n : lines[i].branch = b /\ lines[i].rev <= r}
<1>1. own \subseteq 1 .. n
  OBVIOUS
<1>2. own # {} => \E i \in own : \A j \in own : j <= i
  <2> HIDE DEF own
  <2>1. QED BY <1>1, Greatest
<1>3. QED BY <1>2 DEF LineMark

\* Lines from before r1 are before any later revision too.
LEMMA LineMarkLater ==
    ASSUME NEW lines, NEW n \in Nat, NEW b, NEW r, NEW s,
           \A i \in 1 .. n : (lines[i].rev <= r) = (lines[i].rev <= s)
    PROVE  LineMark(lines, n, b, r) = LineMark(lines, n, b, s)
<1> DEFINE own(t) == {i \in 1 .. n : lines[i].branch = b /\ lines[i].rev <= t}
<1>1. own(r) = own(s)
  OBVIOUS
<1>2. \A t : LineMark(lines, n, b, t) = (IF own(t) = {} THEN 0
            ELSE lines[CHOOSE i \in own(t) : \A j \in own(t) : j <= i].mark)
  BY DEF LineMark
<1> HIDE DEF own
<1>3. QED BY <1>1, <1>2

\* A branch, one more commit or reset noted (setMarkForBranch, resetBranch).
LEMMA EntryExtended ==
    ASSUME NEW br \in Entry, NEW rv \in Nat, NEW m \in Mark, NEW created
    PROVE  LET x == Extended(br, rv, m, created)
           IN  /\ LastOf(x.marks) = m /\ x.created = created /\ x.commits # <<>>
               /\ \A at \in Int : EntryMark(x, at) = IF rv <= at THEN m ELSE EntryMark(br, at)
<1> DEFINE x == Extended(br, rv, m, created)
           n == Len(br.marks)
<1>1. /\ n \in Nat /\ Len(x.marks) = n + 1 /\ x.created = created /\ x.marks # <<>>
      /\ \A i \in 1 .. n : x.marks[i] = br.marks[i] /\ x.commits[i] = br.commits[i]
      /\ x.marks[n + 1] = m /\ x.commits[n + 1] = rv
      /\ \A i \in 1 .. n : br.commits[i] \in Nat
      /\ x.commits # <<>>
  <2>1. x.marks = Append(br.marks, m) /\ x.commits = Append(br.commits, rv)
        /\ x.created = created
    BY DEF Extended
  <2>2. br.marks \in Seq(Mark) /\ br.commits \in Seq(Nat) /\ Len(br.commits) = n
    BY DEF Entry
  <2>3. /\ n \in Nat /\ Len(x.marks) = n + 1 /\ x.marks # <<>> /\ x.marks[n + 1] = m
        /\ \A i \in 1 .. n : x.marks[i] = br.marks[i]
    BY <2>1, <2>2, AppendFacts
  <2>4. /\ x.commits # <<>> /\ x.commits[n + 1] = rv
        /\ \A i \in 1 .. n : x.commits[i] = br.commits[i]
    <3>1. br.commits \in Seq(Nat) /\ rv \in Nat
      BY <2>2
    <3>2. /\ Append(br.commits, rv) # <<>>
          /\ Append(br.commits, rv)[Len(br.commits) + 1] = rv
          /\ \A i \in 1 .. Len(br.commits) : Append(br.commits, rv)[i] = br.commits[i]
      BY <3>1, AppendFacts
    <3> HIDE DEF x
    <3>3. QED BY <2>1, <2>2, <3>2
  <2>5. \A i \in 1 .. n : br.commits[i] \in Nat
    BY <2>2
  <2> HIDE DEF x, n
  <2>6. QED BY <2>1, <2>3, <2>4, <2>5
<1> HIDE DEF x, n
<1>2. LastOf(x.marks) = m
  BY <1>1 DEF LastOf
<1>3. ASSUME NEW at \in Int
      PROVE  EntryMark(x, at) = IF rv <= at THEN m ELSE EntryMark(br, at)
  <2> DEFINE old == {i \in 1 .. n : br.commits[i] <= at}
             own == {i \in 1 .. n + 1 : x.commits[i] <= at}
  <2>0. EntryMark(x, at) = (IF own = {} THEN 0 ELSE x.marks[CHOOSE i \in own : \A j \in own : j <= i])
        /\ EntryMark(br, at) = (IF old = {} THEN 0 ELSE br.marks[CHOOSE i \in old : \A j \in old : j <= i])
    BY <1>1 DEF EntryMark, n
  <2>1. CASE rv <= at
    <3>1. own \subseteq Int /\ n + 1 \in own /\ \A j \in own : j <= n + 1
      BY <1>1, <2>1
    <3>2. (CHOOSE k \in own : \A j \in own : j <= k) = n + 1
      BY <3>1, LatestIs
    <3>3. QED BY <1>1, <2>0, <2>1, <3>1, <3>2
  <2>2. CASE ~ (rv <= at)
    <3>1. own = old /\ old \subseteq 1 .. n
      BY <1>1, <2>2
    <3> HIDE DEF own, old
    <3>2. old # {} => \E i \in old : \A j \in old : j <= i
      BY <1>1, <3>1, Greatest
    <3>3. old # {} => (CHOOSE i \in old : \A j \in old : j <= i) \in 1 .. n
      BY <3>1, <3>2
    <3>4. QED BY <1>1, <2>0, <2>2, <3>1, <3>3
  <2>3. QED BY <2>1, <2>2
<1>4. QED BY <1>1, <1>2, <1>3 DEF x

\* At a revision after all its commits, a branch is at its last mark.
LEMMA EntryLast ==
    ASSUME NEW br \in Entry, NEW at, \A i \in 1 .. Len(br.marks) : br.commits[i] <= at
    PROVE  EntryMark(br, at) = LastOf(br.marks)
<1> DEFINE own == {i \in 1 .. Len(br.marks) : br.commits[i] <= at}
<1>1. br.marks \in Seq(Mark) /\ Len(br.marks) \in Nat /\ own = 1 .. Len(br.marks)
  BY DEF Entry
<1>2. CASE br.marks = <<>>
  <2>1. own = {}
    BY <1>1, <1>2
  <2>2. QED BY <1>2, <2>1 DEF EntryMark, LastOf
<1>3. CASE br.marks # <<>>
  <2>1. Len(br.marks) \in own /\ own \subseteq Int /\ \A j \in own : j <= Len(br.marks)
    BY <1>1, <1>3
  <2>2. (CHOOSE k \in own : \A j \in own : j <= k) = Len(br.marks)
    BY <2>1, LatestIs
  <2>3. QED BY <1>3, <2>1, <2>2 DEF EntryMark, LastOf
<1>4. QED BY <1>2, <1>3

\* markFrom, for branches that were created before they had commits.
LEMMA MarkFromIs ==
    ASSUME NEW brs \in [Branch -> Entry], NEW b \in Branch, NEW at,
           brs[b].commits # <<>> => brs[b].created # 0
    PROVE  LET m == MarkFrom(brs, b, at)
           IN  /\ EntryMark(brs[b], at) # 0 => m = EntryMark(brs[b], at)
               /\ m > 0 => m = EntryMark(brs[b], at)
               /\ EntryMark(brs[b], at) \in Mark
<1> DEFINE br     == brs[b]
           own    == {i \in 1 .. Len(br.marks) : br.commits[i] <= at}
           before == {i \in DOMAIN br.commits : br.commits[i] <= at}
<1>1. /\ br \in Entry /\ br.marks \in Seq(Mark) /\ br.commits \in Seq(Nat)
      /\ Len(br.marks) \in Nat /\ DOMAIN br.commits = 1 .. Len(br.marks)
  BY DEF Entry
<1>2. own = before
  BY <1>1
<1>3. own # {} => \E i \in own : \A j \in own : j <= i
  <2>1. own \subseteq 1 .. Len(br.marks)
    OBVIOUS
  <2> HIDE DEF own
  <2>2. QED BY <1>1, <2>1, Greatest
<1>4. EntryMark(br, at) \in Mark
  <2> DEFINE last == CHOOSE i \in own : \A j \in own : j <= i
  <2>1. own # {} => last \in 1 .. Len(br.marks)
    BY <1>3
  <2> HIDE DEF last
  <2>2. own # {} => br.marks[last] \in Mark
    BY <1>1, <2>1
  <2>3. QED BY <2>2, Bounds DEF EntryMark, last
<1>5. CASE own = {}
  BY <1>2, <1>4, <1>5 DEF MarkFrom, EntryMark
<1>6. CASE own # {}
  <2>1. br.commits # <<>>
    BY <1>2, <1>6
  <2>2. MarkFrom(brs, b, at)
          = IF br.created = 0 \/ br.commits = <<>> THEN -1
            ELSE IF before = {} THEN 0
            ELSE br.marks[CHOOSE i \in before : \A j \in before : j <= i]
    BY DEF MarkFrom
  <2>3. EntryMark(br, at) = IF own = {} THEN 0
            ELSE br.marks[CHOOSE i \in own : \A j \in own : j <= i]
    BY DEF EntryMark
  <2>4. br.created # 0 /\ br.commits # <<>>
    BY <2>1
  <2> HIDE DEF own, before
  <2>5. MarkFrom(brs, b, at) = EntryMark(br, at)
    BY ONLY <1>2, <1>6, <2>2, <2>3, <2>4
  <2>6. QED BY <1>4, <2>5
<1>7. QED BY <1>5, <1>6

\* Looking a branch up changes nothing about its commits.
LEMMA LookedUpSame ==
    ASSUME NEW brs \in [Branch -> Entry], NEW a, NEW b \in Branch
    PROVE  LET x == LookedUp(brs, a)[b]
           IN  /\ LastOf(x.marks) = LastOf(brs[b].marks) /\ x.created = brs[b].created
               /\ x.commits = brs[b].commits /\ x.marks = brs[b].marks
               /\ HasTip(x) = HasTip(brs[b])
               /\ \A at : EntryMark(x, at) = EntryMark(brs[b], at)
<1>1. /\ LookedUp(brs, a)[b].marks = brs[b].marks
      /\ LookedUp(brs, a)[b].commits = brs[b].commits
      /\ LookedUp(brs, a)[b].created = brs[b].created
  BY LookedUpMarks
<1>2. QED BY <1>1 DEF HasTip, EntryMark

-----------------------------------------------------------------------------
(* What git holds *)

\* Git has the history h for the branch b: in a running process, and on disk.
HoldsRunning(p, d, b, h) ==
    IF h # <<>> THEN p.tab[b] = h
    ELSE \/ p.tab[b] = Null /\ d.ref[b] = Null /\ d.tag[b] = Null
         \/ p.tab[b] = <<>> /\ b \in p.del

\* The same of what is on disk.
HoldsStored(d, b, h) ==
    IF h # <<>> THEN d.ref[b] = h ELSE d.ref[b] = Null /\ d.tag[b] = Null

\* Writing what a process has leaves it on disk.
LEMMA DumpHolds ==
    ASSUME NullIsNoHistory, NEW p \in Process, NEW d \in Disk, NEW b \in Branch,
           NEW h \in History, HoldsRunning(p, d, b, h), h = <<>> => p.tag[b] = Null
    PROVE  LET n == Git!Dump(p, d) IN HoldsStored(n, b, h) /\ HoldsRunning(p, n, b, h)
<1> DEFINE n == Git!Dump(p, d)
<1>1. h # Null /\ <<>> # Null
  <2>1. <<>> \in History
    BY DEF History
  <2>2. QED BY <2>1 DEF NullIsNoHistory
<1>2. /\ n.ref[b] = CASE Git!Untouched(p, b) -> d.ref[b]
                      [] Git!Unborn(p, b) -> Null
                      [] OTHER -> p.tab[b]
      /\ n.tag[b] = CASE p.tag[b] # Null -> p.tag[b]
                      [] p.tag[b] = Null /\ Git!Untouched(p, b) -> d.tag[b]
                      [] OTHER -> Null
  BY DEF Git!Dump
<1> HIDE DEF n
<1>3. CASE h # <<>>
  <2>1. p.tab[b] = h /\ ~ Git!Untouched(p, b) /\ ~ Git!Unborn(p, b)
    BY <1>1, <1>3 DEF HoldsRunning, Git!Untouched, Git!Unborn
  <2>2. n.ref[b] = h
    BY <1>2, <2>1
  <2>3. QED BY <1>3, <2>1, <2>2 DEF HoldsRunning, HoldsStored, n
<1>4. CASE h = <<>> /\ p.tab[b] = Null /\ d.ref[b] = Null /\ d.tag[b] = Null
  <2>1. Git!Untouched(p, b) /\ p.tag[b] = Null
    BY <1>4 DEF Git!Untouched
  <2>2. n.ref[b] = Null /\ n.tag[b] = Null
    BY <1>2, <1>4, <2>1
  <2>3. QED BY <1>4, <2>2 DEF HoldsRunning, HoldsStored, n
<1>5. CASE h = <<>> /\ p.tab[b] = <<>> /\ b \in p.del
  <2>1. ~ Git!Untouched(p, b) /\ Git!Unborn(p, b) /\ p.tag[b] = Null
    BY <1>1, <1>5 DEF Git!Untouched, Git!Unborn
  <2>2. n.ref[b] = Null /\ n.tag[b] = Null
    BY <1>2, <2>1
  <2>3. QED BY <1>5, <2>2 DEF HoldsRunning, HoldsStored, n
<1>6. QED BY <1>3, <1>4, <1>5 DEF HoldsRunning

\* The annotated tag of a branch with commits.
LEMMA DumpTag ==
    ASSUME NEW p \in Process, NEW d \in Disk, NEW b \in Branch
    PROVE  p.tag[b] # Null => Git!Dump(p, d).tag[b] = p.tag[b]
BY DEF Git!Dump

\* A name that resolves to commits still does.
LEMMA DumpNames ==
    ASSUME NullIsNoHistory, NEW p \in Process, NEW d \in Disk, NEW b \in Branch,
           Git!RefTip(p, d, b) \notin {Null, <<>>}
    PROVE  LET n == Git!Dump(p, d)
           IN  n.ref[b] = Git!RefTip(p, d, b) /\ Git!RefTip(p, n, b) = Git!RefTip(p, d, b)
<1> DEFINE n == Git!Dump(p, d)
<1>1. n.ref[b] = CASE Git!Untouched(p, b) -> d.ref[b]
                   [] Git!Unborn(p, b) -> Null
                   [] OTHER -> p.tab[b]
  BY DEF Git!Dump
<1> HIDE DEF n
<1>2. CASE p.tab[b] = Null
  <2>0. <<>> \in History
    BY DEF History
  <2>1. Git!Untouched(p, b) /\ ~ Git!Unborn(p, b) /\ Git!RefTip(p, d, b) = d.ref[b]
    BY <1>2, <2>0 DEF Git!Untouched, Git!Unborn, Git!RefTip, NullIsNoHistory
  <2>2. n.ref[b] = d.ref[b]
    BY <1>1, <2>1
  <2>3. QED BY <1>2, <2>1, <2>2 DEF Git!RefTip, n
<1>3. CASE p.tab[b] # Null
  <2>1. Git!RefTip(p, d, b) = p.tab[b] /\ p.tab[b] # <<>>
    BY <1>3 DEF Git!RefTip
  <2>2. ~ Git!Untouched(p, b) /\ ~ Git!Unborn(p, b)
    BY <1>3, <2>1 DEF Git!Untouched, Git!Unborn
  <2>3. n.ref[b] = p.tab[b]
    BY <1>1, <2>2
  <2>4. QED BY <1>3, <2>1, <2>3 DEF Git!RefTip, n
<1>4. QED BY <1>2, <1>3

\* No backup is lost, and none appears.
LEMMA DumpBackups ==
    ASSUME NEW p \in Process, NEW d \in Disk
    PROVE  LET n == Git!Dump(p, d)
           IN  /\ n.backup \subseteq p.backup \cup d.backup
               /\ p.backup \subseteq n.backup
               /\ \A k \in d.backup : \E m \in n.backup : m.branch = k.branch /\ m.rev = k.rev
<1> DEFINE n == Git!Dump(p, d)
<1>1. n.backup = p.backup \cup {k \in d.backup : ~ \E m \in p.backup :
                                   <<m.branch, m.rev>> = <<k.branch, k.rev>>}
  BY DEF Git!Dump
<1> HIDE DEF n
<1>2. ASSUME NEW k \in d.backup
      PROVE  \E m \in n.backup : m.branch = k.branch /\ m.rev = k.rev
  <2>1. CASE \E m \in p.backup : <<m.branch, m.rev>> = <<k.branch, k.rev>>
    BY <1>1, <2>1
  <2>2. CASE ~ \E m \in p.backup : <<m.branch, m.rev>> = <<k.branch, k.rev>>
    BY <1>1, <2>2
  <2>3. QED BY <2>1, <2>2
<1>3. QED BY <1>1, <1>2 DEF n

\* A process started on a disk that has the last mark of every branch.
LEMMA ReloadedHolds ==
    ASSUME NEW d \in Disk, NEW brs \in [Branch -> Entry],
           \A b \in Branch : LastOf(brs[b].marks) # 0 => d.mark[LastOf(brs[b].marks)] # Null
    PROVE  LET p == Reloaded(Git!Started(d), brs)
           IN  /\ p \in Process /\ ~ p.dead /\ p.mark = d.mark /\ p.blob = d.blob
               /\ p.del = {} /\ p.backup = {} /\ \A b \in Branch : p.tag[b] = Null
               /\ \A b \in Branch :
                     p.tab[b] = IF LastOf(brs[b].marks) # 0 THEN d.mark[LastOf(brs[b].marks)]
                                ELSE Null
<1> DEFINE f == Git!Started(d)
           last(b) == LastOf(brs[b].marks)
           p == Reloaded(f, brs)
<1>1. /\ f \in Process /\ f.mark = d.mark /\ f.blob = d.blob /\ ~ f.dead
      /\ f.del = {} /\ f.backup = {}
      /\ \A b \in Branch : f.tab[b] = Null /\ f.tag[b] = Null
  BY StartedFacts
<1>2. p \in Process /\ p.mark = f.mark /\ p.blob = f.blob
  BY <1>1, ReloadedFacts
<1>3. p = [f EXCEPT !.tab = [b \in Branch |-> IF last(b) # 0 THEN f.mark[last(b)] ELSE @[b]]]
  <2>1. ~ \E b \in {b \in Branch : last(b) # 0} : f.mark[last(b)] = Null
    BY <1>1
  <2> HIDE DEF f
  <2> DEFINE loaded == {b \in Branch : last(b) # 0}
  <2>2. p = [f EXCEPT !.tab = [b \in Branch |-> IF b \in loaded THEN f.mark[last(b)] ELSE @[b]]]
    BY <2>1 DEF Reloaded
  <2>3. QED BY <2>2
<1> HIDE DEF f, p, last
<1>4. /\ p.dead = f.dead /\ p.del = f.del /\ p.backup = f.backup /\ p.tag = f.tag
      /\ p.tab = [b \in Branch |-> IF last(b) # 0 THEN f.mark[last(b)] ELSE f.tab[b]]
  BY <1>1, <1>3 DEF Process
<1>5. QED BY <1>1, <1>2, <1>4 DEF f, p, last

-----------------------------------------------------------------------------
(* The invariant *)

\* A revision is being exported, or one may begin; one is being exported.
Active    == phase \in {"idle", "prepare", "commit"}
Exporting == phase \in {"prepare", "commit"}

\* The contents of the file marks.
BlobTable == IF processHasStarted THEN fi.blob ELSE disk.blob

\* The history a mark stands for, and the last one of a branch.
Value(m)    == IF m = 0 THEN <<>> ELSE MarkTable[m]
LastMark(b) == LastOf(branches[b].marks)
Top(b)      == Value(LastMark(b))

\* The tip Subversion has before the revision being exported.
Prior(b) == TipsAt(tips, rev - 1)[b]

\* b has an open transaction; a command of b is queued.
Opened(b)     == \E t \in transactions : t.branch = b
Waiting(q, b) == \E i \in 1 .. Len(q) : q[i].branch = b
Pending(b)    == Waiting(deletedBranches, b) \/ Waiting(resetBranches, b) \/ Waiting(queue, b)

\* Git has h for b; what a name resolves to.
Holds(b, h) == IF processHasStarted THEN HoldsRunning(fi, disk, b, h)
               ELSE HoldsStored(disk, b, h)
Names(b)    == IF processHasStarted THEN Git!RefTip(fi, disk, b) ELSE disk.ref[b]

\* What the revision being exported asks for, and how much of it is done.
Asked == svn[rev]
Done  == Len(Asked) - Len(todo)

\* The operations on b among the first k, and where those that copy copy from.
Copies(b, k)  == {i \in 1 .. k : Asked[i].branch = b /\ Asked[i].kind = "copy"}
Deletes(b, k) == {i \in 1 .. k : Asked[i].branch = b /\ Asked[i].kind = "delete"}
Changes(b, k) == {i \in 1 .. k : Asked[i].branch = b /\ Asked[i].kind \in {"change", "remove"}}
Source(i)     == tips[Asked[i].at][Asked[i].from]

\* Where b starts from after the first k operations, what is merged into it, what its commit
\* is, and where it ends up: TipAfter, operation by operation.
BaseOf(b, k) ==
    IF Copies(b, k) # {} THEN Source(CHOOSE i \in Copies(b, k) : \A j \in Copies(b, k) : j <= i)
    ELSE IF Deletes(b, k) # {} THEN <<>>
    ELSE Prior(b)
MergedInto(b, k) == {Source(i) : i \in {j \in Changes(b, k) : Asked[j].from # Null}}
FilesOf(b, k)    == {<<b, rev>> : i \in {j \in Changes(b, k) : Asked[j].kind = "change"}}
CommitOf(b, k)   ==
    [branch |-> b, rev |-> rev, files |-> FilesOf(b, k),
     merges |-> {HeadOf(h) : h \in MergedInto(b, k) \ {BaseOf(b, k)}}]
Called(b, k) == IF Changes(b, k) = {} THEN BaseOf(b, k)
                ELSE Append(BaseOf(b, k), CommitOf(b, k))

\* No operation fails, and only a tag without a branch kills the process.
Calm ==
    /\ phase \in {"idle", "prepare", "commit", "down", "dead"}
    /\ fi.dead => phase = "dead"
    /\ phase = "dead" => \E b \in annotatedTags : Prior(b) = <<>>

\* The operations of the revision are what Subversion can ask for.
AskedOK ==
    /\ Asked # <<>>
    /\ \A i, j \in 1 .. Len(Asked) :
          i # j /\ Asked[i].branch = Asked[j].branch => Asked[i].kind # "delete"
    /\ \A i \in 1 .. Len(Asked) :
          /\ Asked[i].kind = "copy" \/ (Asked[i].kind # "delete" /\ Asked[i].from # Null) =>
                /\ Asked[i].from \in Branch /\ Asked[i].at \in 1 .. rev - 1
                /\ Source(i) # <<>>
          /\ Asked[i].kind = "delete" => Prior(Asked[i].branch) # <<>>

\* What is left of them is their end.
TodoOK ==
    /\ Len(todo) <= Len(Asked)
    /\ \A i \in 1 .. Len(todo) : todo[i] = Asked[Done + i]
    /\ phase = "commit" => todo = <<>>

\* The revisions seen are the ones begun, and their tips are what their operations make.
Seen ==
    /\ tips \in Seq([Branch -> History])
    /\ Len(tips) = Len(svn)
    /\ Len(svn) = IF Exporting THEN rev ELSE rev - 1
    /\ Exporting => /\ AskedOK /\ TodoOK
                    /\ \A b \in Branch : tips[rev][b] = Called(b, Len(Asked))

\* The marks in use are exactly those the log names, and the last is the highest.
Marks ==
    /\ \A m \in CommitMark : MarkTable[m] # Null => \E j \in 1 .. Len(log) : m <= log[j].mark
    /\ \A j \in 1 .. Len(log) : \A m \in 1 .. log[j].mark : MarkTable[m] # Null
    /\ \A j \in 1 .. LinesRead : log[j].mark <= last_commit_mark
    /\ last_commit_mark = 0 \/ \E j \in 1 .. LinesRead : log[j].mark = last_commit_mark

\* Different marks stand for different commits, none of them one still to be written.
Heads ==
    /\ \A m, n \in CommitMark :
          m # n /\ MarkTable[m] # Null /\ MarkTable[n] # Null => MarkTable[m] # MarkTable[n]
    /\ \A m \in CommitMark : MarkTable[m] # Null =>
          /\ HeadOf(MarkTable[m])[2] <= rev
          /\ phase # "commit" => HeadOf(MarkTable[m])[2] < rev
          /\ \A t \in transactions : HeadOf(MarkTable[m]) # <<t.branch, rev>>

\* A branch with commits was created, nothing in it is later than the revision of the
\* moment, and one that is reset in it has a command queued.
Dates ==
    \A b \in Branch :
        LET br == branches[b] IN
        /\ br.commits # <<>> => br.created # 0
        /\ \A i \in 1 .. Len(br.marks) : br.commits[i] <= rev
        /\ LastMark(b) # 0 => /\ br.created <= rev
                              /\ phase \in {"idle", "down"} => br.created < rev
        /\ phase = "prepare" => IF Pending(b) THEN br.created = rev
                                ELSE LastMark(b) # 0 => br.created < rev

\* Every branch answers for every past revision with the tip it had.
Points ==
    Active => \A b \in Branch, r \in 1 .. rev - 1 :
                  Value(EntryMark(branches[b], r)) = tips[r][b]

\* So does the log, and the two agree: a run that reads the log knows what the last one knew.
Logged ==
    /\ \A b \in Branch, r \in 1 .. rev - 1 : Value(LineMark(log, Len(log), b, r)) = tips[r][b]
    /\ Active => \A b \in Branch : ~ Pending(b) =>
          \A r \in Nat : r >= rev => LineMark(log, Len(log), b, r) = LastMark(b)
    /\ phase = "down" => \A b \in Branch, r \in Nat :
          EntryMark(branches[b], r) = LineMark(log, pos, b, r)

\* The last line of the log tells the last revision exported: each of them wrote one.
Ended ==
    /\ phase \in {"idle", "down"} =>
          IF log = <<>> THEN rev = 1 ELSE log[Len(log)].rev = rev - 1
    /\ phase = "prepare" =>
          todo # <<>> \/ transactions # {} \/ deletedBranches # <<>> \/ resetBranches # <<>>
    /\ phase = "commit" =>
          queue # <<>> \/ transactions # {} \/ (log # <<>> /\ log[Len(log)].rev = rev)

\* How far the revision is: each branch starts where the operations done put it, and each
\* open transaction has the files and merges they gave it.
Progress ==
    /\ phase = "idle" => transactions = {} /\ \A b \in Branch : Top(b) = Prior(b)
    /\ phase = "prepare" => \A b \in Branch :
          Top(b) = BaseOf(b, Done) /\ (Opened(b) = (Changes(b, Done) # {}))
    /\ phase = "commit" => \A b \in Branch :
          IF Opened(b) THEN Top(b) = BaseOf(b, Done) /\ Changes(b, Done) # {}
          ELSE Top(b) = tips[rev][b]
    /\ Exporting => \A t \in transactions :
          /\ {BlobTable[m] : m \in t.files} = FilesOf(t.branch, Done)
          /\ \A m \in t.files : m > next_file_mark
          /\ t.merges \subseteq 1 .. last_commit_mark
          /\ {MarkTable[m] : m \in t.merges} = MergedInto(t.branch, Done)

\* Git has the history of each branch nothing is queued for.
Held ==
    /\ Active => \A b \in Branch : ~ Pending(b) => Holds(b, Top(b))
    /\ phase = "down" => \A b \in Branch : Holds(b, Prior(b))

\* The commands queued: each sets its branch to a mark or to nothing, the last one of a
\* branch to its last mark, and a backup finds the commits it is to save.
CommandsOK(q) ==
    \A i \in 1 .. Len(q) :
        LET b == q[i].branch IN
        /\ (q[i].to = Null) = (q[i].mark = 0)
        /\ (\A j \in i + 1 .. Len(q) : q[j].branch # b) => q[i].mark = LastMark(b)
        /\ q[i].backup => Names(b) \notin {Null, <<>>}
        /\ q[i].to # Null => Copies(b, Done) # {}
        /\ q[i].to = Null => /\ q[i].backup /\ Names(b) = Prior(b)
                             /\ Deletes(b, Done) # {}
                             /\ \A j \in 1 .. Len(q) : q[j].branch = b => j = i

\* Deletions and resets are queued apart, and a deletion of the revision is among them.
Queued ==
    /\ CommandsOK(deletedBranches) /\ CommandsOK(resetBranches) /\ CommandsOK(queue)
    /\ \A i \in 1 .. Len(deletedBranches) : deletedBranches[i].to = Null
    /\ \A i \in 1 .. Len(resetBranches) : resetBranches[i].to # Null
    /\ phase = "prepare" => \A b \in Branch :
          Deletes(b, Done) # {} => Waiting(deletedBranches, b)

\* Every tag branch with commits is remembered, and tagged once the run has ended.
Tagged ==
    /\ Active => \A b \in TagBranch : Top(b) # <<>> \/ Opened(b) => b \in annotatedTags
    /\ phase = "down" => \A b \in TagBranch :
          Prior(b) # <<>> => b \in tagsFile /\ disk.tag[b] = Prior(b)
    /\ processHasStarted => \A b \in Branch : fi.tag[b] = Null

\* Revision r deleted b.
Removed(b, r) == tips[r][b] = <<>> /\ TipsAt(tips, r - 1)[b] # <<>>
Saves == fi.backup \cup disk.backup

\* Every branch deleted so far has its backup, made of what it had.
Kept ==
    /\ \A k \in Saves : /\ k.rev \in 1 .. Len(tips)
                        /\ Removed(k.branch, k.rev) =>
                              k.tip = TipsAt(tips, k.rev - 1)[k.branch]
    /\ \A b \in Branch, r \in 1 .. Len(tips) :
          Removed(b, r) /\ (r < rev \/ (phase = "commit" /\ ~ Pending(b))) =>
              \E k \in Saves : k.branch = b /\ k.rev = r

\* The inductive invariant of an undisturbed export; with the types and marks of the
\* other modules it is ExportState below.
ExportInv ==
    /\ Calm
    /\ phase # "dead" => /\ Seen /\ Marks /\ Heads /\ Dates /\ Points /\ Logged /\ Ended
                         /\ Progress /\ Held /\ Queued /\ Tagged /\ Kept

-----------------------------------------------------------------------------
(* What follows from the invariant in every state *)

\* The marks of the moment and the histories they stand for.
LEMMA MarkFacts ==
    ASSUME IInv, UsedMarks, StoreOK, Marks
    PROVE  /\ branches \in [Branch -> Entry] /\ last_commit_mark \in Nat
           /\ last_commit_mark \in Mark /\ rev \in Nat /\ rev # 0
           /\ fi \in Process /\ disk \in Disk /\ processHasStarted \in BOOLEAN
           /\ MarkTable \in [CommitMark -> Exported]
           /\ \A m \in 1 .. last_commit_mark : m \in CommitMark /\ MarkTable[m] # Null
           /\ \A m \in CommitMark : MarkTable[m] # Null =>
                 MarkTable[m] \in History /\ MarkTable[m] # <<>>
           /\ Len(log) \in Nat /\ \A j \in 1 .. Len(log) : log[j] \in Line
           /\ LinesRead \in 0 .. Len(log)
<1>1. /\ branches \in [Branch -> Entry] /\ last_commit_mark \in Nat /\ rev \in Nat
      /\ last_commit_mark \in Mark
      /\ fi \in Process /\ disk \in Disk /\ processHasStarted \in BOOLEAN /\ rev # 0
  BY Bounds DEF IInv, MemoryOK, DriverOK, StoreOK, Mark
<1>2. MarkTable \in [CommitMark -> Exported]
  BY <1>1 DEF MarkTable, Process, Disk
<1>3. /\ Len(log) \in Nat /\ \A j \in 1 .. Len(log) : log[j] \in Line
      /\ LinesRead \in 0 .. Len(log)
  BY LogFacts DEF LinesRead
<1>4. ASSUME NEW m \in 1 .. last_commit_mark
      PROVE  m \in CommitMark /\ MarkTable[m] # Null
  <2>1. m \in CommitMark
    BY <1>1, Bounds DEF Mark, CommitMark
  <2>2. PICK j \in 1 .. LinesRead : log[j].mark = last_commit_mark
    BY <1>1 DEF Marks
  <2>3. j \in 1 .. Len(log)
    BY <1>3
  <2>4. QED BY <2>1, <2>2, <2>3 DEF Marks
<1>5. \A m \in CommitMark : MarkTable[m] # Null =>
          MarkTable[m] \in History /\ MarkTable[m] # <<>>
  BY <1>2 DEF Exported
<1>6. QED BY <1>1, <1>2, <1>3, <1>4, <1>5

\* While a run exports, the marks in use are those the log names.
LEMMA MarksInUse ==
    ASSUME IInv, UsedMarks, StoreOK, Marks, LinesRead = Len(log)
    PROVE  \A m \in CommitMark : MarkTable[m] # Null => m <= last_commit_mark
<1> SUFFICES ASSUME NEW m \in CommitMark, MarkTable[m] # Null PROVE m <= last_commit_mark
  OBVIOUS
<1>1. PICK j \in 1 .. Len(log) : m <= log[j].mark
  BY DEF Marks
<1>2. log[j].mark <= last_commit_mark /\ log[j].mark \in Mark /\ last_commit_mark \in Nat
  BY MarkFacts DEF Marks, Line
<1>3. QED BY <1>1, <1>2, Bounds DEF CommitMark, Mark

\* The last mark of a branch.
LEMMA TopFacts ==
    ASSUME IInv, UsedMarks, StoreOK, Marks, NEW b \in Branch
    PROVE  /\ branches[b] \in Entry /\ LastMark(b) \in Mark
           /\ LastMark(b) # 0 => /\ LastMark(b) \in 1 .. last_commit_mark
                                  /\ LastMark(b) \in CommitMark
                                  /\ MarkTable[LastMark(b)] # Null
                                  /\ Top(b) = MarkTable[LastMark(b)] /\ Top(b) # <<>>
           /\ LastMark(b) = 0 => Top(b) = <<>>
           /\ Top(b) \in History
<1> DEFINE marks == branches[b].marks
<1>1. branches[b] \in Entry /\ marks \in Seq(Mark) /\ last_commit_mark \in Nat
  BY MarkFacts DEF Entry
<1>2. LastMark(b) \in Mark /\ LastMark(b) <= last_commit_mark
  <2>1. CASE marks = <<>>
    BY <1>1, <2>1, Bounds DEF LastMark, LastOf
  <2>2. CASE marks # <<>>
    <3>1. Len(marks) \in 1 .. Len(marks)
      BY <1>1, <2>2
    <3>2. LastMark(b) = marks[Len(marks)]
      BY <2>2 DEF LastMark, LastOf
    <3>3. QED BY <1>1, <3>1, <3>2 DEF UsedMarks
  <2>3. QED BY <2>1, <2>2
<1>3. LastMark(b) # 0 => LastMark(b) \in 1 .. last_commit_mark
  BY <1>1, <1>2, Bounds DEF Mark
<1>4. LastMark(b) # 0 => /\ LastMark(b) \in CommitMark /\ MarkTable[LastMark(b)] # Null
                         /\ MarkTable[LastMark(b)] \in History
                         /\ MarkTable[LastMark(b)] # <<>>
  BY <1>3, MarkFacts
<1>5. <<>> \in History
  BY DEF History
<1>6. QED BY <1>1, <1>2, <1>3, <1>4, <1>5 DEF Top, Value

\* The mark of a branch at a revision.
LEMMA PointFacts ==
    ASSUME IInv, UsedMarks, StoreOK, Marks, NEW b \in Branch, NEW at
    PROVE  /\ EntryMark(branches[b], at) \in 0 .. last_commit_mark
           /\ EntryMark(branches[b], at) # 0 =>
                 /\ EntryMark(branches[b], at) \in CommitMark
                 /\ MarkTable[EntryMark(branches[b], at)] # Null
                 /\ MarkTable[EntryMark(branches[b], at)] # <<>>
           /\ Value(EntryMark(branches[b], at)) \in History
<1> DEFINE br  == branches[b]
           own == {i \in 1 .. Len(br.marks) : br.commits[i] <= at}
           m   == EntryMark(br, at)
<1>1. br \in Entry /\ br.marks \in Seq(Mark) /\ last_commit_mark \in Nat /\ Len(br.marks) \in Nat
  BY MarkFacts DEF Entry
<1>2. m \in Mark /\ m <= last_commit_mark
  <2>1. CASE own = {}
    BY <1>1, <2>1, Bounds DEF EntryMark
  <2>2. CASE own # {}
    <3> DEFINE last == CHOOSE i \in own : \A j \in own : j <= i
    <3>1. m = br.marks[last]
      BY <2>2 DEF EntryMark
    <3>2. own \subseteq 1 .. Len(br.marks)
      OBVIOUS
    <3> HIDE DEF own
    <3>3. \E i \in own : \A j \in own : j <= i
      BY <1>1, <2>2, <3>2, Greatest
    <3>4. last \in 1 .. Len(br.marks)
      BY <3>2, <3>3
    <3> HIDE DEF last
    <3>5. QED BY <1>1, <3>1, <3>4 DEF UsedMarks
  <2>3. QED BY <2>1, <2>2
<1> HIDE DEF m
<1>3. m \in 0 .. last_commit_mark
  BY <1>1, <1>2, Bounds DEF Mark
<1>4. m # 0 => /\ m \in CommitMark /\ MarkTable[m] # Null
               /\ MarkTable[m] \in History /\ MarkTable[m] # <<>>
  <2>1. m # 0 => m \in 1 .. last_commit_mark
    BY <1>1, <1>3
  <2>2. QED BY <2>1, MarkFacts
<1>5. <<>> \in History
  BY DEF History
<1>6. QED BY <1>3, <1>4, <1>5 DEF m, Value

\* The process the next command is written to.
LEMMA RunningHolds ==
    ASSUME IInv, UsedMarks, StoreOK, Marks, Calm, Tagged, phase # "dead"
    PROVE  LET f == Running(branches)
           IN  /\ f \in Process /\ ~ f.dead /\ f.mark = MarkTable /\ f.blob = BlobTable
               /\ f.backup \cup disk.backup = Saves
               /\ \A b \in Branch :
                     /\ f.tag[b] = Null
                     /\ Holds(b, Top(b)) => HoldsRunning(f, disk, b, Top(b))
                     /\ Names(b) \notin {Null, <<>>} =>
                           Git!RefTip(f, disk, b) \notin {Null, <<>>}
                     /\ LastMark(b) = 0 => Git!RefTip(f, disk, b) = Names(b)
<1>1. CASE processHasStarted
  <2>1. ~ fi.dead
    BY DEF Calm
  <2>2. Running(branches) = fi
    BY <1>1 DEF Running
  <2>3. QED
    BY <1>1, <2>1, <2>2, MarkFacts DEF MarkTable, BlobTable, Saves, Tagged, Holds, Names
<1>2. CASE ~ processHasStarted
  <2> DEFINE f == Reloaded(Git!Started(disk), branches)
  <2>1. \A b \in Branch : LastOf(branches[b].marks) # 0 =>
            /\ LastMark(b) # 0 /\ LastMark(b) = LastOf(branches[b].marks)
            /\ disk.mark[LastOf(branches[b].marks)] # Null
    BY <1>2, TopFacts DEF LastMark, MarkTable
  <2>2. /\ f \in Process /\ ~ f.dead /\ f.mark = disk.mark /\ f.blob = disk.blob
        /\ f.del = {} /\ f.backup = {} /\ \A b \in Branch : f.tag[b] = Null
        /\ \A b \in Branch :
              f.tab[b] = IF LastOf(branches[b].marks) # 0 THEN disk.mark[LastOf(branches[b].marks)]
                         ELSE Null
    BY <2>1, MarkFacts, ReloadedHolds
  <2>3. Running(branches) = f
    BY <1>2 DEF Running
  <2> HIDE DEF f
  <2>4. MarkTable = disk.mark /\ BlobTable = disk.blob
    BY <1>2 DEF MarkTable, BlobTable
  <2>5. fi.backup = {}
    BY <1>2, EmptyDiskType, StartedFacts DEF StoreOK
  <2>6. ASSUME NEW b \in Branch
        PROVE  /\ Holds(b, Top(b)) => HoldsRunning(f, disk, b, Top(b))
               /\ Names(b) \notin {Null, <<>>} =>
                     Git!RefTip(f, disk, b) \notin {Null, <<>>}
               /\ LastMark(b) = 0 => Git!RefTip(f, disk, b) = Names(b)
    <3>1. Names(b) = disk.ref[b] /\ (Holds(b, Top(b)) => HoldsStored(disk, b, Top(b)))
      BY <1>2 DEF Names, Holds
    <3>2. CASE LastMark(b) # 0
      <4>1. f.tab[b] = Top(b) /\ Top(b) # <<>> /\ Top(b) # Null
        BY <2>2, <2>4, <3>2, TopFacts DEF LastMark
      <4>2. QED BY <3>2, <4>1 DEF HoldsRunning, Git!RefTip
    <3>3. CASE LastMark(b) = 0
      <4>1. f.tab[b] = Null /\ Top(b) = <<>>
        BY <2>2, <3>3, TopFacts DEF LastMark
      <4>2. QED BY <3>1, <4>1 DEF HoldsRunning, HoldsStored, Git!RefTip
    <3>4. QED BY <3>2, <3>3
  <2>7. QED BY <2>2, <2>3, <2>4, <2>5, <2>6 DEF Saves
<1>3. QED BY <1>1, <1>2, MarkFacts

\* Every step keeps the types of the process and the disk.
LEMMA StoreTypes ==
    ASSUME NullIsNoHistory, IInv, IInv', StoreOK, [Next]_vars
    PROVE  StoreOK'
<1>1. CASE /\ UNCHANGED <<fi, disk, processHasStarted, transactions, queue>>
           /\ phase' # "commit" => queue = <<>>
           /\ phase' # "down" \/ phase = "down"
  BY <1>1 DEF StoreOK
<1>2. CASE \/ RestoreLine \/ StartExport \/ BeginRevision \/ CreateBranch \/ DeleteBranch
           \/ EndRevision \/ UNCHANGED vars
  <2>1. CASE RestoreLine \/ StartExport
    BY <1>1, <2>1 DEF RestoreLine, StartExport, driver, stored, StoreOK
  <2>2. CASE BeginRevision \/ EndRevision
    BY <1>1, <2>2 DEF BeginRevision, EndRevision, memory, stored, StoreOK
  <2>3. CASE CreateBranch
    <3>1. phase = "prepare" /\ UNCHANGED <<fi, disk, processHasStarted, transactions, queue>>
          /\ phase' \in {"prepare", "failed"}
      BY <2>3 DEF CreateBranch, NextIs, stored
    <3>2. QED BY <1>1, <3>1 DEF StoreOK
  <2>4. CASE DeleteBranch
    BY <1>1, <2>4 DEF DeleteBranch, NextIs, stored, StoreOK
  <2>5. CASE UNCHANGED vars
    BY <1>1, <2>5 DEF vars, memory, driver, stored, StoreOK
  <2>6. QED BY <1>2, <2>1, <2>2, <2>3, <2>4, <2>5
<1>3. CASE ChangeFile
  <2> DEFINE op    == Head(todo)
             b     == op.branch
             txn   == TransactionOf(b)
             isNew == txn \notin transactions
             flush == isNew /\ (commitCount + 1) % CommitInterval = 0
             noted == op.from # Null
             mark  == IF noted THEN MarkFrom(branches, op.from, op.at) ELSE 0
             blob  == op.kind = "change"
             file  == next_file_mark
             new   == [txn EXCEPT !.merges = IF mark > 0 THEN @ \cup {mark} ELSE @,
                                  !.files  = IF blob THEN @ \cup {file} ELSE @]
             f     == Running(branches)
  <2>1. /\ phase = "prepare" /\ phase' = "prepare"
        /\ transactions' = (transactions \ {txn}) \cup {new}
        /\ processHasStarted' = (processHasStarted \/ flush \/ blob)
        /\ disk' = IF flush /\ ~ f.dead THEN Git!Dump(f, disk) ELSE disk
        /\ blob => file \in FileMark /\ fi' = Git!Blob(f, file, <<b, rev>>)
        /\ ~ blob => fi' = IF flush THEN f ELSE fi
        /\ queue' = queue
        /\ processHasStarted \in BOOLEAN /\ processHasStarted' \in BOOLEAN
    BY <1>3 DEF ChangeFile, NextIs, IInv, MemoryOK
  <2>2. b \in Branch /\ op.from \in Branch \cup {Null} /\ rev \in Nat
    <3>1. op \in Operation
      BY <1>3, NextOperation DEF ChangeFile, NextIs
    <3>2. op.branch \in Branch /\ op.from \in Branch \cup {Null}
      BY <3>1 DEF Operation, Op
    <3>3. rev \in 1 .. MaxRev + 1 /\ MaxRev \in Nat
      BY Bounds DEF IInv, DriverOK
    <3>4. QED BY <3>2, <3>3
  <2>3. branches \in [Branch -> Entry]
    BY DEF IInv, MemoryOK
  <2>4. f \in Process
    BY <2>3, RunningMarks
  <2>5. \A t \in transactions' : t.merges \subseteq CommitMark /\ t.files \subseteq FileMark
    <3>1. mark \in Mark \cup {-1, 0}
      BY <2>2, <2>3, MarkFromType
    <3>2. mark > 0 => mark \in CommitMark
      BY <3>1, Bounds DEF Mark, CommitMark
    <3>3. txn \in transactions \/ txn = [branch |-> b, merges |-> {}, files |-> {}]
      BY DEF TransactionOf
    <3>4. \A t \in transactions :
              t \in Transaction /\ t.merges \subseteq CommitMark /\ t.files \subseteq FileMark
      BY DEF StoreOK, IInv, TransactionsOK
    <3>5. /\ txn \in Transaction /\ txn.merges \subseteq CommitMark
          /\ txn.files \subseteq FileMark
      BY <2>2, <3>3, <3>4 DEF Transaction
    <3> HIDE DEF txn, mark, blob
    <3>6. new.merges \subseteq CommitMark /\ new.files \subseteq FileMark
      BY <2>1, <3>2, <3>5 DEF Transaction
    <3>7. QED BY <2>1, <3>4, <3>6
  <2> HIDE DEF f, flush, blob, new, txn
  <2>6. <<b, rev>> \in Content
    BY <2>2 DEF Content
  <2>7. fi' \in Process
    BY <2>1, <2>4, <2>6, BlobFacts DEF StoreOK
  <2>8. disk' \in Disk
    BY <2>1, <2>4, DumpFacts DEF StoreOK
  <2>9. ~ processHasStarted' => fi' = fi /\ ~ processHasStarted
    BY <2>1
  <2>10. QED BY <2>1, <2>5, <2>7, <2>8, <2>9 DEF StoreOK
<1>4. CASE Flush
  <2> DEFINE f == Running(branches)
  <2>1. /\ phase = "prepare" /\ phase' = "commit"
        /\ IF queue' = <<>> THEN fi' = fi /\ processHasStarted' = processHasStarted
           ELSE fi' = f /\ processHasStarted' = TRUE
        /\ UNCHANGED <<disk, transactions>>
    BY <1>4 DEF Flush, stored
  <2>2. f \in Process
    BY RunningMarks DEF IInv, MemoryOK
  <2> HIDE DEF f
  <2>3. CASE queue' = <<>>
    BY <2>1, <2>3 DEF StoreOK
  <2>4. CASE queue' # <<>>
    BY <2>1, <2>2, <2>4 DEF StoreOK
  <2>5. QED BY <2>3, <2>4
<1>5. CASE WriteReset
  <2> DEFINE cmd  == Head(queue)
             b    == cmd.branch
             f    == IF cmd.backup THEN Git!Backup(fi, disk, b, cmd.rev) ELSE fi
  <2>1. /\ phase = "commit" /\ phase' = "commit" /\ queue # <<>> /\ queue' = Tail(queue)
        /\ fi' = CASE f.dead -> f
                   [] ~ f.dead /\ cmd.to = Null -> Git!ResetToNull(f, b)
                   [] ~ f.dead /\ cmd.to # Null /\ cmd.mark # 0 ->
                          Git!ResetToMark(f, b, cmd.mark)
                   [] OTHER -> Git!ResetToRef(f, disk, b, cmd.to)
        /\ UNCHANGED <<disk, transactions, processHasStarted>>
    BY <1>5 DEF WriteReset, memory
  <2>2. cmd \in Command(rev) /\ rev \in Nat
    <3>1. queue \in Seq(Command(rev)) /\ rev \in Nat
      BY Bounds DEF IInv, QueuesOK, DriverOK
    <3>2. QED BY <2>1, <3>1
  <2>3. /\ b \in Branch /\ cmd.rev \in Nat /\ cmd.to \in Branch \cup {Null}
        /\ cmd.mark # 0 => cmd.mark \in CommitMark
    BY <2>2, Bounds DEF Command, Mark, CommitMark
  <2> HIDE DEF cmd
  <2>4. f \in Process
    BY <2>3, ResetFacts DEF StoreOK
  <2> HIDE DEF f
  <2>5. fi' \in Process
    <3>1. CASE f.dead
      BY <2>1, <2>4, <3>1
    <3>2. CASE ~ f.dead /\ cmd.to = Null
      <4>1. fi' = Git!ResetToNull(f, b)
        BY <2>1, <3>2
      <4>2. QED BY <2>3, <2>4, <4>1, ResetFacts DEF StoreOK
    <3>3. CASE ~ f.dead /\ cmd.to # Null /\ cmd.mark # 0
      <4>1. fi' = Git!ResetToMark(f, b, cmd.mark)
        BY <2>1, <3>3
      <4>2. QED BY <2>3, <2>4, <3>3, <4>1, ResetFacts DEF StoreOK
    <3>4. CASE ~ f.dead /\ cmd.to # Null /\ ~ (cmd.mark # 0)
      <4>1. fi' = Git!ResetToRef(f, disk, b, cmd.to)
        BY <2>1, <3>4
      <4>2. QED BY <2>3, <2>4, <3>4, <4>1, ResetFacts DEF StoreOK
    <3>5. QED BY <3>1, <3>2, <3>3, <3>4
  <2>6. QED BY <2>1, <2>5 DEF StoreOK
<1>6. ASSUME NEW txn \in transactions, CommitTransaction(txn)
      PROVE  StoreOK'
  <2> DEFINE b       == txn.branch
             mark    == last_commit_mark + 1
             f       == Running(branches)
             merges  == txn.merges \ {IF HasTip(branches[b]) THEN LastOf(branches[b].marks) ELSE 0}
             lost    == {m \in merges : f.mark[m] = Null}
             commit  == [branch |-> b, rev |-> rev,
                         files  |-> {f.blob[m] : m \in txn.files},
                         merges |-> {HeadOf(f.mark[m]) : m \in merges \ lost}]
             g == IF f.dead \/ lost # {} THEN Git!Die(f) ELSE Git!Commit(f, b, mark, commit)
  <2>1. /\ phase = "commit" /\ queue = <<>> /\ UNCHANGED <<queue, disk>>
        /\ b \in Branch /\ rev \in Nat /\ branches \in [Branch -> Entry]
        /\ txn.merges \subseteq CommitMark /\ txn.files \subseteq FileMark
    BY <1>6, Bounds DEF CommitTransaction, IInv, TransactionsOK, Transaction, StoreOK, DriverOK,
                        MemoryOK
  <2>2. CASE InConflict(b)
    <3>1. UNCHANGED <<fi, transactions, processHasStarted>> /\ phase' = "failed"
      BY <1>6, <2>2 DEF CommitTransaction
    <3>2. QED BY <2>1, <3>1 DEF StoreOK
  <2>3. CASE ~ InConflict(b)
    <3>1. /\ phase' = "commit" /\ mark \in CommitMark /\ fi' = g /\ processHasStarted' = TRUE
          /\ transactions' = transactions \ {txn}
      BY <1>6, <2>1, <2>3 DEF CommitTransaction
    <3>2. f \in Process
      BY <2>1, RunningMarks
    <3> HIDE DEF f
    <3>3. commit \in Commitment
      <4>1. \A m \in txn.files : f.blob[m] \in Content
        BY <2>1, <3>2 DEF Process
      <4>2. \A m \in merges \ lost : HeadOf(f.mark[m]) \in Branch \X Nat
        <5> SUFFICES ASSUME NEW m \in merges \ lost PROVE HeadOf(f.mark[m]) \in Branch \X Nat
          OBVIOUS
        <5>1. f.mark[m] \in Exported /\ f.mark[m] # Null
          BY <2>1, <3>2 DEF Process
        <5>2. f.mark[m] \in History /\ f.mark[m] # <<>>
          BY <5>1 DEF Exported
        <5>3. QED BY <5>2, HeadOfType
      <4> HIDE DEF merges, lost, b
      <4>3. QED BY <2>1, <4>1, <4>2 DEF Commitment
    <3> HIDE DEF commit, mark
    <3>4. g \in Process
      BY <2>1, <3>1, <3>2, <3>3, DieFacts, CommitFacts
    <3> HIDE DEF g
    <3>5. QED BY <2>1, <3>1, <3>4 DEF StoreOK
  <2>4. QED BY <2>2, <2>3
<1>7. CASE Evict
  <2>1. /\ phase # "down" /\ processHasStarted' = FALSE /\ queue = <<>> /\ disk' = Closed(fi, TRUE)
        /\ fi' = Git!Started(Git!EmptyDisk)
        /\ UNCHANGED <<phase, transactions, queue>>
    BY <1>7, RepositoryAssumption DEF Evict, memory, driver
  <2>2. fi' \in Process /\ disk' \in Disk
    BY <2>1, NothingRunning, DumpFacts DEF Closed, StoreOK
  <2>3. QED BY <2>1, <2>2 DEF StoreOK
<1>8. ASSUME Gone, disk' \in Disk PROVE StoreOK'
  BY <1>8, NothingRunning DEF Gone, StoreOK
<1>9. CASE \E kind \in CrashKinds : Crash(kind)
  <2>1. Gone /\ (disk' = disk \/ disk' = Closed(fi, processHasStarted))
    BY <1>9 DEF Crash
  <2>2. disk' \in Disk
    BY <2>1, DumpFacts DEF Closed, StoreOK
  <2>3. QED BY <1>8, <2>1, <2>2
<1>10. CASE Finish
  <2> DEFINE f == IF annotatedTags = {} THEN fi
                  ELSE Git!Tag(Running(branches), disk, annotatedTags)
             started == processHasStarted \/ annotatedTags # {}
  <2>1. /\ phase \in {"idle", "failed"}
        /\ IF f.dead
           THEN /\ fi' = f /\ phase' = "dead" /\ processHasStarted' = started
                /\ UNCHANGED <<memory, rev, todo, queue, disk>>
           ELSE /\ disk' = Closed(f, started)
                /\ \/ Gone
                   \/ /\ phase' = "asserted" /\ processHasStarted' = FALSE
                      /\ fi' = Git!Started(Git!EmptyDisk)
                      /\ UNCHANGED <<memory, rev, todo, queue>>
    BY <1>10 DEF Finish
  <2>2. f \in Process
    <3>1. Running(branches) \in Process
      BY RunningMarks DEF IInv, MemoryOK
    <3>2. Git!Tag(Running(branches), disk, annotatedTags) \in Process
      BY <3>1, TagFacts DEF StoreOK
    <3>3. QED BY <3>2 DEF StoreOK
  <2>3. queue = <<>>
    BY <2>1 DEF StoreOK
  <2>4. CASE f.dead
    <3>1. ~ processHasStarted => started
      <4>1. f = fi => processHasStarted
        BY <2>4, NothingRunning DEF StoreOK
      <4>2. QED BY <4>1
    <3>2. processHasStarted' = TRUE
      BY <2>1, <2>4, <3>1 DEF IInv, MemoryOK
    <3> HIDE DEF f, started
    <3>3. QED BY <2>1, <2>2, <2>3, <2>4, <3>2 DEF StoreOK, memory
  <2>5. CASE ~ f.dead
    <3>1. disk' \in Disk
      BY <2>1, <2>2, <2>5, DumpFacts DEF Closed, StoreOK
    <3> HIDE DEF f, started
    <3>2. CASE Gone
      BY <1>8, <3>1, <3>2
    <3>3. CASE /\ phase' = "asserted" /\ processHasStarted' = FALSE
               /\ fi' = Git!Started(Git!EmptyDisk)
               /\ UNCHANGED <<memory, rev, todo, queue>>
      BY <2>3, <3>1, <3>3, NothingRunning DEF StoreOK, memory
    <3>4. QED BY <2>1, <2>5, <3>2, <3>3
  <2>6. QED BY <2>4, <2>5
<1>11. QED
  BY <1>2, <1>3, <1>4, <1>5, <1>6, <1>7, <1>9, <1>10 DEF Next

-----------------------------------------------------------------------------
(* The first steps *)

\* What the inductive steps start from.
Ready == IInv /\ UsedMarks /\ StoreOK /\ ExportInv /\ phase # "dead"

\* The invariant, taken apart.
LEMMA ReadyFacts ==
    ASSUME Ready
    PROVE  /\ IInv /\ UsedMarks /\ StoreOK
           /\ Calm /\ Seen /\ Marks /\ Heads /\ Dates /\ Points /\ Logged /\ Ended
           /\ Progress /\ Held /\ Queued /\ Tagged /\ Kept
BY DEF Ready, ExportInv

-----------------------------------------------------------------------------
(* What does not change when the variables it is read from do not *)

\* The operations of the revision.
LEMMA AskedSame ==
    ASSUME UNCHANGED <<svn, tips, rev>>
    PROVE  /\ Asked' = Asked
           /\ \A b : Prior(b)' = Prior(b)
           /\ \A b, k : /\ Copies(b, k)' = Copies(b, k) /\ Deletes(b, k)' = Deletes(b, k)
                        /\ Changes(b, k)' = Changes(b, k)
                        /\ BaseOf(b, k)' = BaseOf(b, k)
                        /\ MergedInto(b, k)' = MergedInto(b, k)
                        /\ FilesOf(b, k)' = FilesOf(b, k)
                        /\ Called(b, k)' = Called(b, k)
           /\ \A b, r : Removed(b, r)' = Removed(b, r)
<1>1. svn' = svn /\ tips' = tips /\ rev' = rev
  OBVIOUS
<1>2. Asked' = Asked /\ (\A i : Source(i)' = Source(i)) /\ \A b : Prior(b)' = Prior(b)
  BY <1>1 DEF Asked, Source, Prior
<1>3. \A b, k : /\ Copies(b, k)' = Copies(b, k) /\ Deletes(b, k)' = Deletes(b, k)
                /\ Changes(b, k)' = Changes(b, k)
  BY <1>2 DEF Copies, Deletes, Changes
<1>4. ASSUME NEW b, NEW k
      PROVE  /\ BaseOf(b, k)' = BaseOf(b, k)
             /\ MergedInto(b, k)' = MergedInto(b, k)
             /\ FilesOf(b, k)' = FilesOf(b, k)
  <2>1. BaseOf(b, k)' = BaseOf(b, k)
    <3> DEFINE last(S) == CHOOSE i \in S : \A j \in S : j <= i
    <3>1. /\ BaseOf(b, k) = IF Copies(b, k) # {} THEN Source(last(Copies(b, k)))
                            ELSE IF Deletes(b, k) # {} THEN <<>> ELSE Prior(b)
          /\ BaseOf(b, k)' = IF Copies(b, k)' # {}
                             THEN tips'[Asked'[last(Copies(b, k)')].at][Asked'[last(Copies(b, k)')].from]
                             ELSE IF Deletes(b, k)' # {} THEN <<>> ELSE Prior(b)'
      BY DEF BaseOf, Source
    <3> HIDE DEF last
    <3>2. QED BY <1>1, <1>2, <1>3, <3>1 DEF Source
  <2>2. MergedInto(b, k)' = MergedInto(b, k)
    BY <1>2, <1>3 DEF MergedInto
  <2>3. FilesOf(b, k)' = FilesOf(b, k)
    BY <1>1, <1>2, <1>3 DEF FilesOf
  <2>4. QED BY <2>1, <2>2, <2>3
<1>5. \A b, k : Called(b, k)' = Called(b, k)
  BY <1>1, <1>3, <1>4 DEF Called, CommitOf
<1>6. \A b, r : Removed(b, r)' = Removed(b, r)
  BY <1>1 DEF Removed
<1>7. QED BY <1>2, <1>3, <1>4, <1>5, <1>6

\* The process and the disk.
LEMMA StoreSame ==
    ASSUME UNCHANGED <<fi, disk, processHasStarted>>
    PROVE  /\ MarkTable' = MarkTable /\ BlobTable' = BlobTable /\ Saves' = Saves
           /\ \A m : Value(m)' = Value(m)
           /\ \A b, h : Holds(b, h)' = Holds(b, h)
           /\ \A b : Names(b)' = Names(b)
BY DEF MarkTable, BlobTable, Saves, Value, Holds, Names

\* The branches.
LEMMA TopSame ==
    ASSUME NEW b, branches'[b].marks = branches[b].marks, MarkTable' = MarkTable
    PROVE  LastMark(b)' = LastMark(b) /\ Top(b)' = Top(b)
BY DEF LastMark, Top, Value

-----------------------------------------------------------------------------
LEMMA ExportInit ==
    ASSUME NullIsNoHistory, Init
    PROVE  ExportInv
<1>1. /\ fi = Git!Started(Git!EmptyDisk) /\ disk = Git!EmptyDisk /\ transactions = {}
      /\ queue = <<>> /\ phase = "idle" /\ processHasStarted = FALSE /\ log = <<>>
      /\ last_commit_mark = 0 /\ branches = InitialBranches /\ rev = 1 /\ todo = <<>>
      /\ deletedBranches = <<>> /\ resetBranches = <<>> /\ annotatedTags = {}
      /\ svn = <<>> /\ tips = <<>>
  BY DEF Init
<1>2. ~ fi.dead /\ fi.backup = {}
  BY <1>1, EmptyDiskType, StartedFacts
<1>3. /\ \A m \in CommitMark : MarkTable[m] = Null
      /\ \A b \in Branch : disk.ref[b] = Null /\ disk.tag[b] = Null
      /\ disk.backup = {}
  BY <1>1 DEF MarkTable, Git!EmptyDisk
<1>4. Len(<<>>) = 0 /\ 1 .. 0 = {}
  OBVIOUS
<1>5. \A b \in Branch : /\ branches[b].commits = <<>> /\ branches[b].marks = <<>>
                        /\ LastMark(b) = 0 /\ Top(b) = <<>> /\ ~ Pending(b)
                        /\ Prior(b) = <<>> /\ ~ Opened(b)
  <2>1. \A b \in Branch : branches[b].commits = <<>> /\ branches[b].marks = <<>>
    BY <1>1 DEF InitialBranches, EmptyBranch
  <2>2. \A b \in Branch : LastMark(b) = 0 /\ Top(b) = <<>>
    BY <2>1 DEF LastMark, LastOf, Top, Value
  <2>3. \A b \in Branch : ~ Pending(b) /\ ~ Opened(b)
    BY <1>1, <1>4 DEF Pending, Waiting, Opened
  <2>4. \A b \in Branch : Prior(b) = <<>>
    BY <1>1 DEF Prior, TipsAt, NoTips
  <2>5. QED BY <2>1, <2>2, <2>3, <2>4
<1>6. Calm
  BY <1>1, <1>2 DEF Calm
<1>7. Seen
  BY <1>1, <1>4 DEF Seen, Exporting
<1>8. Marks
  BY <1>1, <1>3, <1>4 DEF Marks, LinesRead
<1>9. Heads
  BY <1>3 DEF Heads
<1>10. Dates
  BY <1>1, <1>4, <1>5 DEF Dates
<1>11. Points
  BY <1>1 DEF Points
<1>12. Logged
  <2>1. \A b, r : LineMark(<<>>, 0, b, r) = 0
    BY <1>4 DEF LineMark
  <2>2. QED BY <1>1, <1>4, <1>5, <2>1 DEF Logged
<1>13. Ended
  BY <1>1 DEF Ended
<1>14. Progress
  BY <1>1, <1>5 DEF Progress, Exporting
<1>15. Held
  BY <1>1, <1>3, <1>5 DEF Held, Holds, HoldsStored
<1>16. Queued
  BY <1>1, <1>4 DEF Queued, CommandsOK
<1>17. Tagged
  BY <1>1, <1>5, RepositoryAssumption DEF Tagged
<1>18. Kept
  BY <1>1, <1>2, <1>3, <1>4 DEF Kept, Saves
<1>19. QED
  BY <1>6, <1>7, <1>8, <1>9, <1>10, <1>11, <1>12, <1>13, <1>14, <1>15, <1>16, <1>17, <1>18
     DEF ExportInv

-----------------------------------------------------------------------------
(* The end of a revision *)

\* Nothing is queued.
LEMMA NothingQueued ==
    ASSUME queue = <<>>, deletedBranches = <<>>, resetBranches = <<>>
    PROVE  /\ \A b : ~ Pending(b)
           /\ phase # "prepare" => Queued
<1>1. Len(<<>>) = 0 /\ 1 .. 0 = {}
  OBVIOUS
<1>2. QED BY <1>1 DEF Pending, Waiting, Queued, CommandsOK

\* The types the steps need.
LEMMA ReadyTypes ==
    ASSUME Ready
    PROVE  /\ rev \in Nat /\ rev # 0 /\ Len(log) \in Nat /\ log \in Seq(Line)
           /\ Len(tips) \in Nat /\ tips \in Seq([Branch -> History])
           /\ branches \in [Branch -> Entry]
           /\ fi \in Process /\ disk \in Disk /\ processHasStarted \in BOOLEAN
           /\ ~ fi.dead
           /\ phase # "prepare" => deletedBranches = <<>> /\ resetBranches = <<>>
           /\ phase # "commit" => queue = <<>>
           /\ \A b \in Branch : branches[b] \in Entry
<1>1. IInv /\ UsedMarks /\ StoreOK /\ Calm /\ Seen /\ Marks /\ phase # "dead"
  BY ReadyFacts DEF Ready
<1>2. log \in Seq(Line) /\ phase \in {"idle", "prepare", "commit", "down"}
  BY <1>1 DEF IInv, LogOK, Calm
<1>3. rev \in Nat /\ rev # 0 /\ branches \in [Branch -> Entry]
      /\ fi \in Process /\ disk \in Disk /\ processHasStarted \in BOOLEAN
  BY <1>1, MarkFacts
<1>4. tips \in Seq([Branch -> History])
  BY <1>1 DEF Seen
<1>5. ~ fi.dead
  BY <1>1 DEF Calm
<1>6. /\ phase # "prepare" => deletedBranches = <<>> /\ resetBranches = <<>>
      /\ phase # "commit" => queue = <<>>
  BY <1>1, <1>2 DEF IInv, QueuesOK, StoreOK
<1>7. QED BY <1>2, <1>3, <1>4, <1>5, <1>6

\* Every commit and every reset of the revision is written.
LEMMA ExportEndRevision ==
    ASSUME Undisturbed, Ready, IInv', EndRevision
    PROVE  ExportInv'
<1>1. /\ phase = "commit" /\ phase' = "idle" /\ queue = <<>> /\ transactions = {}
      /\ ~ fi.dead /\ rev' = rev + 1
      /\ UNCHANGED <<memory, processHasStarted, todo, queue, fi, stored, history, pos>>
  BY DEF EndRevision
<1>2. /\ UNCHANGED <<branches, last_commit_mark, transactions, deletedBranches, resetBranches,
                     annotatedTags>>
      /\ UNCHANGED <<fi, disk, processHasStarted>> /\ UNCHANGED <<log, tagsFile, pos>>
      /\ svn' = svn /\ tips' = tips
  BY <1>1 DEF memory, stored, history
<1>3. /\ Calm /\ Seen /\ Marks /\ Heads /\ Dates /\ Points /\ Logged /\ Ended
      /\ Progress /\ Held /\ Queued /\ Tagged /\ Kept
      /\ IInv /\ UsedMarks /\ StoreOK
  BY ReadyFacts
<1>4. /\ rev \in Nat /\ rev # 0 /\ deletedBranches = <<>> /\ resetBranches = <<>>
      /\ \A b \in Branch : branches[b] \in Entry
  BY <1>1, ReadyTypes
<1>5. /\ MarkTable' = MarkTable /\ BlobTable' = BlobTable /\ Saves' = Saves
      /\ \A m : Value(m)' = Value(m)
      /\ \A b, h : Holds(b, h)' = Holds(b, h)
      /\ \A b : Names(b)' = Names(b)
  BY <1>2, StoreSame
<1>6. \A b : LastMark(b)' = LastMark(b) /\ Top(b)' = Top(b)
  BY <1>2, <1>5, TopSame
<1>7. (\A b : ~ Pending(b)) /\ \A b : ~ Pending(b)'
  BY <1>1, <1>2, <1>4, NothingQueued DEF Pending
<1>8. ~ Exporting' /\ Active' /\ Active
  BY <1>1 DEF Exporting, Active
<1>9. \A b \in Branch : Top(b) = tips[rev][b] /\ Prior(b)' = tips[rev][b]
  <2>1. \A b \in Branch : Top(b) = tips[rev][b]
    BY <1>1, <1>3 DEF Progress, Opened
  <2>2. \A b \in Branch : Prior(b)' = tips[rev][b]
    BY <1>1, <1>2, <1>4 DEF Prior, TipsAt
  <2>3. QED BY <2>1, <2>2
<1>10. \A r \in 1 .. rev' - 1 : r \in 1 .. rev - 1 \/ r = rev
  BY <1>1, <1>4
<1>11. Calm'
  BY <1>1, <1>2 DEF Calm
<1>12. Seen'
  BY <1>1, <1>2, <1>3, <1>4, <1>8 DEF Seen, Exporting
<1>13. Marks'
  BY <1>1, <1>2, <1>3, <1>5 DEF Marks, LinesRead
<1>14. Heads'
  <2>1. \A m \in CommitMark : MarkTable[m] # Null => HeadOf(MarkTable[m])[2] \in Nat
    <3> SUFFICES ASSUME NEW m \in CommitMark, MarkTable[m] # Null
                 PROVE  HeadOf(MarkTable[m])[2] \in Nat
      OBVIOUS
    <3>1. MarkTable[m] \in History /\ MarkTable[m] # <<>>
      BY <1>3, MarkFacts
    <3>2. HeadOf(MarkTable[m]) \in Branch \X Nat
      BY <3>1, HeadOfType
    <3>3. QED BY <3>2
  <2>2. QED BY <1>1, <1>2, <1>3, <1>4, <1>5, <2>1 DEF Heads
<1>15. Dates'
  <2> SUFFICES ASSUME NEW b \in Branch
               PROVE  /\ branches'[b].commits # <<>> => branches'[b].created # 0
                      /\ \A i \in 1 .. Len(branches'[b].marks) : branches'[b].commits[i] <= rev'
                      /\ LastMark(b)' # 0 => /\ branches'[b].created <= rev'
                                             /\ branches'[b].created < rev'
    BY <1>1 DEF Dates
  <2>1. /\ branches[b].commits # <<>> => branches[b].created # 0
        /\ \A i \in 1 .. Len(branches[b].marks) : branches[b].commits[i] <= rev
        /\ LastMark(b) # 0 => branches[b].created <= rev
    BY <1>3 DEF Dates
  <2>2. branches[b].created \in Nat
        /\ \A i \in 1 .. Len(branches[b].marks) : branches[b].commits[i] \in Nat
    BY <1>4 DEF Entry
  <2>3. branches' = branches /\ rev' = rev + 1 /\ LastMark(b)' = LastMark(b)
    BY <1>1, <1>2, <1>6
  <2>4. QED BY <1>4, <2>1, <2>2, <2>3
<1>16. Points'
  <2> SUFFICES ASSUME NEW b \in Branch, NEW r \in 1 .. rev' - 1
               PROVE  Value(EntryMark(branches[b], r)) = tips[r][b]
    BY <1>2, <1>5 DEF Points
  <2>1. CASE r \in 1 .. rev - 1
    BY <1>3, <1>8, <2>1 DEF Points
  <2>2. CASE r = rev
    <3>1. EntryMark(branches[b], rev) = LastMark(b)
      BY <1>3, <1>4, EntryLast DEF Dates, LastMark
    <3>2. QED BY <1>9, <2>2, <3>1 DEF Top
  <2>3. QED BY <1>10, <2>1, <2>2
<1>17. Logged'
  <2>1. \A b \in Branch : \A r \in Nat : r >= rev => LineMark(log, Len(log), b, r) = LastMark(b)
    BY <1>3, <1>7, <1>8 DEF Logged
  <2>2. ASSUME NEW b \in Branch, NEW r \in 1 .. rev' - 1
        PROVE  Value(LineMark(log, Len(log), b, r)) = tips[r][b]
    <3>1. CASE r \in 1 .. rev - 1
      BY <1>3, <3>1 DEF Logged
    <3>2. CASE r = rev
      <4>1. LineMark(log, Len(log), b, r) = LastMark(b)
        BY <1>4, <2>1, <3>2
      <4>2. QED BY <1>9, <3>2, <4>1 DEF Top
    <3>3. QED BY <1>10, <3>1, <3>2
  <2>3. \A b \in Branch : \A r \in Nat : r >= rev' => LineMark(log, Len(log), b, r) = LastMark(b)
    BY <1>1, <1>4, <2>1
  <2>4. QED BY <1>1, <1>2, <1>5, <1>6, <2>2, <2>3 DEF Logged
<1>18. Ended'
  BY <1>1, <1>2, <1>3, <1>4 DEF Ended
<1>19. Progress'
  BY <1>1, <1>2, <1>6, <1>8, <1>9 DEF Progress
<1>20. Held'
  BY <1>1, <1>3, <1>5, <1>6, <1>7, <1>8 DEF Held
<1>21. Queued'
  <2>1. queue' = <<>> /\ deletedBranches' = <<>> /\ resetBranches' = <<>> /\ phase' # "prepare"
    BY <1>1, <1>2, <1>4
  <2>2. Len(<<>>) = 0 /\ 1 .. 0 = {}
    OBVIOUS
  <2>3. QED BY <2>1, <2>2 DEF Queued, CommandsOK
<1>22. Tagged'
  BY <1>1, <1>2, <1>3, <1>6, <1>8 DEF Tagged, Opened
<1>23. Kept'
  <2>1. \A b, r : Removed(b, r)' = Removed(b, r)
    BY <1>2 DEF Removed
  <2>2. \A r \in 1 .. Len(tips) : r < rev' => r < rev \/ r = rev
    BY <1>1, <1>4
  <2>3. QED BY <1>1, <1>2, <1>3, <1>4, <1>5, <1>7, <2>1, <2>2 DEF Kept
<1>24. QED
  BY <1>11, <1>12, <1>13, <1>14, <1>15, <1>16, <1>17, <1>18, <1>19, <1>20, <1>21, <1>22, <1>23
     DEF ExportInv

-----------------------------------------------------------------------------
(* Eviction *)

\* How much of the revision is done.
LEMMA DoneSame ==
    ASSUME UNCHANGED <<svn, tips, rev, todo>>
    PROVE  /\ Asked' = Asked /\ Done' = Done
           /\ \A b : /\ Prior(b)' = Prior(b)
                     /\ Copies(b, Done)' = Copies(b, Done) /\ Deletes(b, Done)' = Deletes(b, Done)
                     /\ Changes(b, Done)' = Changes(b, Done)
                     /\ BaseOf(b, Done)' = BaseOf(b, Done)
                     /\ MergedInto(b, Done)' = MergedInto(b, Done)
                     /\ FilesOf(b, Done)' = FilesOf(b, Done)
                     /\ Called(b, Done)' = Called(b, Done)
<1>1. Asked' = Asked /\ Done' = Done /\ \A b : Prior(b)' = Prior(b)
  BY AskedSame DEF Done
<1>2. PICK k : k = Done
  OBVIOUS
<1>3. k = Done'
  BY <1>1, <1>2
<1>4. \A b : /\ Copies(b, k)' = Copies(b, k) /\ Deletes(b, k)' = Deletes(b, k)
             /\ Changes(b, k)' = Changes(b, k)
             /\ BaseOf(b, k)' = BaseOf(b, k)
             /\ MergedInto(b, k)' = MergedInto(b, k)
             /\ FilesOf(b, k)' = FilesOf(b, k)
             /\ Called(b, k)' = Called(b, k)
  BY AskedSame
<1>5. QED BY <1>1, <1>2, <1>3, <1>4

\* Commands stay right while the names they mention stand for the same.
LEMMA CommandsSame ==
    ASSUME NEW q, CommandsOK(q), UNCHANGED <<svn, tips, rev, todo>>,
           \A b \in Branch : LastMark(b)' = LastMark(b),
           \A i \in 1 .. Len(q) : q[i].branch \in Branch,
           \A b \in Branch : Names(b) \notin {Null, <<>>} =>
               /\ Names(b)' \notin {Null, <<>>}
               /\ LastMark(b) = 0 => Names(b)' = Names(b)
    PROVE  CommandsOK(q)'
<1>1. \A b : Prior(b)' = Prior(b)
  BY DoneSame
<1>2. \A b : Copies(b, Done)' = Copies(b, Done) /\ Deletes(b, Done)' = Deletes(b, Done)
  BY DoneSame
<1> SUFFICES ASSUME NEW i \in 1 .. Len(q)
             PROVE  LET b == q[i].branch IN
        /\ (q[i].to = Null) = (q[i].mark = 0)
        /\ (\A j \in i + 1 .. Len(q) : q[j].branch # b) => q[i].mark = LastMark(b)'
        /\ q[i].backup => Names(b)' \notin {Null, <<>>}
        /\ q[i].to # Null => Copies(b, Done)' # {}
        /\ q[i].to = Null => /\ q[i].backup /\ Names(b)' = Prior(b)'
                             /\ Deletes(b, Done)' # {}
                             /\ \A j \in 1 .. Len(q) : q[j].branch = b => j = i
  BY DEF CommandsOK
<1> DEFINE b == q[i].branch
<1>3. b \in Branch
  OBVIOUS
<1>4. /\ (q[i].to = Null) = (q[i].mark = 0)
      /\ (\A j \in i + 1 .. Len(q) : q[j].branch # b) => q[i].mark = LastMark(b)
      /\ q[i].backup => Names(b) \notin {Null, <<>>}
      /\ q[i].to # Null => Copies(b, Done) # {}
      /\ q[i].to = Null => /\ q[i].backup /\ Names(b) = Prior(b)
                           /\ Deletes(b, Done) # {}
                           /\ \A j \in 1 .. Len(q) : q[j].branch = b => j = i
  BY DEF CommandsOK
<1>5. LastMark(b)' = LastMark(b) /\ Prior(b)' = Prior(b)
  BY <1>1, <1>3
<1>6. Copies(b, Done)' = Copies(b, Done) /\ Deletes(b, Done)' = Deletes(b, Done)
  BY <1>2
<1>7. /\ q[i].backup => Names(b)' \notin {Null, <<>>}
      /\ q[i].to = Null => Names(b)' = Names(b)
  <2>1. q[i].to = Null => LastMark(b) = 0 /\ q[i].backup
    <3>1. q[i].to = Null => \A j \in i + 1 .. Len(q) : j # i /\ (j \in 1 .. Len(q))
      OBVIOUS
    <3>2. QED BY <1>4, <3>1
  <2>2. QED BY <1>3, <1>4, <2>1
<1> HIDE DEF b
<1>8. QED BY <1>4, <1>5, <1>6, <1>7 DEF b

\* The backups stay what they are while no backup is lost and none is new.
LEMMA KeptSame ==
    ASSUME Kept, UNCHANGED <<tips, rev, phase>>, \A b \in Branch : Pending(b)' = Pending(b),
           Saves' \subseteq Saves,
           \A k \in Saves : \E n \in Saves' : n.branch = k.branch /\ n.rev = k.rev
    PROVE  Kept'
<1>1. \A b, r : Removed(b, r)' = Removed(b, r)
  BY DEF Removed
<1>2. \A k \in Saves' : /\ k.rev \in 1 .. Len(tips')
                        /\ Removed(k.branch, k.rev)' =>
                              k.tip = TipsAt(tips', k.rev - 1)[k.branch]
  BY <1>1 DEF Kept
<1>3. ASSUME NEW b \in Branch, NEW r \in 1 .. Len(tips'), Removed(b, r)',
             r < rev' \/ (phase' = "commit" /\ ~ Pending(b)')
      PROVE  \E k \in Saves' : k.branch = b /\ k.rev = r
  <2>1. PICK k \in Saves : k.branch = b /\ k.rev = r
    BY <1>1, <1>3 DEF Kept
  <2>2. QED BY <2>1
<1>4. QED BY <1>2, <1>3 DEF Kept

\* The process cache closes the process: everything reaches the disk.
LEMMA ExportEvict ==
    ASSUME Undisturbed, Ready, Evict
    PROVE  ExportInv'
<1>1. /\ processHasStarted /\ ~ fi.dead /\ queue = <<>>
      /\ phase \in {"idle", "prepare", "commit"}
      /\ disk' = Git!Dump(fi, disk) /\ processHasStarted' = FALSE
      /\ fi' = Git!Started(Git!EmptyDisk)
      /\ UNCHANGED <<memory, pos, driver, log, tagsFile, history>>
  BY RepositoryAssumption DEF Evict, Closed
<1>2. /\ UNCHANGED <<branches, last_commit_mark, next_file_mark, transactions,
                     deletedBranches, resetBranches, annotatedTags>>
      /\ UNCHANGED <<log, tagsFile, pos>>
      /\ UNCHANGED <<svn, tips, rev, todo>> /\ phase' = phase /\ queue' = queue
  BY <1>1 DEF memory, history, driver
<1>3. /\ Calm /\ Seen /\ Marks /\ Heads /\ Dates /\ Points /\ Logged /\ Ended
      /\ Progress /\ Held /\ Queued /\ Tagged /\ Kept
      /\ IInv /\ UsedMarks /\ StoreOK
  BY ReadyFacts
<1>4. fi \in Process /\ disk \in Disk
  BY ReadyTypes
<1>5. MarkTable' = MarkTable /\ BlobTable' = BlobTable
  BY <1>1, <1>4, DumpFacts DEF MarkTable, BlobTable
<1>6. /\ \A m : Value(m)' = Value(m)
      /\ \A b : LastMark(b)' = LastMark(b) /\ Top(b)' = Top(b)
      /\ \A b : Pending(b)' = Pending(b)
      /\ \A b : Opened(b)' = Opened(b)
      /\ Exporting' = Exporting /\ Active' = Active
      /\ LinesRead' = LinesRead
  BY <1>2, <1>5 DEF Value, LastMark, Top, Pending, Waiting, Opened, Exporting, Active, LinesRead
<1>7. ~ fi'.dead /\ fi'.backup = {}
  BY <1>1, EmptyDiskType, StartedFacts
<1>8. /\ Saves' \subseteq Saves
      /\ \A k \in Saves : \E n \in Saves' : n.branch = k.branch /\ n.rev = k.rev
  <2>1. Saves' = disk'.backup
    BY <1>7 DEF Saves
  <2>2. /\ disk'.backup \subseteq fi.backup \cup disk.backup
        /\ fi.backup \subseteq disk'.backup
        /\ \A k \in disk.backup : \E m \in disk'.backup : m.branch = k.branch /\ m.rev = k.rev
    BY <1>1, <1>4, DumpBackups
  <2>3. QED BY <2>1, <2>2 DEF Saves
<1>9. \A b \in Branch : Names(b) \notin {Null, <<>>} => Names(b)' = Names(b)
  BY <1>1, <1>3, <1>4, DumpNames DEF Names, Undisturbed
<1>10. \A b : Prior(b)' = Prior(b) /\ (\A k : Called(b, k)' = Called(b, k))
  BY <1>2, AskedSame
<1>11. Calm'
  BY <1>2, <1>3, <1>7, <1>10 DEF Calm
<1>12. Seen'
  <2>1. AskedOK' = AskedOK /\ TodoOK' = TodoOK
    BY <1>2, DoneSame DEF AskedOK, TodoOK, Source
  <2>2. \A b : Called(b, Len(Asked))' = Called(b, Len(Asked))
    <3>1. PICK n : n = Len(Asked)
      OBVIOUS
    <3>2. n = Len(Asked')
      BY <1>2, <3>1, DoneSame
    <3>3. \A b : Called(b, n)' = Called(b, n)
      BY <1>2, AskedSame
    <3>4. QED BY <3>1, <3>2, <3>3
  <2>3. QED BY <1>2, <1>3, <1>6, <2>1, <2>2 DEF Seen
<1>13. Marks' /\ Heads' /\ Dates' /\ Points'
  BY <1>2, <1>3, <1>5, <1>6 DEF Marks, Heads, Dates, Points
<1>14. Logged' /\ Ended'
  BY <1>2, <1>3, <1>6 DEF Logged, Ended
<1>15. Progress'
  BY <1>2, <1>3, <1>5, <1>6, DoneSame DEF Progress
<1>16. Held'
  <2> SUFFICES ASSUME NEW b \in Branch, ~ Pending(b)
               PROVE  Holds(b, Top(b))'
    BY <1>1, <1>2, <1>6 DEF Held
  <2>1. PICK h : h = Top(b)
    OBVIOUS
  <2>2. h \in History
    BY <1>3, <2>1, TopFacts
  <2>3. HoldsRunning(fi, disk, b, h) /\ fi.tag[b] = Null
    BY <1>1, <1>3, <2>1 DEF Held, Holds, Active, Tagged
  <2>4. HoldsStored(disk', b, h)
    BY <1>1, <1>4, <2>2, <2>3, DumpHolds DEF Undisturbed
  <2>5. Holds(b, h)'
    BY <1>1, <2>4 DEF Holds
  <2>6. h = Top(b)'
    BY <1>6, <2>1
  <2>7. QED BY <2>5, <2>6
<1>17. Queued'
  <2>1. /\ \A i \in 1 .. Len(deletedBranches) : deletedBranches[i].branch \in Branch
        /\ \A i \in 1 .. Len(resetBranches) : resetBranches[i].branch \in Branch
    <3>1. deletedBranches \in Seq(Command(rev)) /\ resetBranches \in Seq(Command(rev))
      BY <1>3 DEF IInv, QueuesOK
    <3>2. /\ \A i \in 1 .. Len(deletedBranches) : deletedBranches[i] \in Command(rev)
          /\ \A i \in 1 .. Len(resetBranches) : resetBranches[i] \in Command(rev)
      BY <3>1
    <3>3. QED BY <3>2 DEF Command
  <2>2. PICK d, s : d = deletedBranches /\ s = resetBranches
    OBVIOUS
  <2>3. CommandsOK(d)' /\ CommandsOK(s)'
    BY <1>2, <1>3, <1>6, <1>9, <2>1, <2>2, CommandsSame DEF Queued
  <2>4. CommandsOK(<<>>)'
    <3>1. Len(<<>>) = 0 /\ 1 .. 0 = {}
      OBVIOUS
    <3>2. QED BY <3>1 DEF CommandsOK
  <2>5. \A b : Deletes(b, Done)' = Deletes(b, Done)
    BY <1>2, DoneSame
  <2>6. QED BY <1>1, <1>2, <1>3, <2>2, <2>3, <2>4, <2>5 DEF Queued, Waiting
<1>18. Tagged'
  BY <1>1, <1>2, <1>3, <1>6 DEF Tagged
<1>19. Kept'
  BY <1>2, <1>3, <1>6, <1>8, KeptSame
<1>20. QED
  BY <1>11, <1>12, <1>13, <1>14, <1>15, <1>16, <1>17, <1>18, <1>19 DEF ExportInv

-----------------------------------------------------------------------------
(* The operations, one by one *)

\* The operations of the revision being exported, and how many of them are done.
LEMMA AskedFacts ==
    ASSUME Ready, Exporting
    PROVE  /\ AskedOK /\ TodoOK
           /\ Asked \in Seq(Operation) /\ Len(Asked) \in Nat
           /\ \A i \in 1 .. Len(Asked) : Asked[i] \in Operation /\ Asked[i].branch \in Branch
           /\ todo \in Seq(Operation) /\ Len(todo) \in Nat
           /\ Done \in 0 .. Len(Asked)
           /\ Len(svn) = rev /\ Len(tips) = rev /\ rev \in 1 .. Len(tips)
           /\ \A b \in Branch : Prior(b) \in History /\ tips[rev][b] = Called(b, Len(Asked))
<1>1. Seen /\ svn \in Seq(Seq(Operation)) /\ todo \in Seq(Operation) /\ rev \in Nat /\ rev # 0
      /\ tips \in Seq([Branch -> History])
  BY ReadyFacts, ReadyTypes DEF IInv, DriverOK
<1>2. Len(svn) = rev /\ Len(tips) = rev /\ AskedOK /\ TodoOK
  BY <1>1 DEF Seen
<1>3. rev \in 1 .. Len(svn) /\ rev \in 1 .. Len(tips)
  BY <1>1, <1>2
<1>4. Asked \in Seq(Operation)
  BY <1>1, <1>3 DEF Asked
<1>5. Len(Asked) \in Nat /\ \A i \in 1 .. Len(Asked) : Asked[i] \in Operation
  BY <1>4
<1>6. \A i \in 1 .. Len(Asked) : Asked[i].branch \in Branch
  BY <1>5 DEF Operation, Op
<1>7. Len(todo) \in Nat /\ Len(todo) <= Len(Asked)
  BY <1>1, <1>2 DEF TodoOK
<1>8. Done \in 0 .. Len(Asked)
  BY <1>5, <1>7 DEF Done
<1>9. \A b \in Branch : Prior(b) \in History
  <2>1. CASE rev - 1 = 0
    BY <2>1 DEF Prior, TipsAt, NoTips, History
  <2>2. CASE rev - 1 # 0
    <3>1. rev - 1 \in 1 .. Len(tips)
      BY <1>1, <1>2, <2>2
    <3>2. tips[rev - 1] \in [Branch -> History]
      BY <1>1, <3>1
    <3>3. QED BY <2>2, <3>2 DEF Prior, TipsAt
  <2>3. QED BY <2>1, <2>2
<1>10. QED BY <1>1, <1>2, <1>3, <1>4, <1>5, <1>6, <1>7, <1>8, <1>9 DEF Seen

\* Where a branch starts from, once the first k operations are done.
LEMMA BaseFacts ==
    ASSUME Ready, Exporting, NEW b \in Branch, NEW k \in 0 .. Len(Asked)
    PROVE  /\ Copies(b, k) # {} =>
                 \E i \in Copies(b, k) : /\ \A j \in Copies(b, k) : j <= i
                                         /\ BaseOf(b, k) = Source(i) /\ Source(i) # <<>>
           /\ Deletes(b, k) # {} => /\ Copies(b, k) = {} /\ Changes(b, k) = {}
                                    /\ BaseOf(b, k) = <<>> /\ Called(b, k) = <<>>
                                    /\ Prior(b) # <<>>
           /\ Copies(b, k) = {} /\ Deletes(b, k) = {} => BaseOf(b, k) = Prior(b)
           /\ BaseOf(b, k) \in History
           /\ BaseOf(b, k) = <<>> /\ Prior(b) # <<>> => Deletes(b, k) # {}
           /\ \A i \in 1 .. k : /\ Asked[i].kind = "copy" \/ (Asked[i].kind # "delete" /\ Asked[i].from # Null)
                                      => /\ Source(i) \in History /\ Source(i) # <<>>
                                         /\ Asked[i].from \in Branch /\ Asked[i].at \in 1 .. rev - 1
<1>1. /\ AskedOK /\ Len(Asked) \in Nat /\ Prior(b) \in History
      /\ tips \in Seq([Branch -> History]) /\ Len(tips) = rev /\ rev \in Nat
  BY AskedFacts, ReadyTypes
<1>2. ASSUME NEW i \in 1 .. k,
             Asked[i].kind = "copy" \/ (Asked[i].kind # "delete" /\ Asked[i].from # Null)
      PROVE  /\ Source(i) \in History /\ Source(i) # <<>>
             /\ Asked[i].from \in Branch /\ Asked[i].at \in 1 .. rev - 1
  <2>1. i \in 1 .. Len(Asked)
    BY <1>1
  <2>2. Asked[i].from \in Branch /\ Asked[i].at \in 1 .. rev - 1 /\ Source(i) # <<>>
    BY <1>1, <1>2, <2>1 DEF AskedOK
  <2>3. Asked[i].at \in 1 .. Len(tips)
    BY <1>1, <2>2
  <2>4. tips[Asked[i].at] \in [Branch -> History]
    BY <1>1, <2>3
  <2>5. QED BY <2>2, <2>4 DEF Source
<1>3. ASSUME Copies(b, k) # {}
      PROVE  \E i \in Copies(b, k) : /\ \A j \in Copies(b, k) : j <= i
                                     /\ BaseOf(b, k) = Source(i) /\ Source(i) # <<>>
                                     /\ Source(i) \in History
  <2>1. Copies(b, k) \subseteq 1 .. k /\ k \in Nat
    BY DEF Copies
  <2> DEFINE i == CHOOSE i \in Copies(b, k) : \A j \in Copies(b, k) : j <= i
  <2>2. i \in Copies(b, k) /\ \A j \in Copies(b, k) : j <= i
    BY <1>3, <2>1, Greatest
  <2>3. BaseOf(b, k) = Source(i)
    BY <1>3 DEF BaseOf
  <2> HIDE DEF i
  <2>4. i \in 1 .. k /\ Asked[i].kind = "copy"
    BY <2>2 DEF Copies
  <2>5. QED BY <1>2, <2>2, <2>3, <2>4
<1>4. ASSUME NEW i \in Deletes(b, k)
      PROVE  Copies(b, k) = {} /\ Changes(b, k) = {} /\ Prior(b) # <<>>
  <2>1. i \in 1 .. Len(Asked) /\ Asked[i].branch = b /\ Asked[i].kind = "delete"
    BY <1>1 DEF Deletes
  <2>2. \A j \in 1 .. Len(Asked) : Asked[j].branch = b => j = i
    BY <1>1, <2>1 DEF AskedOK
  <2>3. \A j \in 1 .. k : j \in 1 .. Len(Asked)
    BY <1>1
  <2>4. Copies(b, k) = {} /\ Changes(b, k) = {}
    BY <2>1, <2>2, <2>3 DEF Copies, Changes
  <2>5. QED BY <1>1, <2>1, <2>4 DEF AskedOK
<1>5. Deletes(b, k) # {} => /\ Copies(b, k) = {} /\ Changes(b, k) = {}
                            /\ BaseOf(b, k) = <<>> /\ Called(b, k) = <<>>
                            /\ Prior(b) # <<>>
  BY <1>4 DEF BaseOf, Called
<1>6. Copies(b, k) = {} /\ Deletes(b, k) = {} => BaseOf(b, k) = Prior(b)
  BY DEF BaseOf
<1>7. <<>> \in History
  BY DEF History
<1>8. BaseOf(b, k) \in History
  <2>1. CASE Copies(b, k) # {}
    BY <1>3, <2>1
  <2>2. CASE Copies(b, k) = {} /\ Deletes(b, k) = {}
    BY <1>1, <1>6, <2>2
  <2>3. CASE Deletes(b, k) # {}
    BY <1>5, <1>7, <2>3
  <2>4. QED BY <2>1, <2>2, <2>3
<1>9. BaseOf(b, k) = <<>> /\ Prior(b) # <<>> => Deletes(b, k) # {}
  BY <1>3, <1>6
<1>10. QED BY <1>2, <1>3, <1>5, <1>6, <1>8, <1>9

\* The commit of a branch, once the first k operations are done.
LEMMA CommitType ==
    ASSUME NullIsNoHistory, Ready, Exporting, NEW b \in Branch, NEW k \in 0 .. Len(Asked)
    PROVE  /\ CommitOf(b, k) \in Commitment
           /\ Called(b, k) \in History
           /\ Called(b, k) = <<>> <=> Changes(b, k) = {} /\ BaseOf(b, k) = <<>>
<1>1. BaseOf(b, k) \in History /\ rev \in Nat
      /\ \A i \in 1 .. k : Asked[i].kind = "copy" \/ (Asked[i].kind # "delete" /\ Asked[i].from # Null)
                                      => Source(i) \in History /\ Source(i) # <<>>
  BY BaseFacts, ReadyTypes
<1>2. \A h \in MergedInto(b, k) : h \in History /\ h # <<>>
  <2>1. \A j \in Changes(b, k) : j \in 1 .. k /\ Asked[j].kind # "delete"
    BY DEF Changes
  <2>2. QED BY <1>1, <2>1 DEF MergedInto
<1>3. \A h \in MergedInto(b, k) : HeadOf(h) \in Branch \X Nat
  BY <1>2, HeadOfType
<1>4. FilesOf(b, k) \subseteq Content
  BY <1>1 DEF FilesOf, Content
<1>5. CommitOf(b, k) \in Commitment
  BY <1>1, <1>3, <1>4 DEF CommitOf, Commitment
<1>6. Append(BaseOf(b, k), CommitOf(b, k)) \in History /\ Append(BaseOf(b, k), CommitOf(b, k)) # <<>>
  BY <1>1, <1>5, AppendFacts DEF History
<1>7. QED BY <1>1, <1>5, <1>6 DEF Called

-----------------------------------------------------------------------------
(* The commands, together *)

\* Two sequences of commands, one after the other.
LEMMA Joined ==
    ASSUME NEW S, NEW d \in Seq(S), NEW s \in Seq(S)
    PROVE  LET q == d \o s
           IN  /\ Len(d) \in Nat /\ Len(s) \in Nat /\ Len(q) = Len(d) + Len(s)
               /\ \A i \in 1 .. Len(q) :
                     IF i \in 1 .. Len(d) THEN q[i] = d[i]
                     ELSE i - Len(d) \in 1 .. Len(s) /\ q[i] = s[i - Len(d)]
               /\ \A i \in 1 .. Len(d) : i \in 1 .. Len(q) /\ q[i] = d[i]
               /\ \A i \in 1 .. Len(s) : Len(d) + i \in 1 .. Len(q) /\ q[Len(d) + i] = s[i]
               /\ \A b : Waiting(q, b) <=> Waiting(d, b) \/ Waiting(s, b)
               /\ q = <<>> <=> d = <<>> /\ s = <<>>
<1> DEFINE q == d \o s
<1>1. Len(d) \in Nat /\ Len(s) \in Nat /\ Len(q) = Len(d) + Len(s)
  OBVIOUS
<1>2. \A i \in 1 .. Len(q) : q[i] = IF i \in 1 .. Len(d) THEN d[i] ELSE s[i - Len(d)]
  OBVIOUS
<1>3. q = <<>> <=> d = <<>> /\ s = <<>>
  OBVIOUS
<1> HIDE DEF q
<1>4. \A i \in 1 .. Len(q) :
          IF i \in 1 .. Len(d) THEN q[i] = d[i]
          ELSE i - Len(d) \in 1 .. Len(s) /\ q[i] = s[i - Len(d)]
  BY <1>1, <1>2
<1>5. \A i \in 1 .. Len(d) : i \in 1 .. Len(q) /\ q[i] = d[i]
  BY <1>1, <1>2
<1>6. ASSUME NEW i \in 1 .. Len(s)
      PROVE  Len(d) + i \in 1 .. Len(q) /\ q[Len(d) + i] = s[i]
  <2>1. /\ Len(d) + i \in 1 .. Len(q) /\ ~ (Len(d) + i \in 1 .. Len(d))
        /\ (Len(d) + i) - Len(d) = i
    BY <1>1
  <2>2. q[Len(d) + i] = s[(Len(d) + i) - Len(d)]
    BY <1>2, <2>1
  <2>3. QED BY <2>1, <2>2
<1>7. \A b : Waiting(q, b) <=> Waiting(d, b) \/ Waiting(s, b)
  BY <1>4, <1>5, <1>6 DEF Waiting
<1>8. QED BY <1>1, <1>3, <1>4, <1>5, <1>6, <1>7 DEF q

\* Deletions and then resets: no branch is in both.
LEMMA CommandsJoin ==
    ASSUME Ready, Exporting, NEW S, NEW d \in Seq(S), NEW s \in Seq(S),
           CommandsOK(d), CommandsOK(s),
           \A i \in 1 .. Len(d) : d[i].to = Null /\ d[i].branch \in Branch,
           \A i \in 1 .. Len(s) : s[i].to # Null /\ s[i].branch \in Branch
    PROVE  /\ CommandsOK(d \o s)
           /\ \A i \in 1 .. Len(d \o s) : (d \o s)[i].branch \in Branch
<1> DEFINE q == d \o s
<1>1. /\ Len(d) \in Nat /\ Len(s) \in Nat /\ Len(q) = Len(d) + Len(s)
      /\ \A i \in 1 .. Len(q) :
            IF i \in 1 .. Len(d) THEN q[i] = d[i]
            ELSE i - Len(d) \in 1 .. Len(s) /\ q[i] = s[i - Len(d)]
      /\ \A i \in 1 .. Len(d) : i \in 1 .. Len(q) /\ q[i] = d[i]
      /\ \A i \in 1 .. Len(s) : Len(d) + i \in 1 .. Len(q) /\ q[Len(d) + i] = s[i]
  BY Joined
<1>2. \A i \in 1 .. Len(d), j \in 1 .. Len(s) : d[i].branch # s[j].branch
  <2> SUFFICES ASSUME NEW i \in 1 .. Len(d), NEW j \in 1 .. Len(s), d[i].branch = s[j].branch
               PROVE  FALSE
    OBVIOUS
  <2>1. Deletes(d[i].branch, Done) # {} /\ Copies(d[i].branch, Done) # {}
    BY DEF CommandsOK
  <2>2. Done \in 0 .. Len(Asked) /\ d[i].branch \in Branch
    BY AskedFacts
  <2>3. QED BY <2>1, <2>2, BaseFacts
<1> HIDE DEF q
<1>3. ASSUME NEW i \in 1 .. Len(q)
      PROVE  LET b == q[i].branch IN
        /\ b \in Branch
        /\ (q[i].to = Null) = (q[i].mark = 0)
        /\ (\A j \in i + 1 .. Len(q) : q[j].branch # b) => q[i].mark = LastMark(b)
        /\ q[i].backup => Names(b) \notin {Null, <<>>}
        /\ q[i].to # Null => Copies(b, Done) # {}
        /\ q[i].to = Null => /\ q[i].backup /\ Names(b) = Prior(b)
                             /\ Deletes(b, Done) # {}
                             /\ \A j \in 1 .. Len(q) : q[j].branch = b => j = i
  <2> DEFINE b == q[i].branch
  <2>1. CASE i \in 1 .. Len(d)
    <3>1. q[i] = d[i] /\ b = d[i].branch /\ d[i].to = Null
      BY <1>1, <2>1
    <3>2. /\ (d[i].to = Null) = (d[i].mark = 0)
          /\ (\A j \in i + 1 .. Len(d) : d[j].branch # b) => d[i].mark = LastMark(b)
          /\ Names(b) \notin {Null, <<>>} /\ Names(b) = Prior(b) /\ Deletes(b, Done) # {}
          /\ d[i].backup
          /\ \A j \in 1 .. Len(d) : d[j].branch = b => j = i
      BY <2>1, <3>1 DEF CommandsOK
    <3>3. (\A j \in i + 1 .. Len(q) : q[j].branch # b) => q[i].mark = LastMark(b)
      <4>1. \A j \in i + 1 .. Len(d) : j \in i + 1 .. Len(q) /\ q[j] = d[j]
        BY <1>1, <2>1
      <4>2. QED BY <3>1, <3>2, <4>1
    <3>4. \A j \in 1 .. Len(q) : q[j].branch = b => j = i
      <4> SUFFICES ASSUME NEW j \in 1 .. Len(q), q[j].branch = b PROVE j = i
        OBVIOUS
      <4>1. CASE j \in 1 .. Len(d)
        BY <1>1, <3>2, <4>1
      <4>2. CASE ~ (j \in 1 .. Len(d))
        <5>1. j - Len(d) \in 1 .. Len(s) /\ q[j] = s[j - Len(d)]
          BY <1>1, <4>2
        <5>2. d[i].branch = s[j - Len(d)].branch
          BY <3>1, <5>1
        <5>3. QED BY <1>2, <2>1, <5>1, <5>2
      <4>3. QED BY <4>1, <4>2
    <3>5. QED BY <2>1, <3>1, <3>2, <3>3, <3>4
  <2>2. CASE ~ (i \in 1 .. Len(d))
    <3> DEFINE k == i - Len(d)
    <3>1. k \in 1 .. Len(s) /\ q[i] = s[k] /\ b = s[k].branch /\ s[k].to # Null
      BY <1>1, <2>2
    <3> HIDE DEF k
    <3>2. /\ (s[k].to = Null) = (s[k].mark = 0)
          /\ (\A j \in k + 1 .. Len(s) : s[j].branch # b) => s[k].mark = LastMark(b)
          /\ s[k].backup => Names(b) \notin {Null, <<>>}
          /\ Copies(b, Done) # {}
      BY <3>1 DEF CommandsOK
    <3>3. (\A j \in i + 1 .. Len(q) : q[j].branch # b) => q[i].mark = LastMark(b)
      <4>1. \A j \in k + 1 .. Len(s) : Len(d) + j \in i + 1 .. Len(q) /\ q[Len(d) + j] = s[j]
        BY <1>1, <2>2 DEF k
      <4>2. QED BY <3>1, <3>2, <4>1
    <3>4. QED BY <3>1, <3>2, <3>3
  <2>3. QED BY <2>1, <2>2
<1>4. CommandsOK(q) /\ \A i \in 1 .. Len(q) : q[i].branch \in Branch
  BY <1>3 DEF CommandsOK
<1>5. QED BY <1>4 DEF q

\* What is queued, as a sequence of commands.
LEMMA QueueFacts ==
    ASSUME Ready
    PROVE  /\ queue \in Seq(Command(rev)) /\ deletedBranches \in Seq(Command(rev))
           /\ resetBranches \in Seq(Command(rev))
           /\ \A i \in 1 .. Len(queue) : queue[i] \in Command(rev) /\ queue[i].branch \in Branch
           /\ \A i \in 1 .. Len(deletedBranches) :
                 deletedBranches[i] \in Command(rev) /\ deletedBranches[i].branch \in Branch
           /\ \A i \in 1 .. Len(resetBranches) :
                 resetBranches[i] \in Command(rev) /\ resetBranches[i].branch \in Branch
           /\ Len(queue) \in Nat /\ Len(deletedBranches) \in Nat /\ Len(resetBranches) \in Nat
<1>1. queue \in Seq(Command(rev)) /\ deletedBranches \in Seq(Command(rev))
      /\ resetBranches \in Seq(Command(rev))
  BY ReadyFacts DEF IInv, QueuesOK
<1>2. \A c \in Command(rev) : c.branch \in Branch
  BY DEF Command
<1>3. QED BY <1>1, <1>2

\* The operations and what they call for, in the next state.
LEMMA SeenSame ==
    ASSUME UNCHANGED <<svn, tips, rev, todo>>, Seen, Exporting,
           phase' \in {"prepare", "commit"}, phase' = "commit" => todo = <<>>
    PROVE  Seen'
<1>1. /\ Asked' = Asked /\ Done' = Done
      /\ \A b : Prior(b)' = Prior(b)
  BY DoneSame
<1>2. AskedOK' = AskedOK
  BY <1>1 DEF AskedOK, Source
<1>3. TodoOK'
  BY <1>1 DEF TodoOK, Seen
<1>4. \A b : Called(b, Len(Asked))' = Called(b, Len(Asked))
  <2>1. PICK n : n = Len(Asked)
    OBVIOUS
  <2>2. n = Len(Asked')
    BY <1>1, <2>1
  <2>3. \A b : Called(b, n)' = Called(b, n)
    BY AskedSame
  <2>4. QED BY <2>1, <2>2, <2>3
<1>5. Exporting'
  BY DEF Exporting
<1>6. QED BY <1>2, <1>3, <1>4, <1>5 DEF Seen

\* A branch that is removed by the revision has its deletion among the operations.
LEMMA RemovedHow ==
    ASSUME NullIsNoHistory, Ready, Exporting, NEW b \in Branch, Removed(b, rev)
    PROVE  Deletes(b, Len(Asked)) # {}
<1>1. tips[rev][b] = <<>> /\ Prior(b) # <<>> /\ tips[rev][b] = Called(b, Len(Asked))
      /\ Len(Asked) \in 0 .. Len(Asked)
  BY AskedFacts DEF Removed, Prior
<1>2. BaseOf(b, Len(Asked)) = <<>>
  BY <1>1, CommitType
<1>3. QED BY <1>1, <1>2, BaseFacts

\* The queued commands of a revision are about to be written.
LEMMA ExportFlush ==
    ASSUME Undisturbed, Ready, StoreOK', Flush
    PROVE  ExportInv'
<1> DEFINE q == deletedBranches \o resetBranches
<1>1. /\ phase = "prepare" /\ phase' = "commit" /\ todo = <<>> /\ queue' = q
      /\ deletedBranches' = <<>> /\ resetBranches' = <<>>
      /\ annotatedTags' = annotatedTags \
             {b \in TagBranch : /\ \E i \in DOMAIN deletedBranches : deletedBranches[i].branch = b
                                /\ \A i \in DOMAIN resetBranches : resetBranches[i].branch # b}
      /\ IF q = <<>> THEN UNCHANGED <<fi, processHasStarted>>
         ELSE fi' = Running(branches) /\ processHasStarted' = TRUE
      /\ UNCHANGED <<branches, last_commit_mark, next_file_mark, transactions, rev, todo,
                     disk, log, tagsFile, svn, tips, pos>>
  BY DEF Flush, marking, stored, history
<1>2. /\ Calm /\ Seen /\ Marks /\ Heads /\ Dates /\ Points /\ Logged /\ Ended
      /\ Progress /\ Held /\ Queued /\ Tagged /\ Kept
      /\ IInv /\ UsedMarks /\ StoreOK
  BY ReadyFacts
<1>3. /\ queue = <<>> /\ Exporting /\ Active /\ Exporting' /\ Active'
      /\ Done = Len(Asked) /\ Len(Asked) \in Nat
  <2>1. Exporting /\ Active /\ Exporting' /\ Active' /\ queue = <<>>
    BY <1>1, ReadyTypes DEF Exporting, Active
  <2>2. Len(Asked) \in Nat
    BY <2>1, AskedFacts
  <2>3. QED BY <1>1, <2>1, <2>2 DEF Done
<1>4. /\ MarkTable' = MarkTable /\ BlobTable' = BlobTable /\ Saves' = Saves
      /\ ~ fi'.dead
      /\ processHasStarted' => \A b \in Branch : fi'.tag[b] = Null
      /\ \A b \in Branch :
            /\ Holds(b, Top(b)) => Holds(b, Top(b))'
            /\ Names(b) \notin {Null, <<>>} =>
                  /\ Names(b)' \notin {Null, <<>>}
                  /\ LastMark(b) = 0 => Names(b)' = Names(b)
  <2>1. CASE q = <<>>
    <3>1. UNCHANGED <<fi, disk, processHasStarted>>
      BY <1>1, <2>1
    <3>2. ~ fi.dead
      BY ReadyTypes
    <3>3. \A b \in Branch : Holds(b, Top(b)) => Holds(b, Top(b))'
      <4> SUFFICES ASSUME NEW b \in Branch, Holds(b, Top(b)) PROVE Holds(b, Top(b))'
        OBVIOUS
      <4>1. PICK h : h = Top(b)
        OBVIOUS
      <4>2. h = Top(b)'
        BY <1>1, <3>1, <4>1, StoreSame, TopSame
      <4>3. Holds(b, h)'
        BY <3>1, <4>1, StoreSame
      <4>4. QED BY <4>2, <4>3
    <3>4. QED BY <1>2, <3>1, <3>2, <3>3, StoreSame DEF Tagged
  <2>2. CASE q # <<>>
    <3>1. fi' = Running(branches) /\ processHasStarted' = TRUE /\ disk' = disk
      BY <1>1, <2>2
    <3>2. /\ ~ fi'.dead /\ fi'.mark = MarkTable /\ fi'.blob = BlobTable
          /\ fi'.backup \cup disk.backup = Saves
          /\ \A b \in Branch :
                     /\ fi'.tag[b] = Null
                     /\ Holds(b, Top(b)) => HoldsRunning(fi', disk, b, Top(b))
                     /\ Names(b) \notin {Null, <<>>} =>
                           Git!RefTip(fi', disk, b) \notin {Null, <<>>}
                     /\ LastMark(b) = 0 => Git!RefTip(fi', disk, b) = Names(b)
      BY <1>2, <3>1, RunningHolds DEF Ready
    <3>3. MarkTable' = MarkTable /\ BlobTable' = BlobTable /\ Saves' = Saves
      BY <3>1, <3>2 DEF MarkTable, BlobTable, Saves
    <3>4. \A b \in Branch : Holds(b, Top(b)) => Holds(b, Top(b))'
      <4> SUFFICES ASSUME NEW b \in Branch, Holds(b, Top(b)) PROVE Holds(b, Top(b))'
        OBVIOUS
      <4>1. PICK h : h = Top(b)
        OBVIOUS
      <4>2. h = Top(b)'
        BY <1>1, <3>3, <4>1, TopSame
      <4>3. Holds(b, h)'
        BY <3>1, <3>2, <4>1 DEF Holds
      <4>4. QED BY <4>2, <4>3
    <3>5. \A b \in Branch : Names(b)' = Git!RefTip(fi', disk, b)
      BY <3>1 DEF Names
    <3>6. QED BY <3>2, <3>3, <3>4, <3>5
  <2>3. QED BY <2>1, <2>2
<1>5. /\ \A m : Value(m)' = Value(m)
      /\ \A b : LastMark(b)' = LastMark(b) /\ Top(b)' = Top(b)
      /\ \A b : Opened(b)' = Opened(b)
      /\ LinesRead' = LinesRead
  BY <1>1, <1>4 DEF Value, LastMark, Top, Opened, LinesRead
<1>6. \A b : Pending(b)' <=> Pending(b)
  <2>1. \A b : Waiting(q, b) <=> Waiting(deletedBranches, b) \/ Waiting(resetBranches, b)
    BY QueueFacts, Joined
  <2>2. \A b : ~ Waiting(<<>>, b)
    <3>1. 1 .. Len(<<>>) = {}
      OBVIOUS
    <3>2. QED BY <3>1 DEF Waiting
  <2>3. \A b : Pending(b)' <=> Waiting(q, b)
    <3>1. PICK p : p = q
      OBVIOUS
    <3>2. \A b : Pending(b)' <=> Waiting(p, b)
      BY <1>1, <2>2, <3>1 DEF Pending, Waiting
    <3>3. QED BY <3>1, <3>2
  <2>4. QED BY <1>3, <2>1, <2>2, <2>3 DEF Pending
<1>7. \A b : Deletes(b, Done) = {} \/ b \notin Branch \/ Waiting(deletedBranches, b)
  BY <1>1, <1>2 DEF Queued
<1>8. Calm'
  BY <1>1, <1>4 DEF Calm
<1>9. Seen'
  BY <1>1, <1>2, <1>3, SeenSame
<1>10. Marks' /\ Dates' /\ Points'
  BY <1>1, <1>2, <1>3, <1>4, <1>5 DEF Marks, Dates, Points
<1>11. Heads'
  BY <1>1, <1>2, <1>4 DEF Heads
<1>12. Logged'
  BY <1>1, <1>2, <1>3, <1>5, <1>6 DEF Logged
<1>13. Ended'
  <2>1. q = <<>> <=> deletedBranches = <<>> /\ resetBranches = <<>>
    BY QueueFacts, Joined
  <2>2. q # <<>> \/ transactions # {}
    BY <1>1, <1>2, <2>1 DEF Ended
  <2>3. QED BY <1>1, <2>2 DEF Ended
<1>14. Progress'
  <2>1. \A b \in Branch : /\ Top(b) = BaseOf(b, Done)
                          /\ (Opened(b) = (Changes(b, Done) # {}))
    BY <1>1, <1>2 DEF Progress
  <2>2. \A b \in Branch : ~ Opened(b) => Top(b) = tips[rev][b]
    <3>1. \A b \in Branch : tips[rev][b] = Called(b, Done)
      BY <1>3, AskedFacts
    <3>2. QED BY <2>1, <3>1 DEF Called
  <2>3. /\ \A b : BaseOf(b, Done)' = BaseOf(b, Done) /\ Changes(b, Done)' = Changes(b, Done)
        /\ \A b : MergedInto(b, Done)' = MergedInto(b, Done) /\ FilesOf(b, Done)' = FilesOf(b, Done)
    BY <1>1, DoneSame
  <2>4. \A b \in Branch : IF Opened(b)' THEN Top(b)' = BaseOf(b, Done)' /\ Changes(b, Done)' # {}
                          ELSE Top(b)' = tips'[rev'][b]
    BY <1>1, <1>5, <2>1, <2>2, <2>3
  <2>5. \A t \in transactions :
          /\ {BlobTable[m] : m \in t.files} = FilesOf(t.branch, Done)
          /\ \A m \in t.files : m > next_file_mark
          /\ t.merges \subseteq 1 .. last_commit_mark
          /\ {MarkTable[m] : m \in t.merges} = MergedInto(t.branch, Done)
    BY <1>2, <1>3 DEF Progress
  <2>6. phase' = "commit" => \A b \in Branch :
            (IF Opened(b) THEN Top(b) = BaseOf(b, Done) /\ Changes(b, Done) # {}
             ELSE Top(b) = tips[rev][b])'
    BY <2>4
  <2>7. ASSUME NEW t \in transactions'
        PROVE  /\ {BlobTable'[m] : m \in t.files} = FilesOf(t.branch, Done)'
               /\ \A m \in t.files : m > next_file_mark'
               /\ t.merges \subseteq 1 .. last_commit_mark'
               /\ {MarkTable'[m] : m \in t.merges} = MergedInto(t.branch, Done)'
    <3>1. t \in transactions /\ next_file_mark' = next_file_mark
          /\ last_commit_mark' = last_commit_mark /\ MarkTable' = MarkTable
          /\ BlobTable' = BlobTable
      BY <1>1, <1>4
    <3>2. /\ FilesOf(t.branch, Done)' = FilesOf(t.branch, Done)
          /\ MergedInto(t.branch, Done)' = MergedInto(t.branch, Done)
      BY <2>3
    <3>3. QED BY ONLY <2>5, <3>1, <3>2
  <2>8. phase' # "idle" /\ phase' # "prepare"
    BY <1>1
  <2>9. QED BY <2>6, <2>7, <2>8 DEF Progress
<1>15. Held'
  BY <1>1, <1>2, <1>3, <1>4, <1>6 DEF Held
<1>16. Queued'
  <2>1. CommandsOK(q) /\ \A i \in 1 .. Len(q) : q[i].branch \in Branch
    BY <1>2, <1>3, QueueFacts, CommandsJoin DEF Queued
  <2>2. PICK p : p = q
    OBVIOUS
  <2>3. CommandsOK(p)'
    BY <1>1, <1>4, <1>5, <2>1, <2>2, CommandsSame
  <2>4. CommandsOK(<<>>)'
    <3>1. Len(<<>>) = 0 /\ 1 .. 0 = {}
      OBVIOUS
    <3>2. QED BY <3>1 DEF CommandsOK
  <2>5. Len(<<>>) = 0 /\ 1 .. 0 = {} /\ queue' = p
    BY <1>1, <2>2
  <2>6. QED BY <1>1, <2>3, <2>4, <2>5 DEF Queued
<1>17. Tagged'
  <2> SUFFICES ASSUME NEW b \in TagBranch, Top(b) # <<>> \/ Opened(b)
               PROVE  b \in annotatedTags'
    BY <1>1, <1>3, <1>4, <1>5 DEF Tagged
  <2>1. b \in Branch /\ b \in annotatedTags
    BY <1>2, <1>3, RepositoryAssumption DEF Tagged
  <2>2. ~ \E i \in DOMAIN deletedBranches : deletedBranches[i].branch = b
    <3> SUFFICES ASSUME NEW i \in DOMAIN deletedBranches, deletedBranches[i].branch = b
                 PROVE  FALSE
      OBVIOUS
    <3>1. i \in 1 .. Len(deletedBranches) /\ deletedBranches[i].to = Null
      BY <1>2, QueueFacts DEF Queued
    <3>2. Deletes(b, Done) # {}
      BY <1>2, <3>1 DEF Queued, CommandsOK
    <3>3. Changes(b, Done) = {} /\ BaseOf(b, Done) = <<>>
      BY <1>3, <2>1, <3>2, BaseFacts, AskedFacts
    <3>4. QED BY <1>1, <1>2, <2>1, <3>3 DEF Progress
  <2>3. QED BY <1>1, <2>1, <2>2
<1>18. Kept'
  <2>1. \A b, r : Removed(b, r)' = Removed(b, r)
    BY <1>1 DEF Removed
  <2>2. ASSUME NEW b \in Branch, NEW r \in 1 .. Len(tips), Removed(b, r),
               r < rev \/ ~ Pending(b)
        PROVE  \E k \in Saves : k.branch = b /\ k.rev = r
    <3>1. CASE r < rev
      BY <1>2, <2>2, <3>1 DEF Kept
    <3>2. CASE ~ (r < rev)
      <4>1. r = rev
        BY <1>3, <3>2, AskedFacts, ReadyTypes
      <4>2. Deletes(b, Done) # {}
        BY <1>3, <2>2, <4>1, RemovedHow DEF Undisturbed
      <4>3. Waiting(deletedBranches, b)
        BY <1>7, <4>2
      <4>4. QED BY <2>2, <3>2, <4>3 DEF Pending
    <3>3. QED BY <3>1, <3>2
  <2>3. QED BY <1>1, <1>2, <1>4, <1>6, <2>1, <2>2 DEF Kept
<1>19. QED
  BY <1>8, <1>9, <1>10, <1>11, <1>12, <1>13, <1>14, <1>15, <1>16, <1>17, <1>18 DEF ExportInv

-----------------------------------------------------------------------------
(* One more operation *)

\* What one more operation adds.
LEMMA CountedNext ==
    ASSUME Ready, Exporting, NEW k \in Nat, k + 1 \in 1 .. Len(Asked), NEW b \in Branch
    PROVE  LET op == Asked[k + 1]
           IN  /\ Copies(b, k + 1) = IF op.branch = b /\ op.kind = "copy"
                                     THEN Copies(b, k) \cup {k + 1} ELSE Copies(b, k)
               /\ Deletes(b, k + 1) = IF op.branch = b /\ op.kind = "delete"
                                      THEN Deletes(b, k) \cup {k + 1} ELSE Deletes(b, k)
               /\ Changes(b, k + 1) = IF op.branch = b /\ op.kind \in {"change", "remove"}
                                      THEN Changes(b, k) \cup {k + 1} ELSE Changes(b, k)
               /\ op.branch = b /\ op.kind = "delete" =>
                     /\ Copies(b, k) = {} /\ Changes(b, k) = {} /\ Deletes(b, k) = {}
                     /\ Prior(b) # <<>>
               /\ op.branch = b /\ op.kind # "delete" => Deletes(b, k) = {}
<1> DEFINE op == Asked[k + 1]
<1>1. AskedOK /\ Len(Asked) \in Nat
  BY AskedFacts
<1>2. \A i \in 1 .. k + 1 : i \in 1 .. k \/ i = k + 1
  OBVIOUS
<1>3. \A i \in 1 .. k : i \in 1 .. k + 1 /\ i # k + 1 /\ i \in 1 .. Len(Asked)
  BY <1>1
<1>4. k + 1 \in 1 .. k + 1
  OBVIOUS
<1>5. \A i \in 1 .. k : Asked[i].branch = op.branch =>
          Asked[i].kind # "delete" /\ op.kind # "delete"
  <2> SUFFICES ASSUME NEW i \in 1 .. k, Asked[i].branch = op.branch
               PROVE  Asked[i].kind # "delete" /\ op.kind # "delete"
    OBVIOUS
  <2>1. i \in 1 .. Len(Asked) /\ i # k + 1 /\ k + 1 \in 1 .. Len(Asked)
    BY <1>3
  <2>2. QED BY <1>1, <2>1 DEF AskedOK
<1>6. op.branch = b /\ op.kind = "delete" => Prior(b) # <<>>
  BY <1>1 DEF AskedOK
<1>7. Copies(b, k + 1) = IF op.branch = b /\ op.kind = "copy"
                         THEN Copies(b, k) \cup {k + 1} ELSE Copies(b, k)
  BY <1>2, <1>3, <1>4 DEF Copies
<1>8. Deletes(b, k + 1) = IF op.branch = b /\ op.kind = "delete"
                          THEN Deletes(b, k) \cup {k + 1} ELSE Deletes(b, k)
  BY <1>2, <1>3, <1>4 DEF Deletes
<1>9. Changes(b, k + 1) = IF op.branch = b /\ op.kind \in {"change", "remove"}
                          THEN Changes(b, k) \cup {k + 1} ELSE Changes(b, k)
  BY <1>2, <1>3, <1>4 DEF Changes
<1>10. op.branch = b /\ op.kind = "delete" =>
           Copies(b, k) = {} /\ Changes(b, k) = {} /\ Deletes(b, k) = {}
  BY <1>5 DEF Copies, Changes, Deletes
<1>11. op.branch = b /\ op.kind # "delete" => Deletes(b, k) = {}
  BY <1>5 DEF Deletes
<1>12. QED BY <1>6, <1>7, <1>8, <1>9, <1>10, <1>11

\* What it changes about where a branch starts, what is merged and what is written.
LEMMA BaseNext ==
    ASSUME Ready, Exporting, NEW k \in Nat, k + 1 \in 1 .. Len(Asked), NEW b \in Branch
    PROVE  LET op == Asked[k + 1]
           IN  /\ op.branch = b /\ op.kind = "copy" => BaseOf(b, k + 1) = Source(k + 1)
               /\ op.branch = b /\ op.kind = "delete" => BaseOf(b, k + 1) = <<>>
               /\ op.branch # b \/ op.kind \in {"change", "remove"} =>
                     BaseOf(b, k + 1) = BaseOf(b, k)
               /\ FilesOf(b, k + 1) = IF op.branch = b /\ op.kind = "change"
                                      THEN {<<b, rev>>} ELSE FilesOf(b, k)
               /\ FilesOf(b, k) \subseteq {<<b, rev>>}
               /\ MergedInto(b, k + 1) =
                     IF op.branch = b /\ op.kind \in {"change", "remove"} /\ op.from # Null
                     THEN MergedInto(b, k) \cup {Source(k + 1)} ELSE MergedInto(b, k)
<1> DEFINE op == Asked[k + 1]
<1>1. /\ Copies(b, k + 1) = IF op.branch = b /\ op.kind = "copy"
                            THEN Copies(b, k) \cup {k + 1} ELSE Copies(b, k)
      /\ Deletes(b, k + 1) = IF op.branch = b /\ op.kind = "delete"
                             THEN Deletes(b, k) \cup {k + 1} ELSE Deletes(b, k)
      /\ Changes(b, k + 1) = IF op.branch = b /\ op.kind \in {"change", "remove"}
                             THEN Changes(b, k) \cup {k + 1} ELSE Changes(b, k)
      /\ op.branch = b /\ op.kind = "delete" =>
            Copies(b, k) = {} /\ Changes(b, k) = {} /\ Deletes(b, k) = {}
  BY CountedNext
<1>2. op.kind \in {"copy", "delete", "change", "remove"}
  BY AskedFacts DEF Operation, Op
<1>3. Copies(b, k) \subseteq 1 .. k /\ Changes(b, k) \subseteq 1 .. k
  BY DEF Copies, Changes
<1>4. ASSUME op.branch = b, op.kind = "copy"
      PROVE  BaseOf(b, k + 1) = Source(k + 1)
  <2> DEFINE S == Copies(b, k + 1)
  <2>1. S = Copies(b, k) \cup {k + 1}
    BY <1>1, <1>4
  <2>2. S \subseteq Int /\ k + 1 \in S /\ \A j \in S : j <= k + 1
    BY <1>3, <2>1
  <2>3. BaseOf(b, k + 1) = Source(CHOOSE i \in S : \A j \in S : j <= i)
    BY <2>2 DEF BaseOf
  <2> HIDE DEF S
  <2>4. (CHOOSE i \in S : \A j \in S : j <= i) = k + 1
    BY <2>2, LatestIs
  <2>5. QED BY <2>3, <2>4
<1>5. op.branch = b /\ op.kind = "delete" => BaseOf(b, k + 1) = <<>>
  BY <1>1 DEF BaseOf
<1>6. op.branch # b \/ op.kind \in {"change", "remove"} => BaseOf(b, k + 1) = BaseOf(b, k)
  <2> SUFFICES ASSUME op.branch # b \/ op.kind \in {"change", "remove"}
               PROVE  BaseOf(b, k + 1) = BaseOf(b, k)
    OBVIOUS
  <2>1. Copies(b, k + 1) = Copies(b, k) /\ Deletes(b, k + 1) = Deletes(b, k)
    BY <1>1
  <2> DEFINE last(S) == CHOOSE i \in S : \A j \in S : j <= i
  <2>2. \A n : BaseOf(b, n) = IF Copies(b, n) # {} THEN Source(last(Copies(b, n)))
                              ELSE IF Deletes(b, n) # {} THEN <<>> ELSE Prior(b)
    BY DEF BaseOf
  <2> HIDE DEF last
  <2>3. QED BY <2>1, <2>2
<1> HIDE DEF op
<1>7. FilesOf(b, k) \subseteq {<<b, rev>>}
  BY DEF FilesOf
<1>8. op = Asked[k + 1]
  BY DEF op
<1>9. FilesOf(b, k + 1) = IF op.branch = b /\ op.kind = "change"
                          THEN {<<b, rev>>} ELSE FilesOf(b, k)
  <2>1. CASE op.branch = b /\ op.kind = "change"
    <3>1. k + 1 \in Changes(b, k + 1) /\ Asked[k + 1].kind = "change"
      BY <1>1, <1>8, <2>1
    <3>2. QED BY <2>1, <3>1 DEF FilesOf
  <2>2. CASE ~ (op.branch = b /\ op.kind = "change")
    <3>1. {j \in Changes(b, k + 1) : Asked[j].kind = "change"}
              = {j \in Changes(b, k) : Asked[j].kind = "change"}
      BY <1>1, <1>8, <2>2
    <3>2. QED BY <2>2, <3>1 DEF FilesOf
  <2>3. QED BY <2>1, <2>2
<1>10. MergedInto(b, k + 1) =
           IF op.branch = b /\ op.kind \in {"change", "remove"} /\ op.from # Null
           THEN MergedInto(b, k) \cup {Source(k + 1)} ELSE MergedInto(b, k)
  <2> DEFINE from(n) == {j \in Changes(b, n) : Asked[j].from # Null}
  <2>1. from(k + 1) = IF op.branch = b /\ op.kind \in {"change", "remove"} /\ op.from # Null
                      THEN from(k) \cup {k + 1} ELSE from(k)
    BY <1>1, <1>8
  <2>2. \A n : MergedInto(b, n) = {Source(i) : i \in from(n)}
    BY DEF MergedInto
  <2> HIDE DEF from
  <2>3. CASE op.branch = b /\ op.kind \in {"change", "remove"} /\ op.from # Null
    <3>1. from(k + 1) = from(k) \cup {k + 1}
      BY <2>1, <2>3
    <3>2. {Source(i) : i \in from(k) \cup {k + 1}} = {Source(i) : i \in from(k)} \cup {Source(k + 1)}
      OBVIOUS
    <3>3. MergedInto(b, k + 1) = MergedInto(b, k) \cup {Source(k + 1)}
      BY <2>2, <3>1, <3>2
    <3>4. QED BY <2>3, <3>3
  <2>4. CASE ~ (op.branch = b /\ op.kind \in {"change", "remove"} /\ op.from # Null)
    <3>1. from(k + 1) = from(k)
      BY <2>1, <2>4
    <3>2. MergedInto(b, k + 1) = MergedInto(b, k)
      BY <2>2, <3>1
    <3>3. QED BY <2>4, <3>2
  <2>5. QED BY <2>3, <2>4
<1>11. QED BY <1>4, <1>5, <1>6, <1>7, <1>8, <1>9, <1>10

\* One operation is done.
LEMMA NextDone ==
    ASSUME Ready, phase = "prepare", phase' = "prepare", todo # <<>>, todo' = Tail(todo),
           UNCHANGED <<svn, tips, rev>>
    PROVE  /\ Done \in Nat /\ Done + 1 \in 1 .. Len(Asked) /\ Head(todo) = Asked[Done + 1]
           /\ Head(todo) \in Operation /\ Head(todo).branch \in Branch
           /\ Asked' = Asked /\ Done' = Done + 1 /\ Seen'
<1>1. /\ Exporting /\ Exporting' /\ Active /\ Seen
  BY ReadyFacts DEF Exporting, Active
<1>2. /\ AskedOK /\ TodoOK /\ Len(Asked) \in Nat /\ todo \in Seq(Operation) /\ Len(todo) \in Nat
      /\ Done \in 0 .. Len(Asked)
      /\ \A i \in 1 .. Len(Asked) : Asked[i] \in Operation /\ Asked[i].branch \in Branch
  BY <1>1, AskedFacts
<1>3. /\ Len(todo) # 0 /\ Head(todo) = todo[1] /\ Len(todo') = Len(todo) - 1
      /\ \A i \in 1 .. Len(todo') : todo'[i] = todo[i + 1]
  BY <1>2
<1>4. Asked' = Asked
  BY AskedSame
<1>5. Done' = Done + 1 /\ Done \in Nat /\ Done + 1 \in 1 .. Len(Asked)
  BY <1>2, <1>3, <1>4 DEF Done
<1>6. Head(todo) = Asked[Done + 1]
  BY <1>2, <1>3 DEF TodoOK
<1>7. AskedOK'
  BY <1>2, <1>4, AskedSame DEF AskedOK, Source
<1>8. TodoOK'
  <2>1. \A i \in 1 .. Len(todo') : todo'[i] = Asked[Done + 1 + i]
    <3> SUFFICES ASSUME NEW i \in 1 .. Len(todo') PROVE todo'[i] = Asked[Done + 1 + i]
      OBVIOUS
    <3>1. i + 1 \in 1 .. Len(todo) /\ todo'[i] = todo[i + 1] /\ Done + (i + 1) = Done + 1 + i
      BY <1>2, <1>3, <1>5
    <3>2. todo[i + 1] = Asked[Done + (i + 1)]
      BY <1>2, <3>1 DEF TodoOK
    <3>3. QED BY <3>1, <3>2
  <2>2. Len(todo') <= Len(Asked)
    <3>1. Len(todo) <= Len(Asked)
      BY <1>2 DEF TodoOK
    <3>2. QED BY ONLY <1>2, <1>3, <3>1
  <2>3. QED BY <1>4, <1>5, <2>1, <2>2 DEF TodoOK
<1>9. \A b : Called(b, Len(Asked))' = Called(b, Len(Asked))
  <2>1. PICK n : n = Len(Asked)
    OBVIOUS
  <2>2. n = Len(Asked')
    BY <1>4, <2>1
  <2>3. \A b : Called(b, n)' = Called(b, n)
    BY AskedSame
  <2>4. QED BY <2>1, <2>2, <2>3
<1>10. Seen'
  BY <1>1, <1>7, <1>8, <1>9 DEF Seen
<1>11. QED BY <1>2, <1>4, <1>5, <1>6, <1>10

-----------------------------------------------------------------------------
(* One more command *)

\* A command appended to others.
LEMMA CommandAppend ==
    ASSUME NEW S, NEW q \in Seq(S), NEW cmd \in S, CommandsOK(q),
           \A i \in 1 .. Len(q) :
               /\ Names(q[i].branch)' = Names(q[i].branch)
               /\ Prior(q[i].branch)' = Prior(q[i].branch)
               /\ q[i].branch # cmd.branch => LastMark(q[i].branch)' = LastMark(q[i].branch)
               /\ Copies(q[i].branch, Done) # {} => Copies(q[i].branch, Done)' # {}
               /\ Deletes(q[i].branch, Done) # {} => Deletes(q[i].branch, Done)' # {}
               /\ q[i].to = Null => q[i].branch # cmd.branch,
           (cmd.to = Null) = (cmd.mark = 0),
           cmd.mark = LastMark(cmd.branch)',
           cmd.backup => Names(cmd.branch)' \notin {Null, <<>>},
           cmd.to # Null => Copies(cmd.branch, Done)' # {},
           cmd.to = Null => /\ cmd.backup /\ Names(cmd.branch)' = Prior(cmd.branch)'
                            /\ Deletes(cmd.branch, Done)' # {}
                            /\ \A i \in 1 .. Len(q) : q[i].branch # cmd.branch
    PROVE  CommandsOK(Append(q, cmd))'
<1> DEFINE p == Append(q, cmd)
<1>1. /\ Len(q) \in Nat /\ Len(p) = Len(q) + 1
      /\ \A i \in 1 .. Len(q) : p[i] = q[i]
      /\ p[Len(q) + 1] = cmd
  BY AppendFacts
<1> HIDE DEF p
<1>2. \A i \in 1 .. Len(p) : i \in 1 .. Len(q) \/ i = Len(p)
  BY <1>1
<1>3. ASSUME NEW i \in 1 .. Len(q)
      PROVE  /\ (p[i].to = Null) = (p[i].mark = 0)
             /\ (\A j \in i + 1 .. Len(p) : p[j].branch # p[i].branch) =>
                   p[i].mark = LastMark(p[i].branch)'
             /\ p[i].backup => Names(p[i].branch)' \notin {Null, <<>>}
             /\ p[i].to # Null => Copies(p[i].branch, Done)' # {}
             /\ p[i].to = Null => /\ p[i].backup /\ Names(p[i].branch)' = Prior(p[i].branch)'
                             /\ Deletes(p[i].branch, Done)' # {}
                             /\ \A j \in 1 .. Len(p) : p[j].branch = p[i].branch => j = i
  <2> DEFINE b == q[i].branch
  <2>1. /\ (q[i].to = Null) = (q[i].mark = 0)
        /\ (\A j \in i + 1 .. Len(q) : q[j].branch # b) => q[i].mark = LastMark(b)
        /\ q[i].backup => Names(b) \notin {Null, <<>>}
        /\ q[i].to # Null => Copies(b, Done) # {}
        /\ q[i].to = Null => /\ q[i].backup /\ Names(b) = Prior(b)
                             /\ Deletes(b, Done) # {}
                             /\ \A j \in 1 .. Len(q) : q[j].branch = b => j = i
    BY DEF CommandsOK
  <2>2. /\ Names(b)' = Names(b) /\ Prior(b)' = Prior(b)
        /\ b # cmd.branch => LastMark(b)' = LastMark(b)
        /\ Copies(b, Done) # {} => Copies(b, Done)' # {}
        /\ Deletes(b, Done) # {} => Deletes(b, Done)' # {}
        /\ q[i].to = Null => b # cmd.branch
    OBVIOUS
  <2>3. p[i] = q[i]
    BY <1>1
  <2> HIDE DEF b
  <2>4. (\A j \in i + 1 .. Len(p) : p[j].branch # b) => q[i].mark = LastMark(b)'
    <3> SUFFICES ASSUME \A j \in i + 1 .. Len(p) : p[j].branch # b
                 PROVE  q[i].mark = LastMark(b)'
      OBVIOUS
    <3>1. Len(p) \in i + 1 .. Len(p) /\ p[Len(p)] = cmd
      BY <1>1
    <3>2. b # cmd.branch
      BY <3>1
    <3>3. \A j \in i + 1 .. Len(q) : j \in i + 1 .. Len(p) /\ p[j] = q[j]
      BY <1>1
    <3>4. QED BY <2>1, <2>2, <3>2, <3>3
  <2>5. q[i].to = Null => \A j \in 1 .. Len(p) : p[j].branch = b => j = i
    <3> SUFFICES ASSUME q[i].to = Null, NEW j \in 1 .. Len(p), p[j].branch = b
                 PROVE  j = i
      OBVIOUS
    <3>1. CASE j \in 1 .. Len(q)
      BY <1>1, <2>1, <3>1
    <3>2. CASE j = Len(p)
      BY <1>1, <2>2, <3>2
    <3>3. QED BY <1>2, <3>1, <3>2
  <2>6. QED BY <2>1, <2>2, <2>3, <2>4, <2>5 DEF b
<1>4. LET i == Len(p)
      IN  /\ (p[i].to = Null) = (p[i].mark = 0)
          /\ p[i].mark = LastMark(p[i].branch)'
          /\ p[i].backup => Names(p[i].branch)' \notin {Null, <<>>}
          /\ p[i].to # Null => Copies(p[i].branch, Done)' # {}
          /\ p[i].to = Null => /\ p[i].backup /\ Names(p[i].branch)' = Prior(p[i].branch)'
                             /\ Deletes(p[i].branch, Done)' # {}
                             /\ \A j \in 1 .. Len(p) : p[j].branch = p[i].branch => j = i
  <2>1. p[Len(p)] = cmd
    BY <1>1
  <2>2. cmd.to = Null => \A j \in 1 .. Len(p) : p[j].branch = cmd.branch => j = Len(p)
    BY <1>1, <1>2
  <2>3. QED BY <2>1, <2>2
<1>5. CommandsOK(p)'
  BY <1>2, <1>3, <1>4 DEF CommandsOK
<1>6. QED BY <1>5 DEF p

\* Commands of other branches.
LEMMA CommandsKept ==
    ASSUME NEW q, CommandsOK(q),
           \A i \in 1 .. Len(q) :
               /\ Names(q[i].branch)' = Names(q[i].branch)
               /\ Prior(q[i].branch)' = Prior(q[i].branch)
               /\ LastMark(q[i].branch)' = LastMark(q[i].branch)
               /\ Copies(q[i].branch, Done) # {} => Copies(q[i].branch, Done)' # {}
               /\ Deletes(q[i].branch, Done) # {} => Deletes(q[i].branch, Done)' # {}
    PROVE  CommandsOK(q)'
<1> SUFFICES ASSUME NEW i \in 1 .. Len(q)
             PROVE  LET b == q[i].branch IN
        /\ (q[i].to = Null) = (q[i].mark = 0)
        /\ (\A j \in i + 1 .. Len(q) : q[j].branch # b) => q[i].mark = LastMark(b)'
        /\ q[i].backup => Names(b)' \notin {Null, <<>>}
        /\ q[i].to # Null => Copies(b, Done)' # {}
        /\ q[i].to = Null => /\ q[i].backup /\ Names(b)' = Prior(b)'
                             /\ Deletes(b, Done)' # {}
                             /\ \A j \in 1 .. Len(q) : q[j].branch = b => j = i
  BY DEF CommandsOK
<1> DEFINE b == q[i].branch
<1>1. /\ (q[i].to = Null) = (q[i].mark = 0)
      /\ (\A j \in i + 1 .. Len(q) : q[j].branch # b) => q[i].mark = LastMark(b)
      /\ q[i].backup => Names(b) \notin {Null, <<>>}
      /\ q[i].to # Null => Copies(b, Done) # {}
      /\ q[i].to = Null => /\ q[i].backup /\ Names(b) = Prior(b)
                           /\ Deletes(b, Done) # {}
                           /\ \A j \in 1 .. Len(q) : q[j].branch = b => j = i
  BY DEF CommandsOK
<1>2. /\ Names(b)' = Names(b) /\ Prior(b)' = Prior(b) /\ LastMark(b)' = LastMark(b)
      /\ Copies(b, Done) # {} => Copies(b, Done)' # {}
      /\ Deletes(b, Done) # {} => Deletes(b, Done)' # {}
  OBVIOUS
<1> HIDE DEF b
<1>3. QED BY <1>1, <1>2 DEF b

\* A branch is read by its commits and marks alone.
LEMMA EntryMarkSame ==
    ASSUME NEW x, NEW y, x.marks = y.marks, x.commits = y.commits, NEW at
    PROVE  EntryMark(x, at) = EntryMark(y, at)
BY DEF EntryMark

\* What a reset makes of the branches.
LEMMA ResetTops ==
    ASSUME Ready, phase = "prepare", NEW b \in Branch, NEW mark \in Mark,
           NEW brs \in [Branch -> Entry],
           \A c \in Branch : /\ brs[c].marks = branches[c].marks
                             /\ brs[c].commits = branches[c].commits
                             /\ brs[c].created = branches[c].created,
           branches' = [brs EXCEPT ![b] = Extended(brs[b], rev, mark, rev)],
           MarkTable' = MarkTable
    PROVE  /\ LastMark(b)' = mark /\ Top(b)' = Value(mark)
           /\ branches'[b].created = rev
           /\ \A c \in Branch : c # b =>
                 /\ LastMark(c)' = LastMark(c) /\ Top(c)' = Top(c)
                 /\ branches'[c].created = branches[c].created
           /\ \A c \in Branch : branches'[c].commits # <<>> => branches'[c].created # 0
           /\ \A c \in Branch : \A i \in 1 .. Len(branches'[c].marks) :
                 branches'[c].commits[i] <= rev
           /\ \A c \in Branch, r \in 1 .. rev - 1 :
                 EntryMark(branches'[c], r) = EntryMark(branches[c], r)
<1> DEFINE x == Extended(brs[b], rev, mark, rev)
<1>1. rev \in Nat /\ rev # 0 /\ Dates /\ (\A m : Value(m)' = Value(m))
  BY ReadyFacts, ReadyTypes DEF Value
<1>2. branches'[b] = x /\ \A c \in Branch : c # b => branches'[c] = brs[c]
  OBVIOUS
<1>3. /\ LastOf(x.marks) = mark /\ x.created = rev
      /\ \A at \in Int : EntryMark(x, at) = IF rev <= at THEN mark ELSE EntryMark(brs[b], at)
  BY <1>1, EntryExtended
<1>4. /\ Len(brs[b].marks) \in Nat /\ Len(brs[b].commits) = Len(brs[b].marks)
      /\ brs[b].commits \in Seq(Nat) /\ brs[b].marks \in Seq(Mark)
  BY DEF Entry
<1>5. \A c \in Branch : \A at : EntryMark(brs[c], at) = EntryMark(branches[c], at)
  BY EntryMarkSame
<1>6. x.marks = Append(brs[b].marks, mark) /\ x.commits = Append(brs[b].commits, rev)
  BY DEF Extended
<1> HIDE DEF x
<1>7. \A i \in 1 .. Len(x.marks) : x.commits[i] <= rev
  <2>1. \A i \in 1 .. Len(brs[b].marks) : brs[b].commits[i] <= rev
    BY <1>1 DEF Dates
  <2>2. \A i \in 1 .. Len(x.marks) :
            i \in 1 .. Len(brs[b].marks) \/ i = Len(brs[b].commits) + 1
    BY <1>4, <1>6
  <2>3. /\ \A i \in 1 .. Len(brs[b].marks) : x.commits[i] = brs[b].commits[i]
        /\ x.commits[Len(brs[b].commits) + 1] = rev
    BY <1>1, <1>4, <1>6, AppendFacts
  <2>4. QED BY <1>1, <2>1, <2>2, <2>3
<1>8. /\ LastMark(b)' = mark /\ Top(b)' = Value(mark)
  BY <1>1, <1>2, <1>3 DEF LastMark, Top, Value
<1>9. \A c \in Branch : c # b =>
          /\ LastMark(c)' = LastMark(c) /\ Top(c)' = Top(c)
          /\ branches'[c].created = branches[c].created
  BY <1>1, <1>2 DEF LastMark, Top, Value
<1>10. \A c \in Branch : branches'[c].commits # <<>> => branches'[c].created # 0
  BY <1>1, <1>2, <1>3 DEF Dates
<1>11. \A c \in Branch : \A i \in 1 .. Len(branches'[c].marks) : branches'[c].commits[i] <= rev
  BY <1>1, <1>2, <1>7 DEF Dates
<1>12. ASSUME NEW c \in Branch, NEW r \in 1 .. rev - 1
       PROVE  EntryMark(branches'[c], r) = EntryMark(branches[c], r)
  <2>1. CASE c = b
    <3>1. r \in Int /\ ~ (rev <= r)
      BY <1>1
    <3>2. QED BY <1>2, <1>3, <1>5, <2>1, <3>1
  <2>2. CASE c # b
    BY <1>2, <1>5, <2>2
  <2>3. QED BY <2>1, <2>2
<1>13. QED BY <1>2, <1>3, <1>8, <1>9, <1>10, <1>11, <1>12

\* A branch with commits is in git under its name.
LEMMA NamedBy ==
    ASSUME NullIsNoHistory, Ready, NEW b \in Branch, Active, ~ Pending(b), Top(b) # <<>>
    PROVE  Names(b) = Top(b) /\ Names(b) \notin {Null, <<>>}
<1>1. Top(b) \in History /\ Top(b) # Null
  BY ReadyFacts, TopFacts DEF NullIsNoHistory
<1>2. Holds(b, Top(b))
  BY ReadyFacts DEF Held
<1>3. QED BY <1>1, <1>2 DEF Holds, HoldsRunning, HoldsStored, Names, Git!RefTip

\* A branch is deleted or started somewhere else.
LEMMA ExportReset ==
    ASSUME Undisturbed, Ready, phase = "prepare", phase' = "prepare",
           todo # <<>>, todo' = Tail(todo),
           NEW b \in Branch, b = Head(todo).branch,
           NEW mark \in Mark, NEW to \in Branch \cup {Null}, NEW brs \in [Branch -> Entry],
           \A c \in Branch : /\ brs[c].marks = branches[c].marks
                             /\ brs[c].commits = branches[c].commits
                             /\ brs[c].created = branches[c].created,
           ResetBranch(b, mark, to, brs),
           to = Null => mark = 0 /\ Head(todo).kind = "delete" /\ annotatedTags' = annotatedTags,
           to # Null => /\ mark # 0 /\ Head(todo).kind = "copy"
                        /\ Value(mark) = Source(Done + 1) /\ annotatedTags' = Annotated(b),
           UNCHANGED <<last_commit_mark, next_file_mark, transactions, processHasStarted, rev,
                       queue, fi, disk, log, tagsFile, svn, tips, pos>>
    PROVE  ExportInv'
<1>1. /\ Calm /\ Seen /\ Marks /\ Heads /\ Dates /\ Points /\ Logged /\ Ended
      /\ Progress /\ Held /\ Queued /\ Tagged /\ Kept
      /\ IInv /\ UsedMarks /\ StoreOK
  BY ReadyFacts
<1>2. /\ queue = <<>> /\ queue' = <<>> /\ Exporting /\ Exporting' /\ Active /\ Active'
      /\ rev \in Nat /\ rev # 0 /\ ~ fi.dead
  BY ReadyTypes DEF Exporting, Active
<1>3. PICK op : op = Head(todo)
  OBVIOUS
<1>4. PICK k : k = Done
  OBVIOUS
<1>5. /\ k \in Nat /\ k + 1 \in 1 .. Len(Asked) /\ op = Asked[k + 1] /\ op \in Operation
      /\ op.branch = b /\ Asked' = Asked /\ Done' = k + 1 /\ Seen'
      /\ op.kind \in {"copy", "delete"}
      /\ k \in 0 .. Len(Asked) /\ k + 1 \in 0 .. Len(Asked)
  <2>1. /\ k \in Nat /\ k + 1 \in 1 .. Len(Asked) /\ op = Asked[k + 1] /\ op \in Operation
        /\ Asked' = Asked /\ Done' = k + 1 /\ Seen'
    BY <1>3, <1>4, NextDone
  <2>2. Len(Asked) \in Nat /\ op.branch = b /\ op.kind \in {"copy", "delete"}
    BY <1>2, <1>3, AskedFacts
  <2>3. QED BY <2>1, <2>2
<1>6. /\ MarkTable' = MarkTable /\ BlobTable' = BlobTable /\ Saves' = Saves
      /\ \A m : Value(m)' = Value(m)
      /\ \A c, h : Holds(c, h)' = Holds(c, h)
      /\ \A c : Names(c)' = Names(c)
  BY StoreSame
<1> DEFINE cmd == [branch |-> b, rev |-> rev, mark |-> mark, to |-> to,
                   backup |-> NeedsBackup(brs[b])]
<1>7. /\ branches' = [brs EXCEPT ![b] = Extended(brs[b], rev, mark, rev)]
      /\ to = Null => deletedBranches' = Append(deletedBranches, cmd)
                      /\ resetBranches' = resetBranches
      /\ to # Null => resetBranches' = Append(resetBranches, cmd)
                      /\ deletedBranches' = deletedBranches
  BY DEF ResetBranch
<1>8. /\ cmd \in Command(rev) /\ cmd.branch = b /\ cmd.mark = mark /\ cmd.to = to
      /\ cmd.backup = NeedsBackup(brs[b])
  BY DEF Command, NeedsBackup
<1> HIDE DEF cmd
<1>9. /\ LastMark(b)' = mark /\ Top(b)' = Value(mark)
      /\ branches'[b].created = rev
      /\ \A c \in Branch : c # b =>
            /\ LastMark(c)' = LastMark(c) /\ Top(c)' = Top(c)
            /\ branches'[c].created = branches[c].created
      /\ \A c \in Branch : branches'[c].commits # <<>> => branches'[c].created # 0
      /\ \A c \in Branch : \A i \in 1 .. Len(branches'[c].marks) :
            branches'[c].commits[i] <= rev
      /\ \A c \in Branch, r \in 1 .. rev - 1 :
            EntryMark(branches'[c], r) = EntryMark(branches[c], r)
  <2>1. phase = "prepare" /\ b \in Branch /\ mark \in Mark /\ brs \in [Branch -> Entry]
    OBVIOUS
  <2>2. \A c \in Branch : /\ brs[c].marks = branches[c].marks
                          /\ brs[c].commits = branches[c].commits
                          /\ brs[c].created = branches[c].created
    OBVIOUS
  <2>3. Ready /\ branches' = [brs EXCEPT ![b] = Extended(brs[b], rev, mark, rev)]
        /\ MarkTable' = MarkTable
    BY <1>6, <1>7
  <2>4. QED BY ONLY <2>1, <2>2, <2>3, ResetTops
<1>10. /\ deletedBranches \in Seq(Command(rev)) /\ resetBranches \in Seq(Command(rev))
       /\ CommandsOK(deletedBranches) /\ CommandsOK(resetBranches)
       /\ Len(deletedBranches) \in Nat /\ Len(resetBranches) \in Nat
       /\ \A i \in 1 .. Len(deletedBranches) : deletedBranches[i].branch \in Branch
                                               /\ deletedBranches[i].to = Null
       /\ \A i \in 1 .. Len(resetBranches) : resetBranches[i].branch \in Branch
                                               /\ resetBranches[i].to # Null
  BY <1>1, QueueFacts DEF Queued
<1>added. /\ to = Null =>
                /\ Len(deletedBranches') = Len(deletedBranches) + 1
                /\ resetBranches' = resetBranches
                /\ \A i \in 1 .. Len(deletedBranches) : deletedBranches'[i] = deletedBranches[i]
                /\ deletedBranches'[Len(deletedBranches) + 1] = cmd
          /\ to # Null =>
                /\ Len(resetBranches') = Len(resetBranches) + 1
                /\ deletedBranches' = deletedBranches
                /\ \A i \in 1 .. Len(resetBranches) : resetBranches'[i] = resetBranches[i]
                /\ resetBranches'[Len(resetBranches) + 1] = cmd
  <2>1. PICK S : S = Command(rev)
    OBVIOUS
  <2>2. deletedBranches \in Seq(S) /\ resetBranches \in Seq(S) /\ cmd \in S
    BY <1>8, <1>10, <2>1
  <2>3. \A q \in Seq(S) : /\ Len(Append(q, cmd)) = Len(q) + 1
                          /\ \A i \in 1 .. Len(q) : Append(q, cmd)[i] = q[i]
                          /\ Append(q, cmd)[Len(q) + 1] = cmd
    BY ONLY <2>2, AppendFacts
  <2>4. QED BY ONLY <1>7, <2>2, <2>3
<1>11. \A c \in Branch :
          /\ c # b => /\ Waiting(deletedBranches, c)' <=> Waiting(deletedBranches, c)
                      /\ Waiting(resetBranches, c)' <=> Waiting(resetBranches, c)
          /\ to = Null => Waiting(deletedBranches, b)'
          /\ Waiting(deletedBranches, c) => Waiting(deletedBranches, c)'
          /\ Pending(b)'
  <2>1. CASE to = Null
    <3>1. /\ Len(deletedBranches') = Len(deletedBranches) + 1 /\ resetBranches' = resetBranches
          /\ \A i \in 1 .. Len(deletedBranches) : deletedBranches'[i] = deletedBranches[i]
          /\ deletedBranches'[Len(deletedBranches) + 1] = cmd
      BY <1>added, <2>1
    <3>2. \A i \in 1 .. Len(deletedBranches') :
              i \in 1 .. Len(deletedBranches) \/ i = Len(deletedBranches) + 1
      BY <1>10, <3>1
    <3>3. Waiting(deletedBranches, b)'
      BY <1>8, <1>10, <3>1 DEF Waiting
    <3>4. ASSUME NEW c \in Branch, c # b
          PROVE  /\ Waiting(deletedBranches, c)' <=> Waiting(deletedBranches, c)
                 /\ Waiting(resetBranches, c)' <=> Waiting(resetBranches, c)
      <4>1. Waiting(resetBranches, c)' <=> Waiting(resetBranches, c)
        BY <3>1 DEF Waiting
      <4>2. Waiting(deletedBranches, c) => Waiting(deletedBranches, c)'
        BY <1>10, <3>1 DEF Waiting
      <4>3. Waiting(deletedBranches, c)' => Waiting(deletedBranches, c)
        BY <1>8, <1>10, <3>1, <3>2, <3>4 DEF Waiting
      <4>4. QED BY <4>1, <4>2, <4>3
    <3>5. \A c \in Branch : Waiting(deletedBranches, c) => Waiting(deletedBranches, c)'
      BY <3>3, <3>4
    <3>6. QED BY <3>3, <3>4, <3>5 DEF Pending
  <2>2. CASE to # Null
    <3>1. /\ Len(resetBranches') = Len(resetBranches) + 1 /\ deletedBranches' = deletedBranches
          /\ \A i \in 1 .. Len(resetBranches) : resetBranches'[i] = resetBranches[i]
          /\ resetBranches'[Len(resetBranches) + 1] = cmd
      BY <1>added, <2>2
    <3>2. \A i \in 1 .. Len(resetBranches') :
              i \in 1 .. Len(resetBranches) \/ i = Len(resetBranches) + 1
      BY <1>10, <3>1
    <3>3. Waiting(resetBranches, b)'
      BY <1>8, <1>10, <3>1 DEF Waiting
    <3>4. ASSUME NEW c \in Branch, c # b
          PROVE  /\ Waiting(deletedBranches, c)' <=> Waiting(deletedBranches, c)
                 /\ Waiting(resetBranches, c)' <=> Waiting(resetBranches, c)
      <4>1. Waiting(deletedBranches, c)' <=> Waiting(deletedBranches, c)
        BY <3>1 DEF Waiting
      <4>2. Waiting(resetBranches, c) => Waiting(resetBranches, c)'
        BY <1>10, <3>1 DEF Waiting
      <4>3. Waiting(resetBranches, c)' => Waiting(resetBranches, c)
        BY <1>8, <1>10, <3>1, <3>2, <3>4 DEF Waiting
      <4>4. QED BY <4>1, <4>2, <4>3
    <3>5. \A c \in Branch : Waiting(deletedBranches, c) => Waiting(deletedBranches, c)'
      BY <3>1 DEF Waiting
    <3>6. QED BY <2>2, <3>3, <3>4, <3>5 DEF Pending
  <2>3. QED BY <2>1, <2>2
<1>12. \A c \in Branch : c # b => (Pending(c)' <=> Pending(c))
  BY <1>2, <1>11 DEF Pending, Waiting
<1>13. /\ \A c : Prior(c)' = Prior(c)
       /\ \A c \in Branch :
             /\ Copies(c, Done)' = Copies(c, k + 1) /\ Deletes(c, Done)' = Deletes(c, k + 1)
             /\ Changes(c, Done)' = Changes(c, k + 1)
             /\ BaseOf(c, Done)' = BaseOf(c, k + 1)
             /\ MergedInto(c, Done)' = MergedInto(c, k + 1)
             /\ FilesOf(c, Done)' = FilesOf(c, k + 1)
  <2>1. PICK n : n = k + 1
    OBVIOUS
  <2>2. Done' = n
    BY <1>5, <2>1
  <2>3. \A c : /\ Copies(c, n)' = Copies(c, n) /\ Deletes(c, n)' = Deletes(c, n)
               /\ Changes(c, n)' = Changes(c, n)
               /\ BaseOf(c, n)' = BaseOf(c, n)
               /\ MergedInto(c, n)' = MergedInto(c, n)
               /\ FilesOf(c, n)' = FilesOf(c, n)
    BY AskedSame
  <2>4. QED BY <2>1, <2>2, <2>3, AskedSame
<1>14. \A c \in Branch :
          /\ Copies(c, k + 1) = IF c = b /\ to # Null
                                THEN Copies(c, k) \cup {k + 1} ELSE Copies(c, k)
          /\ Deletes(c, k + 1) = IF c = b /\ to = Null
                                 THEN Deletes(c, k) \cup {k + 1} ELSE Deletes(c, k)
          /\ Changes(c, k + 1) = Changes(c, k)
          /\ MergedInto(c, k + 1) = MergedInto(c, k) /\ FilesOf(c, k + 1) = FilesOf(c, k)
  <2>1. /\ op.kind \in {"copy", "delete"} /\ op.branch = b
        /\ (op.kind = "copy") = (to # Null) /\ (op.kind = "delete") = (to = Null)
    BY <1>3, <1>5
  <2>2. ASSUME NEW c \in Branch
        PROVE  /\ Copies(c, k + 1) = IF op.branch = c /\ op.kind = "copy"
                                     THEN Copies(c, k) \cup {k + 1} ELSE Copies(c, k)
               /\ Deletes(c, k + 1) = IF op.branch = c /\ op.kind = "delete"
                                      THEN Deletes(c, k) \cup {k + 1} ELSE Deletes(c, k)
               /\ Changes(c, k + 1) = IF op.branch = c /\ op.kind \in {"change", "remove"}
                                      THEN Changes(c, k) \cup {k + 1} ELSE Changes(c, k)
    BY <1>2, <1>5, CountedNext
  <2>3. ASSUME NEW c \in Branch
        PROVE  /\ FilesOf(c, k + 1) = IF op.branch = c /\ op.kind = "change"
                                      THEN {<<c, rev>>} ELSE FilesOf(c, k)
               /\ MergedInto(c, k + 1) =
                     IF op.branch = c /\ op.kind \in {"change", "remove"} /\ op.from # Null
                     THEN MergedInto(c, k) \cup {Source(k + 1)} ELSE MergedInto(c, k)
    BY <1>2, <1>5, BaseNext
  <2>4. QED BY ONLY <2>1, <2>2, <2>3
<1>15. /\ Deletes(b, k) = {}
       /\ to = Null => Copies(b, k) = {} /\ Changes(b, k) = {} /\ Prior(b) # <<>>
       /\ BaseOf(b, k + 1) = Value(mark)
       /\ \A c \in Branch : c # b => BaseOf(c, k + 1) = BaseOf(c, k)
  <2>1. \A c \in Branch :
            /\ op.branch = c /\ op.kind = "copy" => BaseOf(c, k + 1) = Source(k + 1)
            /\ op.branch = c /\ op.kind = "delete" => BaseOf(c, k + 1) = <<>>
            /\ op.branch # c => BaseOf(c, k + 1) = BaseOf(c, k)
    BY <1>2, <1>5, BaseNext
  <2>2. /\ op.branch = b /\ op.kind = "delete" =>
              /\ Copies(b, k) = {} /\ Changes(b, k) = {} /\ Deletes(b, k) = {}
              /\ Prior(b) # <<>>
        /\ op.branch = b /\ op.kind # "delete" => Deletes(b, k) = {}
    BY <1>2, <1>5, CountedNext
  <2>3. BaseOf(b, k + 1) = Value(mark)
    <3>1. CASE to = Null
      BY <1>3, <1>5, <2>1, <3>1 DEF Value
    <3>2. CASE to # Null
      BY <1>3, <1>4, <1>5, <2>1, <3>2
    <3>3. QED BY <3>1, <3>2
  <2>4. QED BY <1>3, <1>5, <2>1, <2>2, <2>3
<1>16. ASSUME NeedsBackup(brs[b])
       PROVE  ~ Pending(b) /\ Top(b) # <<>> /\ Names(b) \notin {Null, <<>>}
  <2>1. LastMark(b) # 0 /\ branches[b].created # rev
    BY <1>16 DEF NeedsBackup, HasTip, LastMark
  <2>2. ~ Pending(b)
    BY <1>1, <2>1 DEF Dates
  <2>3. Top(b) # <<>>
    BY <1>1, <2>1, TopFacts
  <2>4. QED BY <1>2, <2>2, <2>3, NamedBy DEF Undisturbed
<1>17. ASSUME to = Null
       PROVE  NeedsBackup(brs[b]) /\ Names(b) = Prior(b)
  <2>1. Top(b) = BaseOf(b, k) /\ BaseOf(b, k) = Prior(b) /\ Prior(b) # <<>>
    BY <1>1, <1>2, <1>4, <1>5, <1>15, <1>17, BaseFacts DEF Progress
  <2>2. ~ Waiting(deletedBranches, b) /\ ~ Waiting(resetBranches, b)
    <3>1. \A i \in 1 .. Len(deletedBranches) : Deletes(deletedBranches[i].branch, k) # {}
      BY <1>4, <1>10 DEF CommandsOK
    <3>2. \A i \in 1 .. Len(resetBranches) : Copies(resetBranches[i].branch, k) # {}
      BY <1>4, <1>10 DEF CommandsOK
    <3>3. QED BY <1>15, <1>17, <3>1, <3>2 DEF Waiting
  <2>3. ~ Pending(b)
    <3>1. 1 .. Len(<<>>) = {}
      OBVIOUS
    <3>2. QED BY <1>2, <2>2, <3>1 DEF Pending, Waiting
  <2>4. Names(b) = Prior(b)
    BY <1>2, <2>1, <2>3, NamedBy DEF Undisturbed
  <2>5. LastMark(b) # 0
    BY <1>1, <2>1, TopFacts
  <2>6. branches[b].created < rev /\ branches[b].commits # <<>> => branches[b].created # 0
    BY <1>1, <2>3, <2>5 DEF Dates
  <2>7. branches[b].commits # <<>>
    <3>1. branches[b].marks # <<>> /\ branches[b] \in Entry
      BY <2>5, ReadyTypes DEF LastMark, LastOf
    <3>2. Len(branches[b].commits) # 0
      BY <3>1 DEF Entry
    <3>3. QED BY <3>2
  <2>8. branches[b].created \in Nat
    BY ReadyTypes DEF Entry
  <2>9. brs[b].created # 0 /\ brs[b].created # rev /\ LastOf(brs[b].marks) # 0
    BY <1>1, <1>2, <2>3, <2>5, <2>7, <2>8 DEF LastMark, Dates
  <2>10. QED BY <2>4, <2>9 DEF NeedsBackup, HasTip
<1>18. Calm' /\ Marks' /\ Heads'
  BY <1>1, <1>2, <1>6 DEF Calm, Marks, Heads, LinesRead
<1>19. Dates'
  <2>1. \A c \in Branch : c # b =>
            /\ LastMark(c)' # 0 => branches'[c].created <= rev
            /\ IF Pending(c)' THEN branches'[c].created = rev
               ELSE LastMark(c)' # 0 => branches'[c].created < rev
    BY <1>1, <1>9, <1>12 DEF Dates
  <2>2. branches'[b].created <= rev /\ branches'[b].created = rev /\ Pending(b)'
    BY <1>2, <1>9, <1>11
  <2>3. QED BY <1>9, <2>1, <2>2 DEF Dates
<1>20. Points'
  BY <1>1, <1>2, <1>6, <1>9 DEF Points
<1>21. Logged'
  BY <1>1, <1>2, <1>6, <1>9, <1>11, <1>12 DEF Logged
<1>22. Ended'
  <2>1. deletedBranches' # <<>> \/ resetBranches' # <<>>
    BY <1>7, <1>8, <1>10, AppendFacts
  <2>2. QED BY <2>1 DEF Ended
<1>23. Progress'
  <2>1. \A c \in Branch : Top(c)' = BaseOf(c, Done)'
    BY <1>1, <1>4, <1>9, <1>13, <1>15 DEF Progress
  <2>2. \A c \in Branch : Opened(c)' = (Changes(c, Done)' # {})
    <3>1. \A c : Opened(c)' = Opened(c)
      BY DEF Opened
    <3>2. \A c \in Branch : Opened(c) = (Changes(c, Done) # {})
      BY <1>1 DEF Progress
    <3>3. \A c \in Branch : Changes(c, Done)' = Changes(c, Done)
      BY <1>4, <1>13, <1>14
    <3>4. QED BY <3>1, <3>2, <3>3
  <2>3. ASSUME NEW t \in transactions
        PROVE  /\ {BlobTable'[m] : m \in t.files} = FilesOf(t.branch, Done)'
               /\ \A m \in t.files : m > next_file_mark'
               /\ t.merges \subseteq 1 .. last_commit_mark'
               /\ {MarkTable'[m] : m \in t.merges} = MergedInto(t.branch, Done)'
    <3>1. /\ {BlobTable[m] : m \in t.files} = FilesOf(t.branch, k)
          /\ \A m \in t.files : m > next_file_mark
          /\ t.merges \subseteq 1 .. last_commit_mark
          /\ {MarkTable[m] : m \in t.merges} = MergedInto(t.branch, k)
      BY <1>1, <1>2, <1>4 DEF Progress
    <3>2. t.branch \in Branch
      BY <1>1 DEF IInv, TransactionsOK, Transaction
    <3>3. /\ FilesOf(t.branch, Done)' = FilesOf(t.branch, k)
          /\ MergedInto(t.branch, Done)' = MergedInto(t.branch, k)
      BY <1>13, <1>14, <3>2
    <3>4. QED BY <1>6, <3>1, <3>3
  <2>4. QED BY <2>1, <2>2, <2>3 DEF Progress
<1>24. Held'
  BY <1>1, <1>2, <1>6, <1>9, <1>11, <1>12 DEF Held
<1>25. Queued'
  <2>1. \A c \in Branch :
            /\ Names(c)' = Names(c) /\ Prior(c)' = Prior(c)
            /\ c # b => LastMark(c)' = LastMark(c)
            /\ Copies(c, Done) # {} => Copies(c, Done)' # {}
            /\ Deletes(c, Done) # {} => Deletes(c, Done)' # {}
    <3>1. \A c \in Branch : /\ Copies(c, Done) # {} => Copies(c, Done)' # {}
                            /\ Deletes(c, Done) # {} => Deletes(c, Done)' # {}
      <4>1. \A c \in Branch : /\ Copies(c, k) # {} => Copies(c, k + 1) # {}
                              /\ Deletes(c, k) # {} => Deletes(c, k + 1) # {}
        BY <1>14
      <4>2. \A c \in Branch : Copies(c, Done) = Copies(c, k) /\ Deletes(c, Done) = Deletes(c, k)
        BY <1>4
      <4>3. QED BY <1>13, <4>1, <4>2
    <3>2. QED BY <1>6, <1>9, <1>13, <3>1
  <2>2. PICK d, s : d = deletedBranches /\ s = resetBranches
    OBVIOUS
  <2>3. \A i \in 1 .. Len(d) : d[i].branch # b
    <3>1. \A i \in 1 .. Len(d) : Deletes(d[i].branch, k) # {}
      BY <1>4, <1>10, <2>2 DEF CommandsOK
    <3>2. QED BY <1>15, <3>1
  <2>4. to = Null => \A i \in 1 .. Len(s) : s[i].branch # b
    <3>1. \A i \in 1 .. Len(s) : Copies(s[i].branch, k) # {}
      BY <1>4, <1>10, <2>2 DEF CommandsOK
    <3>2. QED BY <1>15, <3>1
  <2>5. /\ (cmd.to = Null) = (cmd.mark = 0)
        /\ cmd.mark = LastMark(b)'
        /\ cmd.backup => Names(b)' \notin {Null, <<>>}
        /\ cmd.to # Null => Copies(b, Done)' # {}
        /\ cmd.to = Null => cmd.backup /\ Names(b)' = Prior(b)' /\ Deletes(b, Done)' # {}
    <3>1. (cmd.to = Null) = (cmd.mark = 0)
      BY <1>8
    <3>2. cmd.mark = LastMark(b)' /\ (cmd.backup => Names(b)' \notin {Null, <<>>})
      BY <1>6, <1>8, <1>9, <1>16
    <3>3. cmd.to # Null => Copies(b, Done)' # {}
      <4>1. to # Null => k + 1 \in Copies(b, k + 1)
        BY ONLY <1>14, b \in Branch
      <4>2. Copies(b, Done)' = Copies(b, k + 1)
        BY <1>13
      <4>3. QED BY <1>8, <4>1, <4>2
    <3>4. cmd.to = Null => Deletes(b, Done)' # {}
      <4>1. to = Null => k + 1 \in Deletes(b, k + 1)
        BY ONLY <1>14, b \in Branch
      <4>2. Deletes(b, Done)' = Deletes(b, k + 1)
        BY <1>13
      <4>3. QED BY <1>8, <4>1, <4>2
    <3>5. cmd.to = Null => cmd.backup /\ Names(b)' = Prior(b)'
      BY <1>6, <1>8, <1>13, <1>17
    <3>6. QED BY <3>1, <3>2, <3>3, <3>4, <3>5
  <2>6. CommandsOK(d)' \/ to = Null
    BY <1>10, <2>1, <2>2, <2>3, CommandsKept
  <2>7. CommandsOK(s)' \/ to # Null
    BY <1>10, <2>1, <2>2, <2>4, CommandsKept
  <2>8. PICK c : c = cmd
    OBVIOUS
  <2>9. to = Null => CommandsOK(Append(d, c))'
    <3> SUFFICES ASSUME to = Null PROVE CommandsOK(Append(d, c))'
      OBVIOUS
    <3>1. d \in Seq(Command(rev)) /\ c \in Command(rev) /\ CommandsOK(d) /\ c.branch = b
          /\ c.to = Null
      BY <1>8, <1>10, <2>2, <2>8
    <3>2. PICK S : S = Command(rev)
      OBVIOUS
    <3>3. d \in Seq(S) /\ c \in S
      BY <3>1, <3>2
    <3>4. \A i \in 1 .. Len(d) : d[i].branch \in Branch /\ d[i].branch # b
      BY <1>10, <2>2, <2>3
    <3>5. /\ (c.to = Null) = (c.mark = 0)
          /\ c.mark = LastMark(b)'
          /\ c.backup => Names(b)' \notin {Null, <<>>}
          /\ c.to # Null => Copies(b, Done)' # {}
          /\ c.to = Null => c.backup /\ Names(b)' = Prior(b)' /\ Deletes(b, Done)' # {}
      BY <2>5, <2>8
    <3>6. \A i \in 1 .. Len(d) :
               /\ Names(d[i].branch)' = Names(d[i].branch)
               /\ Prior(d[i].branch)' = Prior(d[i].branch)
               /\ d[i].branch # c.branch => LastMark(d[i].branch)' = LastMark(d[i].branch)
               /\ Copies(d[i].branch, Done) # {} => Copies(d[i].branch, Done)' # {}
               /\ Deletes(d[i].branch, Done) # {} => Deletes(d[i].branch, Done)' # {}
               /\ d[i].to = Null => d[i].branch # c.branch
      BY <2>1, <3>1, <3>4
    <3>7. /\ (c.to = Null) = (c.mark = 0)
          /\ c.mark = LastMark(c.branch)'
          /\ c.backup => Names(c.branch)' \notin {Null, <<>>}
          /\ c.to # Null => Copies(c.branch, Done)' # {}
          /\ c.to = Null => /\ c.backup /\ Names(c.branch)' = Prior(c.branch)'
                            /\ Deletes(c.branch, Done)' # {}
                            /\ \A i \in 1 .. Len(d) : d[i].branch # c.branch
      <4>1. c.branch = b
        BY <3>1
      <4>2. \A i \in 1 .. Len(d) : c.to = Null => d[i].branch # c.branch
        BY <3>1, <3>4
      <4>3. LastMark(c.branch)' = LastMark(b)' /\ Names(c.branch)' = Names(b)'
            /\ Prior(c.branch)' = Prior(b)'
        BY <4>1
      <4>4. Copies(c.branch, Done)' = Copies(b, Done)' /\ Deletes(c.branch, Done)' = Deletes(b, Done)'
        BY <4>1
      <4>5. c.backup \in BOOLEAN
        BY <3>1 DEF Command
      <4>6. QED BY ONLY <3>5, <4>2, <4>3, <4>4, <4>5
    <3>8. QED BY ONLY <3>1, <3>3, <3>6, <3>7, CommandAppend
  <2>10. to # Null => CommandsOK(Append(s, c))'
    <3> SUFFICES ASSUME to # Null PROVE CommandsOK(Append(s, c))'
      OBVIOUS
    <3>1. s \in Seq(Command(rev)) /\ c \in Command(rev) /\ CommandsOK(s) /\ c.branch = b
          /\ c.to # Null
      BY <1>8, <1>10, <2>2, <2>8
    <3>2. PICK S : S = Command(rev)
      OBVIOUS
    <3>3. s \in Seq(S) /\ c \in S
      BY <3>1, <3>2
    <3>4. \A i \in 1 .. Len(s) : s[i].branch \in Branch /\ s[i].to # Null
      BY <1>10, <2>2
    <3>5. /\ (c.to = Null) = (c.mark = 0)
          /\ c.mark = LastMark(b)'
          /\ c.backup => Names(b)' \notin {Null, <<>>}
          /\ c.to # Null => Copies(b, Done)' # {}
          /\ c.to = Null => c.backup /\ Names(b)' = Prior(b)' /\ Deletes(b, Done)' # {}
      BY <2>5, <2>8
    <3>6. \A i \in 1 .. Len(s) :
               /\ Names(s[i].branch)' = Names(s[i].branch)
               /\ Prior(s[i].branch)' = Prior(s[i].branch)
               /\ s[i].branch # c.branch => LastMark(s[i].branch)' = LastMark(s[i].branch)
               /\ Copies(s[i].branch, Done) # {} => Copies(s[i].branch, Done)' # {}
               /\ Deletes(s[i].branch, Done) # {} => Deletes(s[i].branch, Done)' # {}
               /\ s[i].to = Null => s[i].branch # c.branch
      BY <2>1, <3>1, <3>4
    <3>7. /\ (c.to = Null) = (c.mark = 0)
          /\ c.mark = LastMark(c.branch)'
          /\ c.backup => Names(c.branch)' \notin {Null, <<>>}
          /\ c.to # Null => Copies(c.branch, Done)' # {}
          /\ c.to = Null => /\ c.backup /\ Names(c.branch)' = Prior(c.branch)'
                            /\ Deletes(c.branch, Done)' # {}
                            /\ \A i \in 1 .. Len(s) : s[i].branch # c.branch
      <4>1. c.branch = b
        BY <3>1
      <4>2. \A i \in 1 .. Len(s) : c.to = Null => s[i].branch # c.branch
        BY <3>1, <3>4
      <4>3. LastMark(c.branch)' = LastMark(b)' /\ Names(c.branch)' = Names(b)'
            /\ Prior(c.branch)' = Prior(b)'
        BY <4>1
      <4>4. Copies(c.branch, Done)' = Copies(b, Done)' /\ Deletes(c.branch, Done)' = Deletes(b, Done)'
        BY <4>1
      <4>5. c.backup \in BOOLEAN
        BY <3>1 DEF Command
      <4>6. QED BY ONLY <3>5, <4>2, <4>3, <4>4, <4>5
    <3>8. QED BY ONLY <3>1, <3>3, <3>6, <3>7, CommandAppend
  <2>11. CommandsOK(deletedBranches)' /\ CommandsOK(resetBranches)'
    <3>1. CASE to = Null
      <4>1. PICK x : x = Append(d, c)
        OBVIOUS
      <4>2. deletedBranches' = x /\ resetBranches' = s
        BY <1>7, <2>2, <2>8, <3>1, <4>1
      <4>3. CommandsOK(x)' /\ CommandsOK(s)'
        BY <2>7, <2>9, <3>1, <4>1
      <4>4. QED BY <4>2, <4>3
    <3>2. CASE to # Null
      <4>1. PICK x : x = Append(s, c)
        OBVIOUS
      <4>2. resetBranches' = x /\ deletedBranches' = d
        BY <1>7, <2>2, <2>8, <3>2, <4>1
      <4>3. CommandsOK(x)' /\ CommandsOK(d)'
        BY <2>6, <2>10, <3>2, <4>1
      <4>4. QED BY <4>2, <4>3
    <3>3. QED BY <3>1, <3>2
  <2>12. CommandsOK(<<>>)'
    <3>1. Len(<<>>) = 0 /\ 1 .. 0 = {}
      OBVIOUS
    <3>2. QED BY <3>1 DEF CommandsOK
  <2>13. /\ \A i \in 1 .. Len(deletedBranches') : deletedBranches'[i].to = Null
         /\ \A i \in 1 .. Len(resetBranches') : resetBranches'[i].to # Null
    <3>1. CASE to = Null
      <4>1. \A i \in 1 .. Len(deletedBranches') : deletedBranches'[i].to = Null
        <5>1. /\ Len(deletedBranches') = Len(deletedBranches) + 1
              /\ \A i \in 1 .. Len(deletedBranches) : deletedBranches'[i] = deletedBranches[i]
              /\ deletedBranches'[Len(deletedBranches) + 1] = cmd
          BY <1>added, <3>1
        <5>2. \A i \in 1 .. Len(deletedBranches') :
                  i \in 1 .. Len(deletedBranches) \/ i = Len(deletedBranches) + 1
          BY <1>10, <5>1
        <5>3. QED BY <1>8, <1>10, <3>1, <5>1, <5>2
      <4>2. QED BY <1>7, <1>10, <3>1, <4>1
    <3>2. CASE to # Null
      <4>1. \A i \in 1 .. Len(resetBranches') : resetBranches'[i].to # Null
        <5>1. /\ Len(resetBranches') = Len(resetBranches) + 1
              /\ \A i \in 1 .. Len(resetBranches) : resetBranches'[i] = resetBranches[i]
              /\ resetBranches'[Len(resetBranches) + 1] = cmd
          BY <1>added, <3>2
        <5>2. \A i \in 1 .. Len(resetBranches') :
                  i \in 1 .. Len(resetBranches) \/ i = Len(resetBranches) + 1
          BY <1>10, <5>1
        <5>3. QED BY <1>8, <1>10, <3>2, <5>1, <5>2
      <4>2. QED BY <1>7, <1>10, <3>2, <4>1
    <3>3. QED BY <3>1, <3>2
  <2>14. \A c1 \in Branch : Deletes(c1, Done)' # {} => Waiting(deletedBranches, c1)'
    <3> SUFFICES ASSUME NEW c1 \in Branch, Deletes(c1, k + 1) # {}
                 PROVE  Waiting(deletedBranches, c1)'
      BY <1>13
    <3>1. CASE c1 = b
      <4>1. to = Null
        BY <1>14, <1>15, <3>1
      <4>2. QED BY <1>11, <3>1, <4>1
    <3>2. CASE c1 # b
      <4>1. Deletes(c1, Done) # {}
        BY <1>4, <1>14, <3>2
      <4>2. Waiting(deletedBranches, c1)
        BY <1>1, <4>1 DEF Queued
      <4>3. QED BY <1>11, <4>2
    <3>3. QED BY <3>1, <3>2
  <2>15. QED BY <1>2, <2>11, <2>12, <2>13, <2>14 DEF Queued
<1>26. Tagged'
  <2> SUFFICES ASSUME NEW c \in TagBranch, Top(c)' # <<>> \/ Opened(c)'
               PROVE  c \in annotatedTags'
    BY <1>1, <1>2 DEF Tagged
  <2>1. c \in Branch /\ Opened(c)' = Opened(c)
    BY RepositoryAssumption DEF Opened
  <2>2. annotatedTags \subseteq annotatedTags'
    BY DEF Annotated
  <2>3. CASE c # b
    BY <1>1, <1>2, <1>9, <2>1, <2>2, <2>3 DEF Tagged
  <2>4. CASE c = b
    <3>1. CASE to = Null
      <4>1. Top(b)' = <<>>
        BY <1>9, <3>1 DEF Value
      <4>2. ~ Opened(b)
        BY <1>1, <1>4, <1>15, <3>1 DEF Progress
      <4>3. QED BY <2>1, <2>4, <4>1, <4>2
    <3>2. CASE to # Null
      BY <2>4, <3>2 DEF Annotated
    <3>3. QED BY <3>1, <3>2
  <2>5. QED BY <2>3, <2>4
<1>27. Kept'
  <2>1. \A c, r : Removed(c, r)' = Removed(c, r)
    BY DEF Removed
  <2>2. QED BY <1>1, <1>6, <2>1 DEF Kept
<1>28. QED
  BY <1>5, <1>18, <1>19, <1>20, <1>21, <1>22, <1>23, <1>24, <1>25, <1>26, <1>27 DEF ExportInv

\* markFrom finds the commit a copy starts from.
LEMMA SourceMark ==
    ASSUME Ready, Exporting, NEW i \in 1 .. Len(Asked),
           Asked[i].kind = "copy" \/ (Asked[i].kind # "delete" /\ Asked[i].from # Null)
    PROVE  LET m == MarkFrom(branches, Asked[i].from, Asked[i].at)
           IN  /\ m \in Mark /\ m # 0 /\ m > 0 /\ m \in 1 .. last_commit_mark /\ m \in CommitMark
               /\ Value(m) = Source(i) /\ MarkTable[m] = Source(i) /\ Source(i) # <<>>
               /\ Asked[i].from \in Branch
<1>1. /\ Points /\ Marks /\ Dates /\ IInv /\ UsedMarks /\ StoreOK /\ Active
  BY ReadyFacts DEF Exporting, Active
<1>2. Asked[i].from \in Branch /\ Asked[i].at \in 1 .. rev - 1 /\ Source(i) # <<>>
  BY AskedFacts DEF AskedOK
<1> DEFINE from == Asked[i].from
           at   == Asked[i].at
           e    == EntryMark(branches[from], at)
<1>3. Value(e) = Source(i)
  BY <1>1, <1>2 DEF Points, Source
<1>4. e # 0
  BY <1>2, <1>3 DEF Value
<1>5. /\ e \in 0 .. last_commit_mark /\ e \in CommitMark /\ last_commit_mark \in Nat
      /\ branches \in [Branch -> Entry]
  BY <1>1, <1>2, <1>4, PointFacts, MarkFacts
<1>6. MarkFrom(branches, from, at) = e /\ e \in Mark
  BY <1>1, <1>2, <1>4, <1>5, MarkFromIs DEF Dates
<1>7. e > 0 /\ e \in 1 .. last_commit_mark
  BY <1>4, <1>5
<1> HIDE DEF e
<1>8. MarkTable[e] = Source(i)
  BY <1>3, <1>4 DEF Value
<1>9. QED BY <1>2, <1>3, <1>4, <1>5, <1>6, <1>7, <1>8

\* A branch is deleted.
LEMMA ExportDeleteBranch ==
    ASSUME Undisturbed, Ready, DeleteBranch
    PROVE  ExportInv'
<1>1. /\ phase = "prepare" /\ phase' = "prepare" /\ todo # <<>> /\ todo' = Tail(todo)
      /\ Head(todo).kind = "delete"
      /\ ResetBranch(Head(todo).branch, 0, Null, branches)
      /\ annotatedTags' = annotatedTags
      /\ UNCHANGED <<last_commit_mark, next_file_mark, transactions, processHasStarted, rev,
                     queue, fi, disk, log, tagsFile, svn, tips, pos>>
  BY DEF DeleteBranch, NextIs, marking, stored, history
<1>2. PICK b : b = Head(todo).branch
  OBVIOUS
<1>3. b \in Branch /\ branches \in [Branch -> Entry] /\ 0 \in Mark
  <2>1. Head(todo) \in Operation
    BY <1>1, NextOperation, ReadyFacts
  <2>2. QED BY <1>2, <2>1, ReadyTypes, Bounds DEF Operation, Op
<1>4. ResetBranch(b, 0, Null, branches)
  BY <1>1, <1>2
<1>5. PICK brs : brs = branches
  OBVIOUS
<1>6. PICK to : to = Null
  OBVIOUS
<1>7. ResetBranch(b, 0, to, brs) /\ brs \in [Branch -> Entry] /\ to \in Branch \cup {Null}
      /\ \A c \in Branch : /\ brs[c].marks = branches[c].marks
                           /\ brs[c].commits = branches[c].commits
                           /\ brs[c].created = branches[c].created
  BY <1>3, <1>4, <1>5, <1>6
<1>8. QED BY <1>1, <1>2, <1>3, <1>6, <1>7, ExportReset

\* A branch is copied from another: markFrom finds the commit it starts from.
LEMMA ExportCreateBranch ==
    ASSUME Undisturbed, Ready, CreateBranch
    PROVE  ExportInv'
<1> DEFINE op == Head(todo)
<1>1. /\ phase = "prepare" /\ todo # <<>> /\ op.kind = "copy"
      /\ UNCHANGED <<last_commit_mark, next_file_mark, transactions, processHasStarted, rev,
                     queue, fi, disk, log, tagsFile, svn, tips, pos>>
  BY DEF CreateBranch, NextIs, marking, stored, history
<1>2. /\ Exporting /\ Done \in Nat /\ Done + 1 \in 1 .. Len(Asked) /\ op = Asked[Done + 1]
      /\ op.branch \in Branch
  <2>1. Exporting
    BY <1>1 DEF Exporting
  <2>2. TodoOK /\ todo \in Seq(Operation) /\ Done \in 0 .. Len(Asked) /\ Len(Asked) \in Nat
        /\ Len(todo) \in Nat
    BY <2>1, AskedFacts
  <2>3. Len(todo) # 0 /\ 1 \in 1 .. Len(todo) /\ Head(todo) = todo[1]
    BY <1>1, <2>2
  <2>4. todo[1] = Asked[Done + 1]
    BY <2>2, <2>3 DEF TodoOK
  <2>5. Done + 1 \in 1 .. Len(Asked) /\ Done \in Nat
    BY <2>2, <2>3 DEF Done
  <2>6. QED BY <2>1, <2>3, <2>4, <2>5, AskedFacts
<1> DEFINE m == MarkFrom(branches, op.from, op.at)
<1>3. /\ m \in Mark /\ m # 0 /\ Value(m) = Source(Done + 1) /\ op.from \in Branch
      /\ m # -1
  BY <1>1, <1>2, SourceMark
<1>4. /\ phase' = "prepare" /\ todo' = Tail(todo) /\ annotatedTags' = Annotated(op.branch)
      /\ ResetBranch(op.branch, m, op.from, LookedUp(branches, op.from))
  BY <1>1, <1>3 DEF CreateBranch
<1>5. PICK b, mark, to, brs : /\ b = op.branch /\ mark = m /\ to = op.from
                              /\ brs = LookedUp(branches, op.from)
  OBVIOUS
<1>6. /\ b \in Branch /\ mark \in Mark /\ to \in Branch \cup {Null} /\ to # Null /\ mark # 0
      /\ ResetBranch(b, mark, to, brs) /\ Value(mark) = Source(Done + 1)
      /\ annotatedTags' = Annotated(b)
  BY <1>2, <1>3, <1>4, <1>5, SvnHistoryAssumption
<1>7. /\ brs \in [Branch -> Entry]
      /\ \A c \in Branch : /\ brs[c].marks = branches[c].marks
                           /\ brs[c].commits = branches[c].commits
                           /\ brs[c].created = branches[c].created
  BY <1>5, ReadyTypes, LookedUpType, LookedUpMarks
<1> HIDE DEF m
<1>8. b = Head(todo).branch /\ Head(todo).kind = "copy"
  BY <1>1, <1>5
<1> HIDE DEF op
<1>9. QED BY <1>1, <1>4, <1>6, <1>7, <1>8, ExportReset

-----------------------------------------------------------------------------
(* A changed file *)

\* Commands stay right while the names they mention stand for the same.
LEMMA CommandsMoved ==
    ASSUME NEW q, CommandsOK(q),
           \A i \in 1 .. Len(q) : q[i].branch \in Branch,
           \A b \in Branch :
               /\ LastMark(b)' = LastMark(b) /\ Prior(b)' = Prior(b)
               /\ Copies(b, Done) # {} => Copies(b, Done)' # {}
               /\ Deletes(b, Done) # {} => Deletes(b, Done)' # {}
               /\ Names(b) \notin {Null, <<>>} =>
                     /\ Names(b)' \notin {Null, <<>>}
                     /\ LastMark(b) = 0 => Names(b)' = Names(b)
    PROVE  CommandsOK(q)'
<1> SUFFICES ASSUME NEW i \in 1 .. Len(q)
             PROVE  LET b == q[i].branch IN
        /\ (q[i].to = Null) = (q[i].mark = 0)
        /\ (\A j \in i + 1 .. Len(q) : q[j].branch # b) => q[i].mark = LastMark(b)'
        /\ q[i].backup => Names(b)' \notin {Null, <<>>}
        /\ q[i].to # Null => Copies(b, Done)' # {}
        /\ q[i].to = Null => /\ q[i].backup /\ Names(b)' = Prior(b)'
                             /\ Deletes(b, Done)' # {}
                             /\ \A j \in 1 .. Len(q) : q[j].branch = b => j = i
  BY DEF CommandsOK
<1> DEFINE b == q[i].branch
<1>1. b \in Branch
  OBVIOUS
<1>2. /\ (q[i].to = Null) = (q[i].mark = 0)
      /\ (\A j \in i + 1 .. Len(q) : q[j].branch # b) => q[i].mark = LastMark(b)
      /\ q[i].backup => Names(b) \notin {Null, <<>>}
      /\ q[i].to # Null => Copies(b, Done) # {}
      /\ q[i].to = Null => /\ q[i].backup /\ Names(b) = Prior(b)
                           /\ Deletes(b, Done) # {}
                           /\ \A j \in 1 .. Len(q) : q[j].branch = b => j = i
  BY DEF CommandsOK
<1>3. /\ LastMark(b)' = LastMark(b) /\ Prior(b)' = Prior(b)
      /\ Copies(b, Done) # {} => Copies(b, Done)' # {}
      /\ Deletes(b, Done) # {} => Deletes(b, Done)' # {}
      /\ Names(b) \notin {Null, <<>>} =>
            /\ Names(b)' \notin {Null, <<>>}
            /\ LastMark(b) = 0 => Names(b)' = Names(b)
  BY <1>1
<1>4. q[i].to = Null => LastMark(b) = 0 /\ q[i].backup
  <2>1. q[i].to = Null => \A j \in i + 1 .. Len(q) : j # i /\ (j \in 1 .. Len(q))
    OBVIOUS
  <2>2. QED BY <1>2, <2>1
<1>5. /\ q[i].backup => Names(b)' \notin {Null, <<>>}
      /\ q[i].to = Null => Names(b)' = Names(b)
  BY <1>2, <1>3, <1>4
<1> HIDE DEF b
<1>6. QED BY <1>2, <1>3, <1>5 DEF b

\* A command, or a checkpoint before it, that moves no branch.
LEMMA ProcessMoves ==
    ASSUME Undisturbed, Ready, \A c \in Branch : branches'[c].marks = branches[c].marks,
           processHasStarted' = TRUE, fi' \in Process,
           LET f == Running(branches)
           IN  /\ fi'.tab = f.tab /\ fi'.del = f.del /\ fi'.backup = f.backup
               /\ fi'.mark = f.mark /\ fi'.tag = f.tag /\ fi'.dead = f.dead
               /\ disk' = disk \/ disk' = Git!Dump(f, disk)
    PROVE  /\ MarkTable' = MarkTable /\ BlobTable' = fi'.blob /\ ~ fi'.dead
           /\ \A c \in Branch :
                 /\ fi'.tag[c] = Null
                 /\ LastMark(c)' = LastMark(c) /\ Top(c)' = Top(c)
                 /\ Holds(c, Top(c)) => Holds(c, Top(c))'
                 /\ Names(c) \notin {Null, <<>>} =>
                       /\ Names(c)' \notin {Null, <<>>}
                       /\ LastMark(c) = 0 => Names(c)' = Names(c)
           /\ Saves' \subseteq Saves
           /\ \A k \in Saves : \E n \in Saves' : n.branch = k.branch /\ n.rev = k.rev
<1> DEFINE f == Running(branches)
<1>1. /\ f \in Process /\ ~ f.dead /\ f.mark = MarkTable /\ f.blob = BlobTable
      /\ f.backup \cup disk.backup = Saves
      /\ \A c \in Branch :
            /\ f.tag[c] = Null
            /\ Holds(c, Top(c)) => HoldsRunning(f, disk, c, Top(c))
            /\ Names(c) \notin {Null, <<>>} => Git!RefTip(f, disk, c) \notin {Null, <<>>}
            /\ LastMark(c) = 0 => Git!RefTip(f, disk, c) = Names(c)
  BY ReadyFacts, RunningHolds DEF Ready
<1>2. /\ fi'.tab = f.tab /\ fi'.del = f.del /\ fi'.backup = f.backup
      /\ fi'.mark = f.mark /\ fi'.tag = f.tag /\ fi'.dead = f.dead
      /\ disk' = disk \/ disk' = Git!Dump(f, disk)
  OBVIOUS
<1>3. PICK p : p = f
  OBVIOUS
<1> HIDE DEF f
<1>4. disk \in Disk
  BY ReadyTypes
<1>5. MarkTable' = MarkTable /\ BlobTable' = fi'.blob
  BY <1>1, <1>2 DEF MarkTable, BlobTable
<1>6. \A c \in Branch : LastMark(c)' = LastMark(c) /\ Top(c)' = Top(c)
  BY <1>5, TopSame
<1>7. ASSUME NEW c \in Branch, Holds(c, Top(c))
      PROVE  Holds(c, Top(c))'
  <2>1. PICK h : h = Top(c)
    OBVIOUS
  <2>2. h \in History /\ HoldsRunning(f, disk, c, h)
    BY <1>1, <1>7, <2>1, ReadyFacts, TopFacts
  <2>3. HoldsRunning(f, disk', c, h)
    <3>1. CASE disk' = disk
      BY <2>2, <3>1
    <3>2. CASE disk' = Git!Dump(f, disk)
      BY <1>1, <1>4, <2>2, <3>2, DumpHolds DEF Undisturbed
    <3>3. QED BY <1>2, <3>1, <3>2
  <2>4. HoldsRunning(fi', disk', c, h)
    BY <1>2, <2>3 DEF HoldsRunning
  <2>5. Holds(c, h)'
    BY <2>4 DEF Holds
  <2>6. h = Top(c)'
    BY <1>6, <2>1
  <2>7. QED BY <2>5, <2>6
<1>8. ASSUME NEW c \in Branch, Names(c) \notin {Null, <<>>}
      PROVE  /\ Names(c)' \notin {Null, <<>>}
             /\ LastMark(c) = 0 => Names(c)' = Names(c)
  <2>1. Names(c)' = Git!RefTip(f, disk', c)
    BY <1>2 DEF Names, Git!RefTip
  <2>2. Git!RefTip(f, disk, c) \notin {Null, <<>>}
        /\ (LastMark(c) = 0 => Git!RefTip(f, disk, c) = Names(c))
    BY <1>1, <1>8
  <2>3. Git!RefTip(f, disk', c) = Git!RefTip(f, disk, c)
    <3>1. CASE disk' = disk
      BY <3>1
    <3>2. CASE disk' = Git!Dump(f, disk)
      BY <1>1, <1>4, <2>2, <3>2, DumpNames DEF Undisturbed
    <3>3. QED BY <1>2, <3>1, <3>2
  <2>4. QED BY <2>1, <2>2, <2>3
<1>9. /\ Saves' \subseteq Saves
      /\ \A k \in Saves : \E n \in Saves' : n.branch = k.branch /\ n.rev = k.rev
  <2>1. Saves' = f.backup \cup disk'.backup
    BY <1>2 DEF Saves
  <2>2. CASE disk' = disk
    BY <1>1, <2>1, <2>2
  <2>3. CASE disk' = Git!Dump(f, disk)
    <3>1. /\ disk'.backup \subseteq f.backup \cup disk.backup
          /\ f.backup \subseteq disk'.backup
          /\ \A k \in disk.backup : \E m \in disk'.backup : m.branch = k.branch /\ m.rev = k.rev
      BY <1>1, <1>4, <2>3, DumpBackups
    <3>2. QED BY <1>1, <2>1, <3>1
  <2>4. QED BY <1>2, <2>2, <2>3
<1>10. ~ fi'.dead /\ \A c \in Branch : fi'.tag[c] = Null
  BY <1>1, <1>2
<1>11. QED BY <1>5, <1>6, <1>7, <1>8, <1>9, <1>10

\* What a changed file does to the process, the disk and the branches.
LEMMA ChangeStore ==
    ASSUME Undisturbed, Ready, ChangeFile
    PROVE  /\ MarkTable' = MarkTable /\ ~ fi'.dead
           /\ \A m \in FileMark :
                 BlobTable'[m] = IF Head(todo).kind = "change" /\ m = next_file_mark
                                 THEN <<Head(todo).branch, rev>> ELSE BlobTable[m]
           /\ processHasStarted' => \A c \in Branch : fi'.tag[c] = Null
           /\ \A c \in Branch :
                 /\ branches'[c].marks = branches[c].marks
                 /\ branches'[c].commits = branches[c].commits
                 /\ branches'[c].created = branches[c].created
                 /\ LastMark(c)' = LastMark(c) /\ Top(c)' = Top(c)
                 /\ Holds(c, Top(c)) => Holds(c, Top(c))'
                 /\ Names(c) \notin {Null, <<>>} =>
                       /\ Names(c)' \notin {Null, <<>>}
                       /\ LastMark(c) = 0 => Names(c)' = Names(c)
           /\ Saves' \subseteq Saves
           /\ \A k \in Saves : \E n \in Saves' : n.branch = k.branch /\ n.rev = k.rev
<1> DEFINE op    == Head(todo)
           b     == op.branch
           txn   == TransactionOf(b)
           isNew == txn \notin transactions
           flush == isNew /\ (commitCount + 1) % CommitInterval = 0
           noted == op.from # Null
           blob  == op.kind = "change"
           file  == next_file_mark
           f     == Running(branches)
<1>1. /\ phase = "prepare" /\ todo # <<>>
      /\ branches' = IF noted THEN LookedUp(branches, op.from) ELSE branches
      /\ processHasStarted' = (processHasStarted \/ flush \/ blob)
      /\ disk' = IF flush /\ ~ f.dead THEN Git!Dump(f, disk) ELSE disk
      /\ blob => file \in FileMark /\ fi' = Git!Blob(f, file, <<b, rev>>)
      /\ ~ blob => fi' = IF flush THEN f ELSE fi
      /\ next_file_mark \in FileMark \/ ~ blob
  BY DEF ChangeFile, NextIs
<1>2. /\ f \in Process /\ ~ f.dead /\ f.mark = MarkTable /\ f.blob = BlobTable
      /\ f.backup \cup disk.backup = Saves /\ \A c \in Branch : f.tag[c] = Null
  BY ReadyFacts, RunningHolds DEF Ready
<1>3. \A c \in Branch : /\ branches'[c].marks = branches[c].marks
                        /\ branches'[c].commits = branches[c].commits
                        /\ branches'[c].created = branches[c].created
  BY <1>1, ReadyTypes, LookedUpMarks
<1>4. b \in Branch /\ rev \in Nat /\ processHasStarted \in BOOLEAN
  BY <1>1, NextOperation, ReadyFacts, ReadyTypes DEF Operation, Op
<1>5. CASE blob \/ flush \/ processHasStarted
  <2>1. /\ processHasStarted' = TRUE /\ (disk' = disk \/ disk' = Git!Dump(f, disk))
        /\ ~ blob => fi' = f
    <3>1. ~ flush /\ ~ blob => f = fi
      BY <1>5 DEF Running
    <3> HIDE DEF f, flush, blob
    <3>2. QED BY <1>1, <1>5, <3>1
  <2>2. /\ fi' \in Process
        /\ fi'.tab = f.tab /\ fi'.del = f.del /\ fi'.backup = f.backup
        /\ fi'.mark = f.mark /\ fi'.tag = f.tag /\ fi'.dead = f.dead
        /\ \A m \in FileMark : fi'.blob[m] = IF blob /\ m = file THEN <<b, rev>> ELSE f.blob[m]
    <3>1. CASE blob
      <4>1. fi' = [f EXCEPT !.blob[file] = <<b, rev>>] /\ file \in FileMark
        BY <1>1, <3>1 DEF Git!Blob
      <4>2. <<b, rev>> \in Content
        BY <1>4 DEF Content
      <4>3. fi' \in Process
        BY <1>1, <1>2, <3>1, <4>2, BlobFacts
      <4> HIDE DEF f
      <4>4. QED BY <1>2, <3>1, <4>1, <4>3 DEF Process
    <3>2. CASE ~ blob
      BY <1>2, <2>1, <3>2
    <3>3. QED BY <3>1, <3>2
  <2>3. /\ MarkTable' = MarkTable /\ BlobTable' = fi'.blob /\ ~ fi'.dead
        /\ \A c \in Branch :
              /\ fi'.tag[c] = Null
              /\ LastMark(c)' = LastMark(c) /\ Top(c)' = Top(c)
              /\ Holds(c, Top(c)) => Holds(c, Top(c))'
              /\ Names(c) \notin {Null, <<>>} =>
                    /\ Names(c)' \notin {Null, <<>>}
                    /\ LastMark(c) = 0 => Names(c)' = Names(c)
        /\ Saves' \subseteq Saves
        /\ \A k \in Saves : \E n \in Saves' : n.branch = k.branch /\ n.rev = k.rev
    <3> HIDE DEF blob
    <3>1. QED BY <1>3, <2>1, <2>2, ProcessMoves
  <2> HIDE DEF f
  <2>4. \A m \in FileMark : BlobTable'[m] = IF blob /\ m = file THEN <<b, rev>> ELSE BlobTable[m]
    BY <1>2, <2>2, <2>3
  <2>5. \A m \in FileMark :
                 BlobTable'[m] = IF Head(todo).kind = "change" /\ m = next_file_mark
                                 THEN <<Head(todo).branch, rev>> ELSE BlobTable[m]
    BY <2>4
  <2>6. QED BY ONLY <1>3, <2>3, <2>5
<1>6. CASE ~ (blob \/ flush \/ processHasStarted)
  <2>1. fi' = fi /\ disk' = disk /\ processHasStarted' = processHasStarted
    <3> HIDE DEF f, flush, blob
    <3>1. QED BY <1>1, <1>4, <1>6
  <2>2. /\ MarkTable' = MarkTable /\ BlobTable' = BlobTable /\ Saves' = Saves
        /\ \A c, h : Holds(c, h)' = Holds(c, h)
        /\ \A c : Names(c)' = Names(c)
    BY <2>1, StoreSame
  <2>3. \A c \in Branch : LastMark(c)' = LastMark(c) /\ Top(c)' = Top(c)
    BY <1>3, <2>2, TopSame
  <2>4. ASSUME NEW c \in Branch, Holds(c, Top(c))
        PROVE  Holds(c, Top(c))'
    <3>1. PICK h : h = Top(c)
      OBVIOUS
    <3>2. Holds(c, h)' /\ h = Top(c)'
      BY <2>2, <2>3, <2>4, <3>1
    <3>3. QED BY <3>2
  <2>5. ~ fi.dead /\ ~ processHasStarted
    BY <1>6, ReadyTypes
  <2>6. ~ blob
    BY <1>6
  <2> HIDE DEF f, blob
  <2>7. \A m \in FileMark : BlobTable'[m] = IF blob /\ m = file THEN <<b, rev>> ELSE BlobTable[m]
    BY <2>2, <2>6
  <2>8. ~ fi'.dead /\ ~ processHasStarted'
    BY <2>1, <2>5
  <2>9. QED BY <1>3, <2>2, <2>3, <2>4, <2>7, <2>8 DEF blob
<1>7. QED BY <1>5, <1>6

\* A file is changed or removed: a transaction opens, a checkpoint and a blob may be written.
LEMMA ExportChangeFile ==
    ASSUME Undisturbed, Ready, ChangeFile
    PROVE  ExportInv'
<1> DEFINE op    == Head(todo)
           txn   == TransactionOf(op.branch)
           noted == op.from # Null
           mark  == IF noted THEN MarkFrom(branches, op.from, op.at) ELSE 0
           blob  == op.kind = "change"
           file  == next_file_mark
           new   == [txn EXCEPT !.merges = IF mark > 0 THEN @ \cup {mark} ELSE @,
                                !.files  = IF blob THEN @ \cup {file} ELSE @]
<1>1. /\ phase = "prepare" /\ phase' = "prepare" /\ todo # <<>> /\ todo' = Tail(todo)
      /\ op.kind \in {"change", "remove"}
      /\ transactions' = (transactions \ {txn}) \cup {new}
      /\ annotatedTags' = Annotated(op.branch)
      /\ blob => file \in FileMark /\ next_file_mark' = file - 1
      /\ ~ blob => next_file_mark' = file
      /\ UNCHANGED <<last_commit_mark, deletedBranches, resetBranches, rev, queue,
                     log, tagsFile, svn, tips, pos>>
  BY DEF ChangeFile, NextIs, history
<1>2. /\ Calm /\ Seen /\ Marks /\ Heads /\ Dates /\ Points /\ Logged /\ Ended
      /\ Progress /\ Held /\ Queued /\ Tagged /\ Kept
      /\ IInv /\ UsedMarks /\ StoreOK
  BY ReadyFacts
<1>3. /\ queue = <<>> /\ queue' = <<>> /\ Exporting /\ Exporting' /\ Active /\ Active'
      /\ rev \in Nat /\ rev # 0 /\ LinesRead' = LinesRead
  BY <1>1, ReadyTypes DEF Exporting, Active, LinesRead
<1>4. PICK b : b = op.branch
  OBVIOUS
<1>5. PICK k : k = Done
  OBVIOUS
<1>6. /\ k \in Nat /\ k + 1 \in 1 .. Len(Asked) /\ op = Asked[k + 1] /\ op \in Operation
      /\ b \in Branch /\ Asked' = Asked /\ Done' = k + 1 /\ Seen'
  BY <1>1, <1>4, <1>5, NextDone
<1>7. /\ MarkTable' = MarkTable /\ ~ fi'.dead
      /\ \A m \in FileMark :
            BlobTable'[m] = IF blob /\ m = file THEN <<b, rev>> ELSE BlobTable[m]
      /\ processHasStarted' => \A c \in Branch : fi'.tag[c] = Null
      /\ \A c \in Branch :
            /\ branches'[c].marks = branches[c].marks
            /\ branches'[c].commits = branches[c].commits
            /\ branches'[c].created = branches[c].created
            /\ LastMark(c)' = LastMark(c) /\ Top(c)' = Top(c)
            /\ Holds(c, Top(c)) => Holds(c, Top(c))'
            /\ Names(c) \notin {Null, <<>>} =>
                  /\ Names(c)' \notin {Null, <<>>}
                  /\ LastMark(c) = 0 => Names(c)' = Names(c)
      /\ Saves' \subseteq Saves
      /\ \A s \in Saves : \E n \in Saves' : n.branch = s.branch /\ n.rev = s.rev
  BY <1>4, ChangeStore
<1>8. /\ \A m : Value(m)' = Value(m)
      /\ \A c : Pending(c)' = Pending(c)
      /\ \A c \in Branch : \A at : EntryMark(branches'[c], at) = EntryMark(branches[c], at)
  BY <1>1, <1>7, EntryMarkSame DEF Value, Pending, Waiting
<1>9. /\ \A c : Prior(c)' = Prior(c)
      /\ \A c \in Branch :
             /\ Copies(c, Done)' = Copies(c, k + 1) /\ Deletes(c, Done)' = Deletes(c, k + 1)
             /\ Changes(c, Done)' = Changes(c, k + 1)
             /\ BaseOf(c, Done)' = BaseOf(c, k + 1)
             /\ MergedInto(c, Done)' = MergedInto(c, k + 1)
             /\ FilesOf(c, Done)' = FilesOf(c, k + 1)
  <2>1. PICK n : n = k + 1
    OBVIOUS
  <2>2. Done' = n
    BY <1>6, <2>1
  <2>3. \A c : /\ Prior(c)' = Prior(c)
               /\ Copies(c, n)' = Copies(c, n) /\ Deletes(c, n)' = Deletes(c, n)
               /\ Changes(c, n)' = Changes(c, n)
               /\ BaseOf(c, n)' = BaseOf(c, n)
               /\ MergedInto(c, n)' = MergedInto(c, n)
               /\ FilesOf(c, n)' = FilesOf(c, n)
    BY <1>1, AskedSame
  <2>4. QED BY <2>1, <2>2, <2>3
<1>10. \A c \in Branch :
          /\ Copies(c, k + 1) = Copies(c, k) /\ Deletes(c, k + 1) = Deletes(c, k)
          /\ BaseOf(c, k + 1) = BaseOf(c, k)
          /\ Changes(c, k + 1) = IF c = b THEN Changes(c, k) \cup {k + 1} ELSE Changes(c, k)
          /\ FilesOf(c, k + 1) = IF c = b /\ blob THEN {<<b, rev>>} ELSE FilesOf(c, k)
          /\ MergedInto(c, k + 1) = IF c = b /\ noted THEN MergedInto(c, k) \cup {Source(k + 1)}
                                    ELSE MergedInto(c, k)
          /\ FilesOf(c, k) \subseteq {<<c, rev>>}
  BY <1>1, <1>3, <1>4, <1>6, CountedNext, BaseNext
\* The transaction the file goes to.
<1>11. noted => /\ mark \in 1 .. last_commit_mark /\ mark > 0
                /\ MarkTable[mark] = Source(k + 1)
  <2> SUFFICES ASSUME noted PROVE /\ mark \in 1 .. last_commit_mark /\ mark > 0
                /\ MarkTable[mark] = Source(k + 1)
    OBVIOUS
  <2>1. Asked[k + 1].kind # "delete" /\ Asked[k + 1].from # Null
    BY <1>1, <1>6
  <2>2. QED BY <1>3, <1>6, <2>1, SourceMark
<1>12. /\ txn \in Transaction /\ txn.branch = b
       /\ txn \in transactions \/ txn = [branch |-> b, merges |-> {}, files |-> {}]
       /\ \A t \in transactions : t.branch = b => t = txn
       /\ Opened(b) => txn \in transactions
       /\ \A t \in transactions : t \in Transaction /\ t.branch \in Branch
                                  /\ t.files \subseteq FileMark
  <2>1. /\ \A t \in transactions : t \in Transaction /\ t.branch \in Branch
                                   /\ t.files \subseteq FileMark
        /\ \A t, u \in transactions : t.branch = u.branch => t = u
    BY <1>2 DEF IInv, TransactionsOK, OutstandingExact, Transaction, StoreOK
  <2> DEFINE open == {t \in transactions : t.branch = b}
  <2>2. txn = IF open # {} THEN CHOOSE t \in open : TRUE
              ELSE [branch |-> b, merges |-> {}, files |-> {}]
    BY <1>4 DEF TransactionOf
  <2>3. CASE open # {}
    <3>1. txn \in open
      BY <2>2, <2>3
    <3> HIDE DEF txn
    <3>2. QED BY <2>1, <3>1
  <2>4. CASE open = {}
    <3>1. txn = [branch |-> b, merges |-> {}, files |-> {}]
      BY <2>2, <2>4
    <3> HIDE DEF txn
    <3>2. \A t \in transactions : t.branch # b
      BY <2>4
    <3>3. QED BY <1>6, <2>1, <3>1, <3>2 DEF Transaction, Opened
  <2>5. QED BY <2>3, <2>4
<1>13. /\ {BlobTable[m] : m \in txn.files} = FilesOf(b, k)
       /\ \A m \in txn.files : m > next_file_mark /\ m \in FileMark
       /\ txn.merges \subseteq 1 .. last_commit_mark
       /\ {MarkTable[m] : m \in txn.merges} = MergedInto(b, k)
  <2>1. CASE txn \in transactions
    <3>1. \A t \in transactions : /\ {BlobTable[m] : m \in t.files} = FilesOf(t.branch, Done)
                                  /\ \A m \in t.files : m > next_file_mark
                                  /\ t.merges \subseteq 1 .. last_commit_mark
                                  /\ {MarkTable[m] : m \in t.merges} = MergedInto(t.branch, Done)
      BY <1>2, <1>3 DEF Progress
    <3> HIDE DEF txn
    <3>2. QED BY <1>5, <1>12, <2>1, <3>1
  <2>2. CASE txn \notin transactions
    <3>1. txn.files = {} /\ txn.merges = {} /\ ~ Opened(b)
      BY <1>12, <2>2
    <3>2. Changes(b, k) = {}
      BY <1>1, <1>2, <1>5, <1>6, <3>1 DEF Progress
    <3>3. FilesOf(b, k) = {} /\ MergedInto(b, k) = {}
      BY <3>2 DEF FilesOf, MergedInto
    <3> HIDE DEF txn
    <3>4. QED BY <3>1, <3>3
  <2>3. QED BY <2>1, <2>2
<1> HIDE DEF txn
<1>14. /\ new.branch = b
       /\ new.merges = IF noted THEN txn.merges \cup {mark} ELSE txn.merges
       /\ new.files = IF blob THEN txn.files \cup {file} ELSE txn.files
  <2>1. noted => mark > 0
    BY <1>11
  <2>2. ~ noted => ~ (mark > 0)
    OBVIOUS
  <2> HIDE DEF mark, noted, blob
  <2>3. QED BY <1>12, <2>1, <2>2 DEF Transaction
<1> HIDE DEF new, mark, noted, blob
<1>15. \A t \in transactions' : t = new \/ (t \in transactions /\ t.branch # b)
  BY <1>1, <1>12
<1>16. \A c : Opened(c)' <=> Opened(c) \/ c = b
  <2>1. \A c : Opened(c)' => Opened(c) \/ c = b
    BY <1>14, <1>15 DEF Opened
  <2>2. Opened(b)'
    BY <1>1, <1>14 DEF Opened
  <2>3. \A c : Opened(c) /\ c # b => Opened(c)'
    BY <1>1, <1>12 DEF Opened
  <2>4. QED BY <2>1, <2>2, <2>3
<1>17. Calm'
  BY <1>1, <1>7 DEF Calm
<1>18. Marks'
  BY <1>1, <1>2, <1>3, <1>7 DEF Marks
<1>19. Heads'
  <2>1. \A m \in CommitMark : MarkTable[m] # Null => \A c : HeadOf(MarkTable[m]) # <<c, rev>>
    <3> SUFFICES ASSUME NEW m \in CommitMark, MarkTable[m] # Null, NEW c,
                        HeadOf(MarkTable[m]) = <<c, rev>>
                 PROVE  FALSE
      OBVIOUS
    <3>1. HeadOf(MarkTable[m])[2] < rev
      BY <1>1, <1>2 DEF Heads
    <3>2. QED BY <1>3, <3>1
  <2>2. QED BY <1>1, <1>2, <1>7, <2>1 DEF Heads
<1>20. Dates'
  BY <1>1, <1>2, <1>7, <1>8 DEF Dates
<1>21. Points'
  BY <1>1, <1>2, <1>3, <1>8 DEF Points
<1>22. Logged'
  BY <1>1, <1>2, <1>3, <1>7, <1>8 DEF Logged
<1>23. Ended'
  <2>1. transactions' # {}
    BY <1>1
  <2>2. QED BY <1>1, <2>1 DEF Ended
<1>24. Progress'
  <2>1. \A c \in Branch : Top(c)' = BaseOf(c, Done)'
    BY <1>1, <1>2, <1>5, <1>7, <1>9, <1>10 DEF Progress
  <2>2. \A c \in Branch : Opened(c)' = (Changes(c, Done)' # {})
    <3>1. \A c \in Branch : Opened(c) = (Changes(c, k) # {})
      BY <1>1, <1>2, <1>5 DEF Progress
    <3>2. \A c \in Branch : Opened(c)' <=> (Changes(c, Done)' # {})
      <4>1. \A c \in Branch : Changes(c, Done)' # {} <=> Changes(c, k) # {} \/ c = b
        <5> SUFFICES ASSUME NEW c \in Branch
                     PROVE  Changes(c, Done)' # {} <=> Changes(c, k) # {} \/ c = b
          OBVIOUS
        <5>1. CASE c = b
          <6>1. k + 1 \in Changes(c, Done)'
            BY <1>9, <1>10, <5>1
          <6>2. QED BY <5>1, <6>1
        <5>2. CASE c # b
          <6>1. Changes(c, Done)' = Changes(c, k)
            BY <1>9, <1>10, <5>2
          <6>2. QED BY <5>2, <6>1
        <5>3. QED BY <5>1, <5>2
      <4>2. \A c \in Branch : Opened(c) <=> Changes(c, k) # {}
        <5>1. \A c \in Branch : Opened(c) \in BOOLEAN
          BY DEF Opened
        <5>2. QED BY ONLY <3>1, <5>1
      <4>3. QED BY ONLY <1>16, <4>1, <4>2
    <3>3. \A c \in Branch : Opened(c)' \in BOOLEAN
      BY DEF Opened
    <3>4. QED BY <3>2, <3>3
  <2>3. ASSUME NEW t \in transactions'
        PROVE  /\ {BlobTable'[m] : m \in t.files} = FilesOf(t.branch, Done)'
               /\ \A m \in t.files : m > next_file_mark'
               /\ t.merges \subseteq 1 .. last_commit_mark'
               /\ {MarkTable'[m] : m \in t.merges} = MergedInto(t.branch, Done)'
    <3>1. CASE t = new
      <4>1. {BlobTable'[m] : m \in new.files} = FilesOf(b, k + 1)
        <5>1. \A m \in txn.files : BlobTable'[m] = BlobTable[m]
          <6>1. \A m \in txn.files : m > file /\ m \in FileMark /\ m # file
            <7>1. FileMark \subseteq Int /\ file \in Int
              BY <1>2, Bounds DEF FileMark, IInv, MemoryOK
            <7>2. QED BY <1>13, <7>1
          <6>2. QED BY <1>7, <6>1
        <5>2. {BlobTable'[m] : m \in txn.files} = FilesOf(b, k)
          BY <1>13, <5>1
        <5>3. CASE blob
          <6>1. BlobTable'[file] = <<b, rev>>
            BY <1>1, <1>7, <5>3 DEF blob
          <6>2. {BlobTable'[m] : m \in txn.files \cup {file}}
                    = FilesOf(b, k) \cup {<<b, rev>>}
            BY <5>2, <6>1
          <6>3. QED BY <1>6, <1>10, <1>14, <5>3, <6>2
        <5>4. CASE ~ blob
          BY <1>6, <1>10, <1>14, <5>2, <5>4
        <5>5. QED BY <5>3, <5>4
      <4>2. {MarkTable'[m] : m \in new.merges} = MergedInto(b, k + 1)
        <5>1. {MarkTable'[m] : m \in txn.merges} = MergedInto(b, k)
          BY <1>7, <1>13
        <5>2. CASE noted
          <6>1. MarkTable'[mark] = Source(k + 1)
            BY <1>7, <1>11, <5>2
          <6>2. {MarkTable'[m] : m \in txn.merges \cup {mark}}
                    = MergedInto(b, k) \cup {Source(k + 1)}
            BY <5>1, <6>1
          <6>3. QED BY <1>6, <1>10, <1>14, <5>2, <6>2
        <5>3. CASE ~ noted
          BY <1>6, <1>10, <1>14, <5>1, <5>3
        <5>4. QED BY <5>2, <5>3
      <4>3. \A m \in new.files : m > next_file_mark'
        <5>1. file \in Int /\ next_file_mark' <= file /\ (blob => next_file_mark' < file)
              /\ next_file_mark' \in Int
          BY <1>1, <1>2, Bounds DEF blob, IInv, MemoryOK
        <5>2. \A m \in txn.files : m > file /\ m \in Int
          BY <1>13, Bounds DEF FileMark
        <5>3. QED BY <1>14, <5>1, <5>2
      <4>4. new.merges \subseteq 1 .. last_commit_mark'
        BY <1>1, <1>11, <1>13, <1>14
      <4>5. FilesOf(t.branch, Done)' = FilesOf(b, k + 1)
            /\ MergedInto(t.branch, Done)' = MergedInto(b, k + 1)
        <5>1. t.branch = b
          BY <1>14, <3>1
        <5>2. QED BY <1>6, <1>9, <5>1
      <4>6. QED BY <3>1, <4>1, <4>2, <4>3, <4>4, <4>5
    <3>2. CASE t # new
      <4>1. t \in transactions /\ t.branch # b /\ t.branch \in Branch /\ t.files \subseteq FileMark
        BY <1>12, <1>15, <3>2
      <4>2. /\ {BlobTable[m] : m \in t.files} = FilesOf(t.branch, k)
            /\ \A m \in t.files : m > next_file_mark
            /\ t.merges \subseteq 1 .. last_commit_mark
            /\ {MarkTable[m] : m \in t.merges} = MergedInto(t.branch, k)
        BY <1>2, <1>3, <1>5, <4>1 DEF Progress
      <4>3. file \in Int /\ next_file_mark' <= file /\ next_file_mark' \in Int /\ FileMark \subseteq Int
        BY <1>1, <1>2, Bounds DEF blob, IInv, MemoryOK, FileMark
      <4>4. \A m \in t.files : m > next_file_mark' /\ BlobTable'[m] = BlobTable[m]
        <5>1. \A m \in t.files : m \in Int /\ m > file /\ m \in FileMark
          BY <4>1, <4>2, <4>3
        <5>2. \A m \in t.files : m # file /\ m > next_file_mark'
          BY ONLY <4>3, <5>1
        <5>3. QED BY ONLY <1>7, <5>1, <5>2
      <4>5. /\ FilesOf(t.branch, Done)' = FilesOf(t.branch, k)
            /\ MergedInto(t.branch, Done)' = MergedInto(t.branch, k)
        BY <1>9, <1>10, <4>1
      <4>6. QED BY <1>1, <1>7, <4>2, <4>4, <4>5
    <3>3. QED BY <3>1, <3>2
  <2>4. QED BY <1>1, <2>1, <2>2, <2>3 DEF Progress
<1>25. Held'
  BY <1>1, <1>2, <1>3, <1>7, <1>8 DEF Held
<1>26. Queued'
  <2>1. /\ \A i \in 1 .. Len(deletedBranches) : deletedBranches[i].branch \in Branch
        /\ \A i \in 1 .. Len(resetBranches) : resetBranches[i].branch \in Branch
        /\ CommandsOK(deletedBranches) /\ CommandsOK(resetBranches)
    BY <1>2, QueueFacts DEF Queued
  <2>2. PICK d, s : d = deletedBranches /\ s = resetBranches
    OBVIOUS
  <2>3. \A c \in Branch :
            /\ LastMark(c)' = LastMark(c) /\ Prior(c)' = Prior(c)
            /\ Copies(c, Done) # {} => Copies(c, Done)' # {}
            /\ Deletes(c, Done) # {} => Deletes(c, Done)' # {}
            /\ Names(c) \notin {Null, <<>>} =>
                  /\ Names(c)' \notin {Null, <<>>}
                  /\ LastMark(c) = 0 => Names(c)' = Names(c)
    BY <1>5, <1>7, <1>9, <1>10
  <2>4. CommandsOK(d)' /\ CommandsOK(s)'
    BY <2>1, <2>2, <2>3, CommandsMoved
  <2>5. CommandsOK(<<>>)'
    <3>1. Len(<<>>) = 0 /\ 1 .. 0 = {}
      OBVIOUS
    <3>2. QED BY <3>1 DEF CommandsOK
  <2>6. \A c \in Branch : Deletes(c, Done)' = Deletes(c, Done)
    BY <1>5, <1>9, <1>10
  <2>7. QED BY <1>1, <1>2, <1>3, <2>2, <2>4, <2>5, <2>6 DEF Queued, Waiting
<1>27. Tagged'
  <2> SUFFICES ASSUME NEW c \in TagBranch, Top(c)' # <<>> \/ Opened(c)'
               PROVE  c \in annotatedTags'
    BY <1>1, <1>3, <1>7 DEF Tagged
  <2>1. c \in Branch
    BY RepositoryAssumption
  <2>2. annotatedTags' = IF b \in TagBranch THEN annotatedTags \cup {b} ELSE annotatedTags
    BY <1>1, <1>4 DEF Annotated
  <2>3. QED BY <1>2, <1>3, <1>7, <1>16, <2>1, <2>2 DEF Tagged
<1>28. Kept'
  BY <1>1, <1>2, <1>7, <1>8, KeptSame
<1>29. QED
  BY <1>6, <1>17, <1>18, <1>19, <1>20, <1>21, <1>22, <1>23, <1>24, <1>25, <1>26, <1>27, <1>28
     DEF ExportInv

-----------------------------------------------------------------------------
(* A queued command *)

\* What a command of the queue does to the process.
LEMMA WriteStore ==
    ASSUME Undisturbed, Ready, WriteReset
    PROVE  LET cmd == Head(queue)
               b   == cmd.branch
           IN  /\ cmd \in Command(rev) /\ b \in Branch /\ Len(queue) # 0 /\ cmd = queue[1]
               /\ cmd.rev = rev /\ cmd.mark \in 0 .. last_commit_mark /\ cmd.mark \in Mark
               /\ Value(cmd.mark) \in History /\ (cmd.mark = 0 <=> Value(cmd.mark) = <<>>)
               /\ processHasStarted /\ ~ fi'.dead /\ fi' \in Process
               /\ fi'.mark = fi.mark /\ fi'.blob = fi.blob /\ fi'.tag = fi.tag
               /\ \A c \in Branch : /\ c # b => fi'.tab[c] = fi.tab[c]
                                    /\ c # b => (c \in fi'.del <=> c \in fi.del)
               /\ fi'.tab[b] = Value(cmd.mark)
               /\ cmd.mark = 0 => b \in fi'.del
               /\ log' = Append(log, [rev |-> rev, branch |-> b, mark |-> cmd.mark])
               /\ fi'.backup = IF cmd.backup
                               THEN {k \in fi.backup : <<k.branch, k.rev>> # <<b, rev>>}
                                    \cup {[branch |-> b, rev |-> rev, tip |-> Names(b)]}
                               ELSE fi.backup
<1> DEFINE cmd == Head(queue)
           b   == cmd.branch
           f   == IF cmd.backup THEN Git!Backup(fi, disk, b, cmd.rev) ELSE fi
           g   == CASE f.dead -> f
                    [] ~ f.dead /\ cmd.to = Null -> Git!ResetToNull(f, b)
                    [] ~ f.dead /\ cmd.to # Null /\ cmd.mark # 0 ->
                           Git!ResetToMark(f, b, cmd.mark)
                    [] OTHER -> Git!ResetToRef(f, disk, b, cmd.to)
<1>1. /\ phase = "commit" /\ queue # <<>> /\ ~ fi.dead
      /\ fi' = g
      /\ log' = IF g.dead THEN log
                ELSE Append(log, [rev |-> cmd.rev, branch |-> b, mark |-> cmd.mark])
  BY DEF WriteReset
<1>2. /\ cmd \in Command(rev) /\ b \in Branch /\ Len(queue) # 0 /\ cmd = queue[1]
      /\ 1 \in 1 .. Len(queue)
  <2>1. queue \in Seq(Command(rev)) /\ Len(queue) \in Nat
        /\ \A i \in 1 .. Len(queue) : queue[i] \in Command(rev) /\ queue[i].branch \in Branch
    BY QueueFacts
  <2>2. Len(queue) # 0 /\ 1 \in 1 .. Len(queue) /\ Head(queue) = queue[1]
    BY <1>1, <2>1
  <2>3. QED BY <2>1, <2>2
<1>3. /\ Used(queue) /\ CommandsOK(queue) /\ Marks /\ IInv /\ UsedMarks /\ StoreOK
      /\ processHasStarted /\ fi \in Process /\ disk \in Disk /\ last_commit_mark \in Nat
      /\ rev \in Nat
  BY <1>1, ReadyFacts, ReadyTypes, MarkFacts DEF UsedMarks, Queued, StoreOK
<1>4. /\ cmd.rev = rev /\ cmd.mark \in Mark /\ cmd.mark <= last_commit_mark
      /\ cmd.backup \in BOOLEAN
  BY <1>2, <1>3 DEF Used, Command
<1>5. /\ (cmd.to = Null) = (cmd.mark = 0)
      /\ cmd.backup => Names(b) \notin {Null, <<>>}
  BY <1>2, <1>3 DEF CommandsOK
<1>6. cmd.mark \in 0 .. last_commit_mark
  BY <1>3, <1>4, Bounds DEF Mark
<1>7. cmd.mark # 0 => /\ cmd.mark \in CommitMark /\ fi.mark[cmd.mark] # Null
                      /\ fi.mark[cmd.mark] \in History /\ fi.mark[cmd.mark] # <<>>
                      /\ Value(cmd.mark) = fi.mark[cmd.mark]
  <2> SUFFICES ASSUME cmd.mark # 0
               PROVE  /\ cmd.mark \in CommitMark /\ fi.mark[cmd.mark] # Null
                      /\ fi.mark[cmd.mark] \in History /\ fi.mark[cmd.mark] # <<>>
                      /\ Value(cmd.mark) = fi.mark[cmd.mark]
    OBVIOUS
  <2>1. cmd.mark \in 1 .. last_commit_mark
    BY <1>3, <1>6
  <2>2. MarkTable = fi.mark
    BY <1>3 DEF MarkTable
  <2>3. /\ cmd.mark \in CommitMark /\ MarkTable[cmd.mark] # Null
        /\ MarkTable[cmd.mark] \in History /\ MarkTable[cmd.mark] # <<>>
    BY <1>3, <2>1, MarkFacts
  <2> HIDE DEF cmd
  <2>4. QED BY <2>2, <2>3 DEF Value
<1> HIDE DEF cmd
<1>8. /\ f \in Process /\ ~ f.dead /\ f.mark = fi.mark /\ f.blob = fi.blob /\ f.tag = fi.tag
      /\ f.tab = fi.tab /\ f.del = fi.del
      /\ f.backup = IF cmd.backup
                    THEN {k \in fi.backup : <<k.branch, k.rev>> # <<b, rev>>}
                         \cup {[branch |-> b, rev |-> rev, tip |-> Names(b)]}
                    ELSE fi.backup
  <2>1. CASE cmd.backup
    <3>1. Git!RefTip(fi, disk, b) = Names(b) /\ Names(b) # Null
      BY <1>3, <1>5, <2>1 DEF Names
    <3>2. f = [fi EXCEPT !.backup =
                  {k \in @ : <<k.branch, k.rev>> # <<b, rev>>}
                    \cup {[branch |-> b, rev |-> rev, tip |-> Names(b)]}]
      BY <1>4, <2>1, <3>1 DEF Git!Backup
    <3>3. f \in Process
      BY <1>2, <1>3, <1>4, <2>1, ResetFacts
    <3> HIDE DEF f
    <3>4. QED BY <1>1, <1>3, <2>1, <3>2, <3>3 DEF Process
  <2>2. CASE ~ cmd.backup
    BY <1>1, <1>3, <2>2
  <2>3. QED BY <2>1, <2>2
<1> HIDE DEF f
<1>9. /\ fi' \in Process /\ ~ fi'.dead
      /\ fi'.mark = f.mark /\ fi'.blob = f.blob /\ fi'.tag = f.tag /\ fi'.backup = f.backup
      /\ \A c \in Branch : /\ c # b => fi'.tab[c] = f.tab[c]
                           /\ c # b => (c \in fi'.del <=> c \in f.del)
      /\ fi'.tab[b] = Value(cmd.mark)
      /\ cmd.mark = 0 => b \in fi'.del
  <2>1. CASE cmd.mark = 0
    <3>1. fi' = Git!ResetToNull(f, b)
      BY <1>1, <1>5, <1>8, <2>1
    <3>2. fi' \in Process
      BY <1>2, <1>3, <1>8, <3>1, ResetFacts
    <3>3. fi' = [f EXCEPT !.tab[b] = <<>>, !.del = @ \cup {b}]
      BY <3>1 DEF Git!ResetToNull
    <3>4. Value(cmd.mark) = <<>>
      BY <2>1 DEF Value
    <3>5. QED BY <1>2, <1>8, <3>2, <3>3, <3>4 DEF Process
  <2>2. CASE cmd.mark # 0
    <3>1. fi' = Git!ResetToMark(f, b, cmd.mark)
      BY <1>1, <1>5, <1>8, <2>2
    <3>2. fi' \in Process
      BY <1>2, <1>3, <1>7, <1>8, <2>2, <3>1, ResetFacts
    <3>3. fi' = [f EXCEPT !.tab[b] = Value(cmd.mark)]
      BY <1>7, <1>8, <2>2, <3>1 DEF Git!ResetToMark
    <3>4. QED BY <1>2, <1>8, <2>2, <3>2, <3>3 DEF Process
  <2>3. QED BY <2>1, <2>2
<1>10. log' = Append(log, [rev |-> rev, branch |-> b, mark |-> cmd.mark])
  BY <1>1, <1>4, <1>9
<1>11. /\ Value(cmd.mark) \in History /\ (cmd.mark = 0 <=> Value(cmd.mark) = <<>>)
  <2>1. <<>> \in History
    BY DEF History
  <2>2. cmd.mark = 0 => Value(cmd.mark) = <<>>
    BY DEF Value
  <2>3. QED BY <1>7, <2>1, <2>2
<1> HIDE DEF g
<1>12. QED
  BY <1>2, <1>3, <1>4, <1>6, <1>8, <1>9, <1>10, <1>11 DEF cmd

\* The commands that are left.
LEMMA CommandsLeft ==
    ASSUME NEW S, NEW q \in Seq(S), q # <<>>, CommandsOK(q),
           \A i \in 1 .. Len(q) : q[i].branch \in Branch,
           \A b \in Branch :
               /\ LastMark(b)' = LastMark(b) /\ Prior(b)' = Prior(b)
               /\ Copies(b, Done)' = Copies(b, Done) /\ Deletes(b, Done)' = Deletes(b, Done)
               /\ b # q[1].branch => Names(b)' = Names(b),
           q[1].mark # 0 => Names(q[1].branch)' \notin {Null, <<>>}
    PROVE  CommandsOK(Tail(q))'
<1> DEFINE p == Tail(q)
<1>1. /\ Len(q) \in Nat /\ Len(q) # 0 /\ Len(p) = Len(q) - 1
      /\ \A i \in 1 .. Len(p) : p[i] = q[i + 1]
  OBVIOUS
<1> HIDE DEF p
<1>2. \A i \in 1 .. Len(p) : i + 1 \in 1 .. Len(q) /\ i + 1 # 1 /\ 1 \in 1 .. Len(q)
  BY <1>1
<1>3. ASSUME NEW i \in 1 .. Len(p)
      PROVE  /\ (p[i].to = Null) = (p[i].mark = 0)
             /\ (\A j \in i + 1 .. Len(p) : p[j].branch # p[i].branch) =>
                   p[i].mark = LastMark(p[i].branch)'
             /\ p[i].backup => Names(p[i].branch)' \notin {Null, <<>>}
             /\ p[i].to # Null => Copies(p[i].branch, Done)' # {}
             /\ p[i].to = Null => /\ p[i].backup /\ Names(p[i].branch)' = Prior(p[i].branch)'
                             /\ Deletes(p[i].branch, Done)' # {}
                             /\ \A j \in 1 .. Len(p) : p[j].branch = p[i].branch => j = i
  <2> DEFINE n == i + 1
             b == q[n].branch
  <2>1. /\ (q[n].to = Null) = (q[n].mark = 0)
        /\ (\A j \in n + 1 .. Len(q) : q[j].branch # b) => q[n].mark = LastMark(b)
        /\ q[n].backup => Names(b) \notin {Null, <<>>}
        /\ q[n].to # Null => Copies(b, Done) # {}
        /\ q[n].to = Null => /\ q[n].backup /\ Names(b) = Prior(b)
                             /\ Deletes(b, Done) # {}
                             /\ \A j \in 1 .. Len(q) : q[j].branch = b => j = n
    BY <1>2 DEF CommandsOK
  <2>2. /\ (q[1].to = Null) = (q[1].mark = 0)
        /\ q[1].to = Null => \A j \in 1 .. Len(q) : q[j].branch = q[1].branch => j = 1
    BY <1>2 DEF CommandsOK
  <2>3. /\ LastMark(b)' = LastMark(b) /\ Prior(b)' = Prior(b)
        /\ Copies(b, Done)' = Copies(b, Done) /\ Deletes(b, Done)' = Deletes(b, Done)
        /\ b # q[1].branch => Names(b)' = Names(b)
    BY <1>2
  <2>4. p[i] = q[n] /\ n \in 1 .. Len(q) /\ n # 1
    BY <1>1, <1>2
  <2>5. \A j \in n + 1 .. Len(q) : j - 1 \in i + 1 .. Len(p) /\ p[j - 1] = q[j]
    BY <1>1
  <2>6. \A j \in 1 .. Len(p) : p[j] = q[j + 1] /\ j + 1 \in 1 .. Len(q)
    BY <1>1
  <2>7. b = q[1].branch => /\ q[1].mark # 0 /\ q[n].to # Null
                           /\ Names(b)' \notin {Null, <<>>}
    <3> SUFFICES ASSUME b = q[1].branch
                 PROVE  /\ q[1].mark # 0 /\ q[n].to # Null
                        /\ Names(b)' \notin {Null, <<>>}
      OBVIOUS
    <3>1. q[1].to # Null
      BY <2>2, <2>4
    <3>2. q[n].to # Null
      BY <1>2, <2>1, <2>4
    <3>3. Names(b)' = Names(q[1].branch)'
      OBVIOUS
    <3>4. QED BY <2>2, <3>1, <3>2, <3>3
  <2> HIDE DEF b, n
  <2>8. (\A j \in i + 1 .. Len(p) : p[j].branch # b) => q[n].mark = LastMark(b)'
    BY <2>1, <2>3, <2>5
  <2>9. q[n].to = Null => \A j \in 1 .. Len(p) : p[j].branch = b => j = i
    BY <2>1, <2>6 DEF n
  <2>10. /\ q[n].backup => Names(b)' \notin {Null, <<>>}
         /\ q[n].to = Null => Names(b)' = Names(b)
    BY <2>1, <2>3, <2>7
  <2>11. p[i].branch = b
    BY <2>4 DEF b
  <2>12. QED BY <2>1, <2>3, <2>4, <2>8, <2>9, <2>10, <2>11
<1>4. CommandsOK(p)'
  BY <1>3 DEF CommandsOK
<1>5. QED BY <1>4 DEF p

\* What is waiting in a queue without its first command.
LEMMA WaitingLeft ==
    ASSUME NEW S, NEW q \in Seq(S), q # <<>>
    PROVE  /\ \A c : c # q[1].branch => (Waiting(Tail(q), c) <=> Waiting(q, c))
           /\ \A c : Waiting(Tail(q), c) => Waiting(q, c)
           /\ Waiting(q, q[1].branch)
           /\ ~ Waiting(Tail(q), q[1].branch) =>
                 \A j \in 1 + 1 .. Len(q) : q[j].branch # q[1].branch
<1> DEFINE p == Tail(q)
<1>1. /\ Len(q) \in Nat /\ Len(q) # 0 /\ Len(p) = Len(q) - 1
      /\ \A i \in 1 .. Len(p) : p[i] = q[i + 1]
  OBVIOUS
<1> HIDE DEF p
<1>2. \A i \in 1 .. Len(p) : i + 1 \in 1 .. Len(q) /\ p[i] = q[i + 1]
  BY <1>1
<1>3. \A i \in 1 .. Len(q) : i = 1 \/ (i - 1 \in 1 .. Len(p) /\ p[i - 1] = q[i])
  BY <1>1
<1>4. 1 \in 1 .. Len(q) /\ \A j \in 1 + 1 .. Len(q) : j \in 1 .. Len(q) /\ j # 1
  BY <1>1
<1>5. \A c : Waiting(p, c) => Waiting(q, c)
  BY <1>2 DEF Waiting
<1>6. \A c : c # q[1].branch /\ Waiting(q, c) => Waiting(p, c)
  BY <1>3 DEF Waiting
<1>7. Waiting(q, q[1].branch)
  BY <1>4 DEF Waiting
<1>8. ~ Waiting(p, q[1].branch) => \A j \in 1 + 1 .. Len(q) : q[j].branch # q[1].branch
  BY <1>3, <1>4 DEF Waiting
<1>9. QED BY <1>5, <1>6, <1>7, <1>8 DEF p

\* A deletion or a reset is written, its backup first.
LEMMA ExportWriteReset ==
    ASSUME Undisturbed, Ready, WriteReset
    PROVE  ExportInv'
<1>1. /\ phase = "commit" /\ phase' = "commit" /\ queue # <<>> /\ queue' = Tail(queue)
      /\ UNCHANGED <<branches, last_commit_mark, next_file_mark, transactions,
                     deletedBranches, resetBranches, annotatedTags, processHasStarted, rev,
                     todo, disk, tagsFile, svn, tips, pos>>
  BY DEF WriteReset, memory, marking, history
<1>2. /\ Calm /\ Seen /\ Marks /\ Heads /\ Dates /\ Points /\ Logged /\ Ended
      /\ Progress /\ Held /\ Queued /\ Tagged /\ Kept
      /\ IInv /\ UsedMarks /\ StoreOK
  BY ReadyFacts
<1>3. PICK cmd, b : cmd = Head(queue) /\ b = cmd.branch
  OBVIOUS
<1>4. /\ cmd \in Command(rev) /\ b \in Branch /\ Len(queue) # 0 /\ cmd = queue[1]
      /\ cmd.rev = rev /\ cmd.mark \in 0 .. last_commit_mark /\ cmd.mark \in Mark
      /\ Value(cmd.mark) \in History /\ (cmd.mark = 0 <=> Value(cmd.mark) = <<>>)
      /\ processHasStarted /\ ~ fi'.dead /\ fi' \in Process
      /\ fi'.mark = fi.mark /\ fi'.blob = fi.blob /\ fi'.tag = fi.tag
      /\ \A c \in Branch : /\ c # b => fi'.tab[c] = fi.tab[c]
                           /\ c # b => (c \in fi'.del <=> c \in fi.del)
      /\ fi'.tab[b] = Value(cmd.mark)
      /\ cmd.mark = 0 => b \in fi'.del
      /\ log' = Append(log, [rev |-> rev, branch |-> b, mark |-> cmd.mark])
      /\ fi'.backup = IF cmd.backup
                      THEN {k \in fi.backup : <<k.branch, k.rev>> # <<b, rev>>}
                           \cup {[branch |-> b, rev |-> rev, tip |-> Names(b)]}
                      ELSE fi.backup
  BY <1>3, WriteStore
<1>5. /\ rev \in Nat /\ rev # 0 /\ deletedBranches = <<>> /\ resetBranches = <<>>
      /\ Exporting /\ Exporting' /\ Active /\ Active' /\ log \in Seq(Line)
      /\ Len(log) \in Nat /\ todo = <<>>
  BY <1>1, <1>2, ReadyTypes DEF Exporting, Active, Seen, TodoOK
<1>6. /\ Done = Len(Asked) /\ Len(Asked) \in Nat /\ Done \in 0 .. Len(Asked)
      /\ Len(tips) = rev
  BY <1>5, AskedFacts DEF Done
<1>7. /\ MarkTable' = MarkTable /\ BlobTable' = BlobTable
      /\ \A m : Value(m)' = Value(m)
      /\ \A c : LastMark(c)' = LastMark(c) /\ Top(c)' = Top(c)
      /\ \A c : Opened(c)' = Opened(c)
      /\ \A c : Prior(c)' = Prior(c)
  <2>1. MarkTable' = MarkTable /\ BlobTable' = BlobTable
    BY <1>1, <1>4 DEF MarkTable, BlobTable
  <2>2. QED BY <1>1, <2>1, DoneSame DEF Value, LastMark, Top, Opened
<1>8. /\ \A c \in Branch : c # b => Names(c)' = Names(c)
      /\ cmd.mark # 0 => Names(b)' \notin {Null, <<>>}
  <2>1. \A c \in Branch : c # b => Names(c)' = Names(c)
    BY <1>1, <1>4 DEF Names, Git!RefTip
  <2>2. cmd.mark # 0 => Names(b)' \notin {Null, <<>>}
    BY <1>1, <1>4 DEF Names, Git!RefTip, Undisturbed, NullIsNoHistory
  <2>3. QED BY <2>1, <2>2
<1>9. queue \in Seq(Command(rev)) /\ \A i \in 1 .. Len(queue) : queue[i].branch \in Branch
  BY QueueFacts
<1>10. /\ \A c : c # b => (Waiting(Tail(queue), c) <=> Waiting(queue, c))
       /\ \A c : Waiting(Tail(queue), c) => Waiting(queue, c)
       /\ Waiting(queue, b)
       /\ ~ Waiting(Tail(queue), b) => \A j \in 1 + 1 .. Len(queue) : queue[j].branch # b
  BY <1>1, <1>3, <1>4, <1>9, WaitingLeft
<1>11. /\ \A c : Pending(c)' <=> Waiting(Tail(queue), c)
       /\ \A c : Pending(c) <=> Waiting(queue, c)
       /\ \A c : c # b => (Pending(c)' <=> Pending(c))
  <2>1. \A c : ~ Waiting(<<>>, c)
    <3>1. 1 .. Len(<<>>) = {}
      OBVIOUS
    <3>2. QED BY <3>1 DEF Waiting
  <2>2. PICK p : p = Tail(queue)
    OBVIOUS
  <2>3. deletedBranches' = <<>> /\ resetBranches' = <<>> /\ queue' = p
    BY <1>1, <1>5, <2>2
  <2>4. \A c : Pending(c)' <=> Waiting(p, c)
    BY <2>1, <2>3 DEF Pending, Waiting
  <2>5. \A c : Pending(c) <=> Waiting(queue, c)
    BY <1>5, <2>1 DEF Pending
  <2>6. QED BY <1>10, <2>2, <2>4, <2>5
<1>12. /\ (cmd.to = Null) = (cmd.mark = 0)
       /\ ~ Pending(b)' => cmd.mark = LastMark(b)
       /\ cmd.to # Null => Copies(b, Done) # {}
       /\ cmd.to = Null => cmd.backup /\ Names(b) = Prior(b)
  <2>1. 1 \in 1 .. Len(queue)
    BY <1>4, <1>9
  <2>2. QED BY <1>2, <1>3, <1>4, <1>10, <1>11, <2>1 DEF Queued, CommandsOK
<1>13. Calm'
  BY <1>1, <1>4 DEF Calm
<1>14. Seen'
  BY <1>1, <1>2, <1>5, SeenSame
<1> DEFINE line == [rev |-> rev, branch |-> b, mark |-> cmd.mark]
<1>15. line \in Line
  <2>1. rev \in 1 .. MaxRev
    BY <1>1, <1>2 DEF IInv, DriverOK
  <2>2. QED BY <1>4, <2>1 DEF Line
<1>16. /\ log' \in Seq(Line) /\ log' # <<>> /\ Len(log') = Len(log) + 1
       /\ \A j \in 1 .. Len(log) : log'[j] = log[j]
       /\ log'[Len(log) + 1] = line
       /\ \A j \in 1 .. Len(log') : j \in 1 .. Len(log) \/ j = Len(log) + 1
       /\ \A c, r : LineMark(log', Len(log'), c, r) =
                        IF b = c /\ rev <= r THEN cmd.mark ELSE LineMark(log, Len(log), c, r)
  <2>1. log' = Append(log, line)
    BY <1>4
  <2>2. /\ log' \in Seq(Line) /\ log' # <<>> /\ Len(log') = Len(log) + 1
        /\ \A j \in 1 .. Len(log) : log'[j] = log[j]
        /\ log'[Len(log) + 1] = line
    BY <1>5, <1>15, <2>1, AppendFacts
  <2>3. \A j \in 1 .. Len(log') : j \in 1 .. Len(log) \/ j = Len(log) + 1
    BY <1>5, <2>2
  <2>4. line.branch = b /\ line.rev = rev /\ line.mark = cmd.mark
    OBVIOUS
  <2> HIDE DEF line
  <2>5. \A c, r : LineMark(log', Len(log'), c, r) =
                      IF line.branch = c /\ line.rev <= r THEN line.mark
                      ELSE LineMark(log, Len(log), c, r)
    BY <1>5, <1>15, <2>1, LineMarkAppend
  <2>6. QED BY <2>2, <2>3, <2>4, <2>5
<1>17. Marks'
  <2>1. LinesRead' = Len(log') /\ LinesRead = Len(log)
    BY <1>1 DEF LinesRead
  <2>2. \A m \in 1 .. cmd.mark : MarkTable[m] # Null
    <3>1. last_commit_mark \in Nat /\ \A m \in 1 .. last_commit_mark : MarkTable[m] # Null
      BY <1>2, MarkFacts
    <3>2. \A m \in 1 .. cmd.mark : m \in 1 .. last_commit_mark
      BY <1>4, <3>1
    <3>3. QED BY <3>1, <3>2
  <2>3. last_commit_mark \in Nat
    BY <1>2, MarkFacts
  <2>4. \A j \in 1 .. Len(log') : log'[j].mark <= last_commit_mark
    BY <1>2, <1>4, <1>16, <2>1, <2>3 DEF Marks
  <2>5. \A j \in 1 .. Len(log) : j \in 1 .. Len(log')
    BY <1>5, <1>16
  <2>6. \A m \in CommitMark : MarkTable[m] # Null => \E j \in 1 .. Len(log') : m <= log'[j].mark
    BY <1>2, <1>16, <2>5 DEF Marks
  <2>7. \A j \in 1 .. Len(log') : \A m \in 1 .. log'[j].mark : MarkTable[m] # Null
    BY <1>2, <1>16, <2>2 DEF Marks
  <2>8. last_commit_mark = 0 \/ \E j \in 1 .. Len(log') : log'[j].mark = last_commit_mark
    BY <1>2, <1>16, <2>1, <2>5 DEF Marks
  <2>9. QED BY <1>1, <1>7, <2>1, <2>4, <2>6, <2>7, <2>8 DEF Marks
<1>18. Heads'
  BY <1>1, <1>2, <1>7 DEF Heads
<1>19. Dates'
  BY <1>1, <1>2, <1>7 DEF Dates
<1>20. Points'
  BY <1>1, <1>2, <1>5, <1>7 DEF Points
<1>21. Logged'
  <2>1. ASSUME NEW c \in Branch, NEW r \in 1 .. rev - 1
        PROVE  Value(LineMark(log', Len(log'), c, r)) = tips[r][c]
    <3>1. ~ (rev <= r)
      BY <1>5
    <3>2. Value(LineMark(log, Len(log), c, r)) = tips[r][c]
      BY <1>2 DEF Logged
    <3>3. QED BY <1>16, <3>1, <3>2
  <2>2. ASSUME NEW c \in Branch, ~ Pending(c)', NEW r \in Nat, r >= rev
        PROVE  LineMark(log', Len(log'), c, r) = LastMark(c)
    <3>1. CASE c = b
      <4>1. rev <= r
        BY <1>5, <2>2
      <4>2. cmd.mark = LastMark(b)
        BY <1>12, <2>2, <3>1
      <4>3. QED BY <1>16, <3>1, <4>1, <4>2
    <3>2. CASE c # b
      <4>1. ~ Pending(c)
        BY <1>11, <2>2, <3>2
      <4>2. LineMark(log, Len(log), c, r) = LastMark(c)
        BY <1>2, <1>5, <2>2, <4>1 DEF Logged
      <4>3. QED BY <1>16, <3>2, <4>2
    <3>3. QED BY <3>1, <3>2
  <2>3. PICK n, l : n = Len(log') /\ l = log'
    OBVIOUS
  <2>4. \A c \in Branch, r \in 1 .. rev - 1 : Value(LineMark(l, n, c, r))' = tips[r][c]
    <3>1. \A c \in Branch, r \in 1 .. rev - 1 : Value(LineMark(l, n, c, r)) = tips[r][c]
      BY <2>1, <2>3
    <3>2. \A c, r : Value(LineMark(l, n, c, r))' = Value(LineMark(l, n, c, r))
      BY <1>7 DEF Value
    <3>3. QED BY <3>1, <3>2
  <2>5. \A c \in Branch : ~ Pending(c)' =>
            \A r \in Nat : r >= rev' => LineMark(l, n, c, r) = LastMark(c)'
    BY <1>1, <1>7, <2>2, <2>3
  <2>6. phase' # "down" /\ tips' = tips /\ rev' = rev /\ Len(log') = n /\ log' = l
    BY <1>1, <2>3
  <2>7. QED BY <2>4, <2>5, <2>6 DEF Logged
<1>22. Ended'
  BY <1>1, <1>5, <1>16 DEF Ended
<1>23. Progress'
  <2>1. /\ \A c : BaseOf(c, Done)' = BaseOf(c, Done) /\ Changes(c, Done)' = Changes(c, Done)
        /\ \A c : MergedInto(c, Done)' = MergedInto(c, Done) /\ FilesOf(c, Done)' = FilesOf(c, Done)
    BY <1>1, DoneSame
  <2>2. ASSUME NEW c \in Branch
        PROVE  IF Opened(c)' THEN Top(c)' = BaseOf(c, Done)' /\ Changes(c, Done)' # {}
               ELSE Top(c)' = tips'[rev'][c]
    <3>1. IF Opened(c) THEN Top(c) = BaseOf(c, Done) /\ Changes(c, Done) # {}
          ELSE Top(c) = tips[rev][c]
      BY <1>1, <1>2 DEF Progress
    <3>2. Opened(c)' = Opened(c) /\ Top(c)' = Top(c) /\ tips' = tips /\ rev' = rev
      BY <1>1, <1>7
    <3>3. QED BY <2>1, <3>1, <3>2
  <2>3. ASSUME NEW t \in transactions'
        PROVE  /\ {BlobTable'[m] : m \in t.files} = FilesOf(t.branch, Done)'
               /\ \A m \in t.files : m > next_file_mark'
               /\ t.merges \subseteq 1 .. last_commit_mark'
               /\ {MarkTable'[m] : m \in t.merges} = MergedInto(t.branch, Done)'
    <3>1. /\ {BlobTable[m] : m \in t.files} = FilesOf(t.branch, Done)
          /\ \A m \in t.files : m > next_file_mark
          /\ t.merges \subseteq 1 .. last_commit_mark
          /\ {MarkTable[m] : m \in t.merges} = MergedInto(t.branch, Done)
      BY <1>1, <1>2, <1>5 DEF Progress
    <3>2. /\ next_file_mark' = next_file_mark /\ last_commit_mark' = last_commit_mark
          /\ MarkTable' = MarkTable /\ BlobTable' = BlobTable
      BY <1>1, <1>7
    <3>3. /\ FilesOf(t.branch, Done)' = FilesOf(t.branch, Done)
          /\ MergedInto(t.branch, Done)' = MergedInto(t.branch, Done)
      BY <2>1
    <3>4. QED BY ONLY <3>1, <3>2, <3>3
  <2>4. phase' # "idle" /\ phase' # "prepare"
    BY <1>1
  <2>5. QED BY <2>2, <2>3, <2>4 DEF Progress
<1>24. Held'
  <2> SUFFICES ASSUME NEW c \in Branch, ~ Pending(c)'
               PROVE  HoldsRunning(fi', disk', c, Top(c)')
    BY <1>1, <1>4, <1>5 DEF Held, Holds
  <2>1. CASE c # b
    <3>1. HoldsRunning(fi, disk, c, Top(c))
      BY <1>2, <1>4, <1>5, <1>11, <2>1 DEF Held, Holds
    <3>2. fi'.tab[c] = fi.tab[c] /\ (c \in fi'.del <=> c \in fi.del) /\ disk' = disk
      BY <1>1, <1>4, <2>1
    <3>3. QED BY <1>7, <3>1, <3>2 DEF HoldsRunning
  <2>2. CASE c = b
    <3>1. Top(b) = Value(cmd.mark)
      BY <1>12, <2>2 DEF Top
    <3>2. QED BY <1>4, <1>7, <2>2, <3>1 DEF HoldsRunning
  <2>3. QED BY <2>1, <2>2
<1>25. Queued'
  <2>1. PICK q : q = queue
    OBVIOUS
  <2>2. \A c \in Branch :
               /\ LastMark(c)' = LastMark(c) /\ Prior(c)' = Prior(c)
               /\ Copies(c, Done)' = Copies(c, Done) /\ Deletes(c, Done)' = Deletes(c, Done)
               /\ c # q[1].branch => Names(c)' = Names(c)
    BY <1>1, <1>3, <1>4, <1>7, <1>8, <2>1, DoneSame
  <2>3. /\ q \in Seq(Command(rev)) /\ q # <<>> /\ CommandsOK(q)
        /\ \A i \in 1 .. Len(q) : q[i].branch \in Branch
        /\ q[1].mark # 0 => Names(q[1].branch)' \notin {Null, <<>>}
    BY <1>1, <1>2, <1>3, <1>4, <1>8, <1>9, <2>1 DEF Queued
  <2>4. CommandsOK(Tail(q))'
    BY <2>2, <2>3, CommandsLeft
  <2>5. CommandsOK(<<>>)'
    <3>1. Len(<<>>) = 0 /\ 1 .. 0 = {}
      OBVIOUS
    <3>2. QED BY <3>1 DEF CommandsOK
  <2>6. Len(<<>>) = 0 /\ 1 .. 0 = {}
    OBVIOUS
  <2>7. PICK p : p = Tail(q)
    OBVIOUS
  <2>8. CommandsOK(p)' /\ queue' = p
    BY <1>1, <2>1, <2>4, <2>7
  <2>9. QED BY <1>1, <1>5, <2>5, <2>6, <2>8 DEF Queued
<1>26. Tagged'
  BY <1>1, <1>2, <1>4, <1>5, <1>7 DEF Tagged
<1>27. Kept'
  <2>1. \A c, r : Removed(c, r)' = Removed(c, r)
    BY <1>1 DEF Removed
  <2>2. Removed(b, rev) => cmd.to = Null
    <3> SUFFICES ASSUME Removed(b, rev) PROVE Copies(b, Done) = {}
      BY <1>12
    <3>1. Deletes(b, Done) # {}
      BY <1>4, <1>5, <1>6, RemovedHow DEF Undisturbed
    <3>2. QED BY <1>4, <1>5, <1>6, <3>1, BaseFacts
  <2>3. /\ \A k \in Saves' : k \in Saves \/ k = [branch |-> b, rev |-> rev, tip |-> Names(b)]
        /\ \A k \in Saves : k \in Saves' \/ (k.branch = b /\ k.rev = rev)
        /\ cmd.backup => [branch |-> b, rev |-> rev, tip |-> Names(b)] \in Saves'
    <3>1. Saves' = fi'.backup \cup disk.backup /\ Saves = fi.backup \cup disk.backup
      BY <1>1 DEF Saves
    <3>2. QED BY <1>4, <3>1
  <2>4. ASSUME NEW k \in Saves'
        PROVE  /\ k.rev \in 1 .. Len(tips)
               /\ Removed(k.branch, k.rev) => k.tip = TipsAt(tips, k.rev - 1)[k.branch]
    <3>1. CASE k \in Saves
      BY <1>2, <3>1 DEF Kept
    <3>2. CASE k = [branch |-> b, rev |-> rev, tip |-> Names(b)]
      <4>1. k.branch = b /\ k.rev = rev /\ k.tip = Names(b)
        BY <3>2
      <4>2. Removed(b, rev) => Names(b) = TipsAt(tips, rev - 1)[b]
        BY <1>12, <2>2 DEF Prior
      <4>3. rev \in 1 .. Len(tips)
        BY <1>5, <1>6
      <4>4. QED BY <4>1, <4>2, <4>3
    <3>3. QED BY <2>3, <3>1, <3>2
  <2>5. ASSUME NEW c \in Branch, NEW r \in 1 .. Len(tips), Removed(c, r),
               r < rev \/ ~ Pending(c)'
        PROVE  \E k \in Saves' : k.branch = c /\ k.rev = r
    <3>1. CASE r < rev \/ c # b
      <4>1. r < rev \/ ~ Pending(c)
        BY <1>11, <2>5, <3>1
      <4>2. PICK k \in Saves : k.branch = c /\ k.rev = r
        BY <1>1, <1>2, <2>5, <4>1 DEF Kept
      <4>3. ~ (k.branch = b /\ k.rev = rev)
        BY <1>5, <3>1, <4>2
      <4>4. QED BY <2>3, <4>2, <4>3
    <3>2. CASE ~ (r < rev) /\ c = b
      <4>1. r = rev
        BY <1>5, <1>6, <3>2
      <4>2. cmd.backup
        BY <1>12, <2>2, <2>5, <3>2, <4>1
      <4>3. QED BY <2>3, <3>2, <4>1, <4>2
    <3>3. QED BY <3>1, <3>2
  <2>6. QED BY <1>1, <2>1, <2>4, <2>5 DEF Kept
<1>28. QED
  BY <1>13, <1>14, <1>17, <1>18, <1>19, <1>20, <1>21, <1>22, <1>23, <1>24, <1>25, <1>26, <1>27
     DEF ExportInv

-----------------------------------------------------------------------------
(* A commit *)

\* What the commit of a transaction does to the process, its marks and the branches.
LEMMA CommitStore ==
    ASSUME Undisturbed, Ready, NEW txn \in transactions, CommitTransaction(txn)
    PROVE  LET b    == txn.branch
               mark == last_commit_mark + 1
               new  == tips[rev][b]
               f    == Running(branches)
           IN  /\ b \in Branch /\ mark \in CommitMark /\ mark \in Mark
               /\ last_commit_mark \in Nat /\ last_commit_mark' = mark
               /\ phase = "commit" /\ phase' = "commit" /\ queue = <<>>
               /\ new \in History /\ new # <<>> /\ HeadOf(new) = <<b, rev>>
               /\ processHasStarted' = TRUE /\ fi' \in Process /\ ~ fi'.dead
               /\ \A n \in CommitMark : MarkTable'[n] = IF n = mark THEN new ELSE MarkTable[n]
               /\ MarkTable[mark] = Null
               /\ BlobTable' = BlobTable
               /\ \A a \in Branch : fi'.tab[a] = IF a = b THEN new ELSE f.tab[a]
               /\ fi'.del = f.del /\ fi'.backup = f.backup
               /\ \A a \in Branch : fi'.tag[a] = Null
               /\ log' = Append(log, [rev |-> rev, branch |-> b, mark |-> mark])
               /\ transactions' = transactions \ {txn}
               /\ \E created \in Nat :
                     /\ branches' = [branches EXCEPT ![b] =
                                        Extended(branches[b], rev, mark, created)]
                     /\ created # 0 /\ created <= rev
<1> DEFINE b       == txn.branch
           br      == branches[b]
           mark    == last_commit_mark + 1
           parent  == IF HasTip(br) THEN LastOf(br.marks) ELSE 0
           created == IF HasTip(br) THEN br.created ELSE rev
           f       == Running(branches)
           merges  == txn.merges \ {parent}
           lost    == {m \in merges : f.mark[m] = Null}
           commit  == [branch |-> b, rev |-> rev,
                       files  |-> {f.blob[m] : m \in txn.files},
                       merges |-> {HeadOf(f.mark[m]) : m \in merges \ lost}]
           g       == IF f.dead \/ lost # {} THEN Git!Die(f)
                      ELSE Git!Commit(f, b, mark, commit)
<1>1. phase = "commit" /\ queue = <<>> /\ ~ InConflict(b)
  BY DEF CommitTransaction, InConflict, Undisturbed
<1>2. /\ mark \in CommitMark /\ last_commit_mark' = mark
      /\ branches' = [branches EXCEPT ![b] = Extended(br, rev, mark, created)]
      /\ fi' = g
      /\ processHasStarted' = TRUE
      /\ log' = IF g.dead THEN log
                ELSE Append(log, [rev |-> rev, branch |-> b, mark |-> mark])
      /\ transactions' = transactions \ {txn}
      /\ phase' = phase /\ disk' = disk
  BY <1>1 DEF CommitTransaction
<1>3. /\ Calm /\ Seen /\ Marks /\ Heads /\ Dates /\ Held /\ Progress /\ Tagged
      /\ IInv /\ UsedMarks /\ StoreOK
  BY ReadyFacts
<1>4. /\ rev \in Nat /\ rev # 0 /\ deletedBranches = <<>> /\ resetBranches = <<>>
      /\ Exporting /\ Active /\ todo = <<>> /\ last_commit_mark \in Nat
      /\ branches \in [Branch -> Entry]
  BY <1>1, <1>3, ReadyTypes, MarkFacts DEF Exporting, Active, Seen, TodoOK
<1>5. b \in Branch /\ txn.merges \subseteq 1 .. last_commit_mark /\ Opened(b)
      /\ txn.files \subseteq FileMark
      /\ {BlobTable[m] : m \in txn.files} = FilesOf(b, Done)
      /\ {MarkTable[m] : m \in txn.merges} = MergedInto(b, Done)
  BY <1>3, <1>4 DEF IInv, TransactionsOK, Transaction, Progress, Opened, StoreOK
<1>6. /\ Done = Len(Asked) /\ Done \in 0 .. Len(Asked)
      /\ Top(b) = BaseOf(b, Done) /\ Changes(b, Done) # {}
      /\ tips[rev][b] = Called(b, Done)
  <2>1. Done = Len(Asked) /\ Done \in 0 .. Len(Asked)
    BY <1>4, AskedFacts DEF Done
  <2>2. tips[rev][b] = Called(b, Done)
    BY <1>4, <1>5, <2>1, AskedFacts
  <2>3. QED BY <1>1, <1>3, <1>5, <2>1, <2>2 DEF Progress
<1>7. parent = LastMark(b) /\ created \in Nat /\ created # 0 /\ created <= rev
  <2>1. br \in Entry /\ br.created \in Nat
    BY <1>4, <1>5 DEF Entry
  <2>2. LastMark(b) # 0 => br.created # 0 /\ br.created <= rev
    <3> SUFFICES ASSUME LastMark(b) # 0 PROVE br.created # 0 /\ br.created <= rev
      OBVIOUS
    <3>1. br.marks # <<>>
      BY DEF LastMark, LastOf
    <3>2. br.marks \in Seq(Mark) /\ br.commits \in Seq(Nat) /\ Len(br.commits) = Len(br.marks)
      BY <2>1 DEF Entry
    <3>3. br.commits # <<>>
      BY <3>1, <3>2
    <3>4. QED BY <1>3, <1>5, <3>3 DEF Dates
  <2>3. QED BY <1>4, <2>1, <2>2 DEF HasTip, LastMark
<1>8. /\ f \in Process /\ ~ f.dead /\ f.mark = MarkTable /\ f.blob = BlobTable
      /\ \A a \in Branch : f.tag[a] = Null
      /\ HoldsRunning(f, disk, b, Top(b))
  <2>1. ~ Pending(b)
    BY <1>1, <1>4, NothingQueued
  <2>2. Holds(b, Top(b))
    BY <1>3, <1>4, <1>5, <2>1 DEF Held
  <2>3. QED BY <1>1, <1>3, <1>5, <2>2, RunningHolds
<1> HIDE DEF f
<1>9. lost = {}
  <2>1. \A m \in txn.merges : m \in CommitMark /\ MarkTable[m] # Null
    BY <1>3, <1>5, MarkFacts
  <2>2. QED BY <1>8, <2>1
<1>10. (IF f.tab[b] = Null THEN <<>> ELSE f.tab[b]) = Top(b)
  <2>1. Top(b) \in History /\ Top(b) # Null
    BY <1>3, <1>5, TopFacts DEF Undisturbed, NullIsNoHistory
  <2>2. QED BY <1>8, <2>1 DEF HoldsRunning
<1>11. commit = CommitOf(b, Done)
  <2>1. {f.blob[m] : m \in txn.files} = FilesOf(b, Done)
    BY <1>5, <1>8
  <2>2. \A m \in txn.merges : m # parent <=> MarkTable[m] # BaseOf(b, Done)
    <3> SUFFICES ASSUME NEW m \in txn.merges
                 PROVE  m # parent <=> MarkTable[m] # Top(b)
      BY <1>6
    <3>1. m \in CommitMark /\ MarkTable[m] # Null /\ MarkTable[m] # <<>> /\ m # 0
      BY <1>3, <1>5, MarkFacts
    <3>2. CASE LastMark(b) = 0
      BY <1>3, <1>5, <1>7, <3>1, <3>2, TopFacts
    <3>3. CASE LastMark(b) # 0
      <4>1. LastMark(b) \in CommitMark /\ MarkTable[LastMark(b)] # Null
            /\ Top(b) = MarkTable[LastMark(b)]
        BY <1>3, <1>5, <3>3, TopFacts
      <4>2. m # LastMark(b) => MarkTable[m] # MarkTable[LastMark(b)]
        BY <1>3, <3>1, <4>1 DEF Heads
      <4>3. QED BY <1>7, <4>1, <4>2
    <3>4. QED BY <3>2, <3>3
  <2> HIDE DEF parent
  <2>3. {MarkTable[m] : m \in merges} = MergedInto(b, Done) \ {BaseOf(b, Done)}
    BY <1>5, <2>2
  <2>4. {HeadOf(MarkTable[m]) : m \in merges} =
            {HeadOf(h) : h \in MergedInto(b, Done) \ {BaseOf(b, Done)}}
    BY <2>3
  <2> HIDE DEF merges
  <2>5. {HeadOf(f.mark[m]) : m \in merges \ lost} =
            {HeadOf(h) : h \in MergedInto(b, Done) \ {BaseOf(b, Done)}}
    BY <1>8, <1>9, <2>4
  <2> HIDE DEF lost
  <2>6. QED BY <2>1, <2>5 DEF CommitOf
<1> HIDE DEF commit, lost, merges, parent, created
<1>12. commit \in Commitment
  BY <1>4, <1>5, <1>6, <1>11, CommitType DEF Undisturbed
<1>13. fi' = Git!Commit(f, b, mark, commit)
  BY <1>2, <1>8, <1>9
<1>14. /\ fi' \in Process /\ fi'.blob = f.blob /\ ~ fi'.dead
       /\ \A n \in CommitMark : fi'.mark[n] = IF n = mark THEN tips[rev][b] ELSE f.mark[n]
       /\ \A a \in Branch : fi'.tab[a] = IF a = b THEN tips[rev][b] ELSE f.tab[a]
  <2>1. Append(Top(b), commit) = tips[rev][b]
    BY <1>6, <1>11 DEF Called
  <2> DEFINE parent0 == IF f.tab[b] = Null THEN <<>> ELSE f.tab[b]
             p == Git!Commit(f, b, mark, commit)
  <2>2. NullIsNoHistory /\ f \in Process /\ b \in Branch /\ mark \in CommitMark
        /\ commit \in Commitment
    BY <1>2, <1>5, <1>8, <1>12 DEF Undisturbed
  <2>3. /\ p \in Process /\ p.blob = f.blob /\ p.dead = f.dead
        /\ \A n \in CommitMark : p.mark[n] = IF n = mark THEN Append(parent0, commit)
                                           ELSE f.mark[n]
        /\ \A a \in Branch : p.tab[a] = IF a = b THEN Append(parent0, commit) ELSE f.tab[a]
    BY ONLY <2>2, CommitFacts
  <2>4. Append(parent0, commit) = tips[rev][b]
    BY <1>10, <2>1
  <2> HIDE DEF p, parent0
  <2>5. fi' = p
    BY <1>13 DEF p
  <2>6. QED BY <1>8, <2>3, <2>4, <2>5
<1>15. fi'.del = f.del /\ fi'.backup = f.backup /\ fi'.tag = f.tag
  BY <1>8, <1>13 DEF Git!Commit, Process
<1>16. /\ tips[rev][b] \in History /\ tips[rev][b] # <<>> /\ HeadOf(tips[rev][b]) = <<b, rev>>
  <2>1. tips[rev][b] = Append(Top(b), commit) /\ Top(b) \in Seq(Commitment)
    BY <1>3, <1>5, <1>6, <1>11, TopFacts DEF Called, History
  <2>2. commit.branch = b /\ commit.rev = rev
    BY DEF commit
  <2>3. QED BY <1>12, <2>1, <2>2, AppendFacts DEF HeadOf, History
<1>17. log' = Append(log, [rev |-> rev, branch |-> b, mark |-> mark])
  BY <1>2, <1>14
<1>18. MarkTable' = fi'.mark /\ BlobTable' = fi'.blob
  BY <1>2 DEF MarkTable, BlobTable
<1>19. MarkTable[mark] = Null
  <2>1. LinesRead = Len(log)
    BY <1>1 DEF LinesRead
  <2>2. MarkTable[mark] # Null => mark <= last_commit_mark
    BY <1>2, <1>3, <2>1, MarksInUse
  <2>3. QED BY <1>4, <2>2
<1>20. mark \in Mark
  BY <1>2, <1>4, Bounds DEF CommitMark, Mark
<1> HIDE DEF g
<1>21. QED
  BY <1>1, <1>2, <1>4, <1>5, <1>7, <1>8, <1>14, <1>15, <1>16, <1>17, <1>18, <1>19, <1>20
     DEF f

\* A branch with one more commit or reset: nothing in it is later than that.
LEMMA GrownFacts ==
    ASSUME NEW br \in Entry, NEW r \in Nat, NEW m \in Mark, NEW created,
           \A i \in 1 .. Len(br.marks) : br.commits[i] <= r
    PROVE  LET x == Extended(br, r, m, created)
           IN  \A i \in 1 .. Len(x.marks) : x.commits[i] <= r
<1> DEFINE x == Extended(br, r, m, created)
<1>1. x.marks = Append(br.marks, m) /\ x.commits = Append(br.commits, r)
  BY DEF Extended
<1>2. /\ Len(br.marks) \in Nat /\ Len(br.commits) = Len(br.marks)
      /\ br.commits \in Seq(Nat) /\ br.marks \in Seq(Mark)
  BY DEF Entry
<1> HIDE DEF x
<1>3. \A i \in 1 .. Len(x.marks) : i \in 1 .. Len(br.marks) \/ i = Len(br.commits) + 1
  BY <1>1, <1>2
<1>4. /\ \A i \in 1 .. Len(br.marks) : x.commits[i] = br.commits[i]
      /\ x.commits[Len(br.commits) + 1] = r
  BY <1>1, <1>2, AppendFacts
<1>5. QED BY <1>3, <1>4 DEF x

\* A transaction is committed.
LEMMA ExportCommitTransaction ==
    ASSUME Undisturbed, Ready, IInv', NEW txn \in transactions, CommitTransaction(txn)
    PROVE  ExportInv'
<1>1. /\ UNCHANGED <<deletedBranches, resetBranches, annotatedTags, rev, todo, queue, disk,
                     tagsFile, svn, tips, pos>>
      /\ outstandingTransactions' = outstandingTransactions - 1
      /\ next_file_mark' = IF outstandingTransactions = 1 THEN maxMark - 1 ELSE next_file_mark
  <2>1. ~ InConflict(txn.branch)
    BY DEF InConflict, Undisturbed
  <2>2. QED BY <2>1 DEF CommitTransaction, history
<1>2. PICK b, mark, new, f : /\ b = txn.branch /\ mark = last_commit_mark + 1
                             /\ new = tips[rev][b] /\ f = Running(branches)
  OBVIOUS
<1>3. /\ b \in Branch /\ mark \in CommitMark /\ mark \in Mark
      /\ last_commit_mark \in Nat /\ last_commit_mark' = mark
      /\ phase = "commit" /\ phase' = "commit" /\ queue = <<>>
      /\ new \in History /\ new # <<>> /\ HeadOf(new) = <<b, rev>>
      /\ processHasStarted' = TRUE /\ fi' \in Process /\ ~ fi'.dead
      /\ \A n \in CommitMark : MarkTable'[n] = IF n = mark THEN new ELSE MarkTable[n]
      /\ MarkTable[mark] = Null
      /\ BlobTable' = BlobTable
      /\ \A a \in Branch : fi'.tab[a] = IF a = b THEN new ELSE f.tab[a]
      /\ fi'.del = f.del /\ fi'.backup = f.backup
      /\ \A a \in Branch : fi'.tag[a] = Null
      /\ log' = Append(log, [rev |-> rev, branch |-> b, mark |-> mark])
      /\ transactions' = transactions \ {txn}
      /\ \E created \in Nat :
            /\ branches' = [branches EXCEPT ![b] = Extended(branches[b], rev, mark, created)]
            /\ created # 0 /\ created <= rev
  BY <1>2, CommitStore
<1>4. PICK created \in Nat :
            /\ branches' = [branches EXCEPT ![b] = Extended(branches[b], rev, mark, created)]
            /\ created # 0 /\ created <= rev
  BY <1>3
<1>5. /\ Calm /\ Seen /\ Marks /\ Heads /\ Dates /\ Points /\ Logged /\ Ended
      /\ Progress /\ Held /\ Queued /\ Tagged /\ Kept
      /\ IInv /\ UsedMarks /\ StoreOK
  BY ReadyFacts
<1>6. /\ rev \in Nat /\ rev # 0 /\ deletedBranches = <<>> /\ resetBranches = <<>>
      /\ Exporting /\ Exporting' /\ Active /\ Active' /\ log \in Seq(Line)
      /\ Len(log) \in Nat /\ todo = <<>> /\ branches \in [Branch -> Entry]
      /\ LinesRead = Len(log) /\ LinesRead' = Len(log')
  BY <1>3, <1>5, ReadyTypes DEF Exporting, Active, Seen, TodoOK, LinesRead
<1>7. (\A c : ~ Pending(c)) /\ \A c : ~ Pending(c)'
  <2>1. \A c : ~ Waiting(<<>>, c)
    <3>1. 1 .. Len(<<>>) = {}
      OBVIOUS
    <3>2. QED BY <3>1 DEF Waiting
  <2>2. queue' = <<>> /\ deletedBranches' = <<>> /\ resetBranches' = <<>>
    BY <1>1, <1>3, <1>6
  <2>3. QED BY <1>3, <1>6, <2>1, <2>2 DEF Pending, Waiting
<1>8. /\ f \in Process /\ f.backup \cup disk.backup = Saves
      /\ \A c \in Branch : HoldsRunning(f, disk, c, Top(c))
  <2>1. \A c \in Branch : Holds(c, Top(c))
    BY <1>5, <1>6, <1>7 DEF Held
  <2>2. QED BY <1>2, <1>3, <1>5, <2>1, RunningHolds
<1>9. /\ \A t \in transactions' : t \in transactions /\ t.branch # b /\ t.branch \in Branch
      /\ \A t \in transactions : t = txn \/ t \in transactions'
      /\ transactions' # {} => next_file_mark' = next_file_mark
  <2>1. \A t \in transactions : t.branch \in Branch
    BY <1>5 DEF IInv, TransactionsOK, Transaction
  <2>2. \A t \in transactions' : t \in transactions /\ t.branch # b
    BY <1>2, <1>3, <1>5 DEF IInv, TransactionsOK, OutstandingExact
  <2>3. transactions' # {} => outstandingTransactions' # 0
    <3>1. IsFiniteSet(transactions') /\ outstandingTransactions' = Cardinality(transactions')
      BY DEF IInv, TransactionsOK, OutstandingExact
    <3>2. QED BY <3>1, FS_EmptySet
  <2>4. QED BY <1>1, <1>3, <2>1, <2>2, <2>3
<1>10. /\ Opened(b) /\ ~ Opened(b)'
       /\ \A c : c # b => (Opened(c)' <=> Opened(c))
  BY <1>2, <1>9 DEF Opened
<1>11. /\ \A m \in 1 .. last_commit_mark : m # mark /\ m \in CommitMark /\ MarkTable'[m] = MarkTable[m]
       /\ \A m \in 0 .. last_commit_mark : Value(m)' = Value(m)
       /\ Value(mark)' = new
  <2>1. \A m \in 1 .. last_commit_mark : m # mark /\ m \in CommitMark /\ MarkTable'[m] = MarkTable[m]
    <3>1. \A m \in 1 .. last_commit_mark : m \in CommitMark
      BY <1>5, MarkFacts
    <3>2. QED BY <1>2, <1>3, <3>1
  <2>2. \A m \in 0 .. last_commit_mark : m = 0 \/ m \in 1 .. last_commit_mark
    BY <1>3
  <2>3. \A m \in 0 .. last_commit_mark : Value(m)' = Value(m)
    BY <2>1, <2>2 DEF Value
  <2>4. mark # 0
    BY <1>2, <1>3
  <2>5. QED BY <1>3, <2>1, <2>3, <2>4 DEF Value
<1>12. /\ LastMark(b)' = mark /\ Top(b)' = new
       /\ branches'[b].created = created
       /\ \A c \in Branch : c # b => /\ branches'[c] = branches[c]
                                     /\ LastMark(c)' = LastMark(c) /\ Top(c)' = Top(c)
       /\ \A c \in Branch, r \in 1 .. rev - 1 :
             EntryMark(branches'[c], r) = EntryMark(branches[c], r)
  <2> DEFINE x == Extended(branches[b], rev, mark, created)
  <2>1. branches'[b] = x /\ \A c \in Branch : c # b => branches'[c] = branches[c]
    BY <1>3, <1>4, <1>6
  <2>2. /\ LastOf(x.marks) = mark /\ x.created = created
        /\ \A at \in Int : EntryMark(x, at) = IF rev <= at THEN mark ELSE EntryMark(branches[b], at)
    BY <1>3, <1>6, EntryExtended
  <2> HIDE DEF x
  <2>3. LastMark(b)' = mark /\ Top(b)' = new
    BY <1>11, <2>1, <2>2 DEF LastMark, Top
  <2>4. ASSUME NEW c \in Branch, c # b
        PROVE  LastMark(c)' = LastMark(c) /\ Top(c)' = Top(c)
    <3>1. LastMark(c)' = LastMark(c)
      BY <2>1, <2>4 DEF LastMark
    <3>2. LastMark(c) \in 0 .. last_commit_mark
      BY <1>3, <1>5, TopFacts
    <3>3. QED BY <1>11, <3>1, <3>2 DEF Top
  <2>5. ASSUME NEW c \in Branch, NEW r \in 1 .. rev - 1
        PROVE  EntryMark(branches'[c], r) = EntryMark(branches[c], r)
    <3>1. r \in Int /\ ~ (rev <= r)
      BY <1>6
    <3>2. QED BY <2>1, <2>2, <3>1
  <2>6. QED BY <2>1, <2>2, <2>3, <2>4, <2>5
<1> DEFINE line == [rev |-> rev, branch |-> b, mark |-> mark]
<1>13. line \in Line
  <2>1. rev \in 1 .. MaxRev
    BY <1>3, <1>5 DEF IInv, DriverOK
  <2>2. QED BY <1>3, <2>1 DEF Line
<1>14. /\ log' \in Seq(Line) /\ log' # <<>> /\ Len(log') = Len(log) + 1
       /\ \A j \in 1 .. Len(log) : log'[j] = log[j]
       /\ log'[Len(log) + 1] = line
       /\ \A j \in 1 .. Len(log') : j \in 1 .. Len(log) \/ j = Len(log) + 1
       /\ \A c, r : LineMark(log', Len(log'), c, r) =
                        IF b = c /\ rev <= r THEN mark ELSE LineMark(log, Len(log), c, r)
  <2>1. log' = Append(log, line)
    BY <1>3
  <2>2. /\ log' \in Seq(Line) /\ log' # <<>> /\ Len(log') = Len(log) + 1
        /\ \A j \in 1 .. Len(log) : log'[j] = log[j]
        /\ log'[Len(log) + 1] = line
    BY <1>6, <1>13, <2>1, AppendFacts
  <2>3. \A j \in 1 .. Len(log') : j \in 1 .. Len(log) \/ j = Len(log) + 1
    BY <1>6, <2>2
  <2>4. line.branch = b /\ line.rev = rev /\ line.mark = mark
    OBVIOUS
  <2> HIDE DEF line
  <2>5. \A c, r : LineMark(log', Len(log'), c, r) =
                      IF line.branch = c /\ line.rev <= r THEN line.mark
                      ELSE LineMark(log, Len(log), c, r)
    BY <1>6, <1>13, <2>1, LineMarkAppend
  <2>6. QED BY <2>2, <2>3, <2>4, <2>5
<1>15. Calm'
  BY <1>3 DEF Calm
<1>16. Seen'
  BY <1>1, <1>3, <1>5, <1>6, SeenSame
<1>17. Marks'
  <2>1. new # Null
    BY <1>3 DEF Undisturbed, NullIsNoHistory
  <2>2. \A j \in 1 .. Len(log) : j \in 1 .. Len(log') /\ log'[j] = log[j]
    BY <1>6, <1>14
  <2>3. Len(log') \in 1 .. Len(log') /\ log'[Len(log')].mark = mark /\ mark <= mark
    BY <1>2, <1>3, <1>6, <1>14
  <2>4. \A m \in CommitMark : MarkTable'[m] # Null => \E j \in 1 .. Len(log') : m <= log'[j].mark
    <3> SUFFICES ASSUME NEW m \in CommitMark, MarkTable'[m] # Null
                 PROVE  \E j \in 1 .. Len(log') : m <= log'[j].mark
      OBVIOUS
    <3>1. CASE m = mark
      BY <2>3, <3>1
    <3>2. CASE m # mark
      <4>1. \E j \in 1 .. Len(log) : m <= log[j].mark
        BY <1>3, <1>5, <3>2 DEF Marks
      <4>2. QED BY <2>2, <4>1
    <3>3. QED BY <3>1, <3>2
  <2>5. \A m \in 1 .. mark : MarkTable'[m] # Null
    <3>1. \A m \in 1 .. mark : m = mark \/ m \in 1 .. last_commit_mark
      BY <1>2, <1>3
    <3>2. \A m \in 1 .. last_commit_mark : MarkTable[m] # Null
      BY <1>5, MarkFacts
    <3>3. QED BY <1>3, <1>11, <2>1, <3>1, <3>2
  <2>6. \A j \in 1 .. Len(log) : log[j].mark <= last_commit_mark /\ log[j].mark \in Nat
    <3>1. \A j \in 1 .. Len(log) : log[j].mark \in Mark
      BY <1>5, MarkFacts DEF Line
    <3>2. QED BY <1>5, <1>6, <3>1, Bounds DEF Marks, Mark
  <2>7. \A j \in 1 .. Len(log') : log'[j].mark <= mark
    <3>1. mark \in Nat /\ last_commit_mark \in Nat /\ last_commit_mark <= mark
      BY <1>2, <1>3
    <3>2. ASSUME NEW j \in 1 .. Len(log')
          PROVE  log'[j].mark <= mark
      <4>1. CASE j \in 1 .. Len(log)
        BY <1>14, <2>6, <3>1, <4>1
      <4>2. CASE j = Len(log) + 1
        BY <1>14, <2>3, <4>2
      <4>3. QED BY <1>14, <4>1, <4>2
    <3>3. QED BY <3>2
  <2>8. \A j \in 1 .. Len(log') : \A m \in 1 .. log'[j].mark : MarkTable'[m] # Null
    <3> SUFFICES ASSUME NEW j \in 1 .. Len(log'), NEW m \in 1 .. log'[j].mark
                 PROVE  m \in 1 .. mark
      BY <2>5
    <3>1. log'[j].mark <= mark /\ log'[j].mark \in Nat
      BY <1>2, <1>3, <1>14, <2>3, <2>6, <2>7
    <3>2. QED BY <1>2, <1>3, <3>1
  <2>9. \E j \in 1 .. Len(log') : log'[j].mark = mark
    BY <2>3
  <2>10. QED BY <1>3, <1>6, <2>4, <2>7, <2>8, <2>9 DEF Marks
<1>18. Heads'
  <2>1. ASSUME NEW m \in CommitMark, m # mark, MarkTable[m] # Null
        PROVE  new # MarkTable[m]
    BY <1>2, <1>3, <1>5, <2>1 DEF Heads
  <2>2. \A m, n \in CommitMark :
            m # n /\ MarkTable'[m] # Null /\ MarkTable'[n] # Null => MarkTable'[m] # MarkTable'[n]
    <3> SUFFICES ASSUME NEW m \in CommitMark, NEW n \in CommitMark, m # n,
                        MarkTable'[m] # Null, MarkTable'[n] # Null
                 PROVE  MarkTable'[m] # MarkTable'[n]
      OBVIOUS
    <3>1. CASE m = mark
      BY <1>3, <2>1, <3>1
    <3>2. CASE n = mark
      BY <1>3, <2>1, <3>2
    <3>3. CASE m # mark /\ n # mark
      BY <1>3, <1>5, <3>3 DEF Heads
    <3>4. QED BY <3>1, <3>2, <3>3
  <2>3. ASSUME NEW m \in CommitMark, MarkTable'[m] # Null
        PROVE  /\ HeadOf(MarkTable'[m])[2] <= rev
               /\ \A t \in transactions' : HeadOf(MarkTable'[m]) # <<t.branch, rev>>
    <3>1. CASE m = mark
      <4>1. HeadOf(MarkTable'[m]) = <<b, rev>>
        BY <1>3, <3>1
      <4>2. QED BY <1>6, <1>9, <4>1
    <3>2. CASE m # mark
      BY <1>3, <1>5, <1>9, <2>3, <3>2 DEF Heads
    <3>3. QED BY <3>1, <3>2
  <2>4. QED BY <1>1, <1>3, <2>2, <2>3 DEF Heads
<1>19. Dates'
  <2>1. \A c \in Branch : /\ branches[c].commits # <<>> => branches[c].created # 0
                          /\ \A i \in 1 .. Len(branches[c].marks) : branches[c].commits[i] <= rev
                          /\ LastMark(c) # 0 => branches[c].created <= rev
    BY <1>5 DEF Dates
  <2>2. \A i \in 1 .. Len(branches'[b].marks) : branches'[b].commits[i] <= rev
    <3>1. branches'[b] = Extended(branches[b], rev, mark, created)
      BY <1>3, <1>4, <1>6
    <3>2. branches[b] \in Entry /\ \A i \in 1 .. Len(branches[b].marks) : branches[b].commits[i] <= rev
      BY <1>3, <1>6, <2>1
    <3>3. QED BY <1>3, <1>6, <3>1, <3>2, GrownFacts
  <2>3. ASSUME NEW c \in Branch
        PROVE  /\ branches'[c].commits # <<>> => branches'[c].created # 0
               /\ \A i \in 1 .. Len(branches'[c].marks) : branches'[c].commits[i] <= rev
               /\ LastMark(c)' # 0 => branches'[c].created <= rev
    <3>1. CASE c = b
      BY <1>4, <1>12, <2>2, <3>1
    <3>2. CASE c # b
      BY <1>12, <2>1, <3>2
    <3>3. QED BY <3>1, <3>2
  <2>4. QED BY <1>1, <1>3, <2>3 DEF Dates
<1>20. Points'
  <2>1. PICK x : x = branches'
    OBVIOUS
  <2>2. ASSUME NEW c \in Branch, NEW r \in 1 .. rev - 1
        PROVE  Value(EntryMark(x[c], r))' = tips[r][c]
    <3>1. PICK m : m = EntryMark(branches[c], r)
      OBVIOUS
    <3>2. m \in 0 .. last_commit_mark /\ Value(m) = tips[r][c]
      BY <1>5, <1>6, <3>1, PointFacts DEF Points
    <3>3. Value(m)' = tips[r][c] /\ m = EntryMark(x[c], r)
      BY <1>11, <1>12, <2>1, <3>1, <3>2
    <3>4. QED BY <3>3
  <2>3. branches' = x /\ tips' = tips /\ rev' = rev
    BY <1>1, <2>1
  <2>4. QED BY <2>2, <2>3 DEF Points
<1>21. Logged'
  <2>1. PICK n, l : n = Len(log') /\ l = log'
    OBVIOUS
  <2>2. \A c \in Branch, r \in 1 .. rev - 1 : Value(LineMark(l, n, c, r))' = tips[r][c]
    <3> SUFFICES ASSUME NEW c \in Branch, NEW r \in 1 .. rev - 1
                 PROVE  Value(LineMark(l, n, c, r))' = tips[r][c]
      OBVIOUS
    <3>1. PICK m : m = LineMark(log, Len(log), c, r)
      OBVIOUS
    <3>2. Value(m) = tips[r][c]
      BY <1>5, <3>1 DEF Logged
    <3>3. m \in 0 .. last_commit_mark
      <4>1. m = 0 \/ \E i \in 1 .. Len(log) : m = log[i].mark
        BY <1>6, <3>1, LineMarkIsOne
      <4>2. \A i \in 1 .. Len(log) : log[i].mark \in Mark /\ log[i].mark <= last_commit_mark
        BY <1>5, <1>6, MarkFacts DEF Marks, Line
      <4>3. QED BY <1>3, <4>1, <4>2, Bounds DEF Mark
    <3>4. LineMark(l, n, c, r) = m
      <4>1. ~ (rev <= r)
        BY <1>6
      <4>2. QED BY <1>14, <2>1, <3>1, <4>1
    <3>5. Value(m)' = tips[r][c]
      BY <1>11, <3>2, <3>3
    <3>6. QED BY <3>4, <3>5
  <2>3. ASSUME NEW c \in Branch, NEW r \in Nat, r >= rev
        PROVE  LineMark(l, n, c, r) = LastMark(c)'
    <3>1. rev <= r
      BY <1>6, <2>3
    <3>2. CASE c = b
      BY <1>12, <1>14, <2>1, <3>1, <3>2
    <3>3. CASE c # b
      <4>1. LineMark(log, Len(log), c, r) = LastMark(c)
        BY <1>5, <1>6, <1>7, <2>3 DEF Logged
      <4>2. QED BY <1>12, <1>14, <2>1, <3>3, <4>1
    <3>4. QED BY <3>2, <3>3
  <2>4. phase' # "down" /\ tips' = tips /\ rev' = rev /\ Len(log') = n /\ log' = l
    BY <1>1, <1>3, <2>1
  <2>5. QED BY <2>2, <2>3, <2>4 DEF Logged
<1>22. Ended'
  BY <1>1, <1>3, <1>6, <1>14 DEF Ended
<1>23. Progress'
  <2>1. /\ \A c : BaseOf(c, Done)' = BaseOf(c, Done) /\ Changes(c, Done)' = Changes(c, Done)
        /\ \A c : MergedInto(c, Done)' = MergedInto(c, Done) /\ FilesOf(c, Done)' = FilesOf(c, Done)
    BY <1>1, DoneSame
  <2>2. ASSUME NEW c \in Branch
        PROVE  IF Opened(c)' THEN Top(c)' = BaseOf(c, Done)' /\ Changes(c, Done)' # {}
               ELSE Top(c)' = tips'[rev'][c]
    <3>1. IF Opened(c) THEN Top(c) = BaseOf(c, Done) /\ Changes(c, Done) # {}
          ELSE Top(c) = tips[rev][c]
      BY <1>3, <1>5 DEF Progress
    <3>2. tips' = tips /\ rev' = rev
      BY <1>1
    <3>3. CASE c = b
      BY <1>2, <1>10, <1>12, <3>2, <3>3
    <3>4. CASE c # b
      BY <1>10, <1>12, <2>1, <3>1, <3>2, <3>4
    <3>5. QED BY <3>3, <3>4
  <2>3. ASSUME NEW t \in transactions'
        PROVE  /\ {BlobTable'[m] : m \in t.files} = FilesOf(t.branch, Done)'
               /\ \A m \in t.files : m > next_file_mark'
               /\ t.merges \subseteq 1 .. last_commit_mark'
               /\ {MarkTable'[m] : m \in t.merges} = MergedInto(t.branch, Done)'
    <3>1. /\ {BlobTable[m] : m \in t.files} = FilesOf(t.branch, Done)
          /\ \A m \in t.files : m > next_file_mark
          /\ t.merges \subseteq 1 .. last_commit_mark
          /\ {MarkTable[m] : m \in t.merges} = MergedInto(t.branch, Done)
      BY <1>5, <1>6, <1>9 DEF Progress
    <3>2. next_file_mark' = next_file_mark
      BY <1>9
    <3>3. /\ FilesOf(t.branch, Done)' = FilesOf(t.branch, Done)
          /\ MergedInto(t.branch, Done)' = MergedInto(t.branch, Done)
      BY <2>1
    <3>4. {MarkTable'[m] : m \in t.merges} = {MarkTable[m] : m \in t.merges}
      BY <1>11, <3>1
    <3>5. t.merges \subseteq 1 .. last_commit_mark'
      BY <1>2, <1>3, <3>1
    <3>6. BlobTable' = BlobTable
      BY <1>3
    <3>7. QED BY ONLY <3>1, <3>2, <3>3, <3>4, <3>5, <3>6
  <2>4. phase' # "idle" /\ phase' # "prepare"
    BY <1>3
  <2>5. QED BY <2>2, <2>3, <2>4 DEF Progress
<1>24. Held'
  <2> SUFFICES ASSUME NEW c \in Branch
               PROVE  HoldsRunning(fi', disk', c, Top(c)')
    BY <1>3, <1>6 DEF Held, Holds
  <2>1. CASE c # b
    <3>1. HoldsRunning(f, disk, c, Top(c))
      BY <1>8
    <3>2. fi'.tab[c] = f.tab[c] /\ fi'.del = f.del /\ disk' = disk /\ Top(c)' = Top(c)
      BY <1>1, <1>3, <1>12, <2>1
    <3>3. QED BY <3>1, <3>2 DEF HoldsRunning
  <2>2. CASE c = b
    BY <1>3, <1>12, <2>2 DEF HoldsRunning
  <2>3. QED BY <2>1, <2>2
<1>25. Queued'
  <2>1. queue' = <<>> /\ deletedBranches' = <<>> /\ resetBranches' = <<>> /\ phase' # "prepare"
    BY <1>1, <1>3, <1>6
  <2>2. Len(<<>>) = 0 /\ 1 .. 0 = {}
    OBVIOUS
  <2>3. QED BY <2>1, <2>2 DEF Queued, CommandsOK
<1>26. Tagged'
  <2>1. ASSUME NEW c \in TagBranch, Top(c)' # <<>> \/ Opened(c)'
        PROVE  c \in annotatedTags
    <3>1. c \in Branch
      BY RepositoryAssumption
    <3>2. Top(c) # <<>> \/ Opened(c)
      BY <1>10, <1>12, <2>1, <3>1
    <3>3. QED BY <1>5, <1>6, <3>2 DEF Tagged
  <2>2. QED BY <1>1, <1>3, <2>1 DEF Tagged
<1>27. Kept'
  <2>1. Saves' = Saves
    BY <1>1, <1>3, <1>8 DEF Saves
  <2>2. UNCHANGED <<tips, rev, phase>> /\ \A c \in Branch : Pending(c)' <=> Pending(c)
    BY <1>1, <1>3, <1>7
  <2>3. \A c \in Branch : Pending(c)' = Pending(c)
    BY <2>2 DEF Pending, Waiting
  <2>4. /\ Saves' \subseteq Saves
        /\ \A k \in Saves : \E n \in Saves' : n.branch = k.branch /\ n.rev = k.rev
    BY <2>1
  <2>5. QED BY ONLY <1>5, <2>2, <2>3, <2>4, KeptSame
<1>28. QED
  BY <1>15, <1>16, <1>17, <1>18, <1>19, <1>20, <1>21, <1>22, <1>23, <1>24, <1>25, <1>26, <1>27
     DEF ExportInv

-----------------------------------------------------------------------------
(* A new revision *)

\* A revision in which a deletion stands alone and every source has commits.
Proper(t, ops) ==
    /\ \A i, j \in 1 .. Len(ops) :
          i # j /\ ops[i].branch = ops[j].branch => ops[i].kind # "delete"
    /\ \A i \in 1 .. Len(ops) :
          /\ ops[i].kind = "copy" \/ (ops[i].kind # "delete" /\ ops[i].from # Null) =>
                /\ ops[i].from \in Branch /\ ops[i].at \in 1 .. Len(t)
                /\ t[ops[i].at][ops[i].from] # <<>>
          /\ ops[i].kind = "delete" => TipsAt(t, Len(t))[ops[i].branch] # <<>>

\* What one operation of a new revision may be.
LEMMA OperationFacts ==
    ASSUME ~ EmptySources, NEW t, \E S : t \in Seq(S), NEW o \in Ops(t)
    PROVE  /\ o.kind = "copy" \/ (o.kind # "delete" /\ o.from # Null) =>
                 /\ o.from \in Branch /\ o.at \in 1 .. Len(t)
                 /\ t[o.at][o.from] # <<>>
           /\ o.kind = "delete" => TipsAt(t, Len(t))[o.branch] # <<>>
<1> DEFINE next    == Len(t) + 1
           present == {b \in Branch : TipsAt(t, next - 1)[b] # <<>>}
           points  == {p \in Branch \X (1 .. next - 1) : t[p[2]][p[1]] # <<>>}
           op(kind, b, p) == [kind |-> kind, branch |-> b, from |-> p[1], at |-> p[2]]
           nowhere == <<Null, 0>>
<1>1. Len(t) \in Nat /\ next - 1 = Len(t)
  OBVIOUS
<1>2. o \in {op("copy", b, p) : b \in Branch, p \in points}
            \cup {op("delete", b, nowhere) : b \in present}
            \cup {op("remove", b, nowhere) : b \in present}
            \cup {op("change", b, p) : b \in Branch, p \in points \cup {nowhere}}
  BY DEF Ops
<1>3. \A p \in points : p[1] \in Branch /\ p[2] \in 1 .. Len(t) /\ t[p[2]][p[1]] # <<>>
  BY <1>1
<1>4. \A b \in present : TipsAt(t, Len(t))[b] # <<>>
  BY <1>1
<1> HIDE DEF points, present, next
<1>5. CASE o \in {op("copy", b, p) : b \in Branch, p \in points}
  <2>1. PICK b \in Branch, p \in points : o = op("copy", b, p)
    BY <1>5
  <2>2. QED BY <1>3, <2>1
<1>6. CASE o \in {op("delete", b, nowhere) : b \in present}
  <2>1. PICK b \in present : o = op("delete", b, nowhere)
    BY <1>6
  <2>2. QED BY <1>4, <2>1
<1>7. CASE o \in {op("remove", b, nowhere) : b \in present}
  <2>1. PICK b \in present : o = op("remove", b, nowhere)
    BY <1>7
  <2>2. QED BY <2>1
<1>8. CASE o \in {op("change", b, p) : b \in Branch, p \in points \cup {nowhere}}
  <2>1. PICK b \in Branch, p \in points \cup {nowhere} : o = op("change", b, p)
    BY <1>8
  <2>2. CASE p \in points
    BY <1>3, <2>1, <2>2
  <2>3. CASE p = nowhere
    BY <2>1, <2>3
  <2>4. QED BY <2>1, <2>2, <2>3
<1>9. QED BY <1>2, <1>5, <1>6, <1>7, <1>8

\* What a new revision may ask for.
LEMMA RevisionFacts ==
    ASSUME ~ ManyToOne, ~ EmptySources, NEW t, \E S : t \in Seq(S),
           NEW ops \in Revisions(t)
    PROVE  ops \in Seq(Operation) /\ ops # <<>> /\ Proper(t, ops)
<1> DEFINE D == {o \in Ops(t) : o.kind # "change" \/ o.from # o.branch}
<1>1. ops \in Seq(Operation)
  BY RevisionsType
<1>2. ops # <<>> /\ OnePath(ops)
  BY DEF Revisions
<1>3. PICK m \in Int : ops \in [1 .. m -> D]
  BY DEF Revisions, BoundedSeq, SeqOf
<1>4. Len(ops) \in Nat /\ DOMAIN ops = 1 .. Len(ops)
  BY <1>1
<1>5. \A i \in 1 .. Len(ops) : ops[i] \in Ops(t)
  BY <1>3, <1>4
<1>6. \A i, j \in 1 .. Len(ops) : i # j /\ ops[i].branch = ops[j].branch => ops[i].kind # "delete"
  BY <1>2, <1>4 DEF OnePath
<1>7. \A i \in 1 .. Len(ops) :
          /\ ops[i].kind = "copy" \/ (ops[i].kind # "delete" /\ ops[i].from # Null) =>
                /\ ops[i].from \in Branch /\ ops[i].at \in 1 .. Len(t)
                /\ t[ops[i].at][ops[i].from] # <<>>
          /\ ops[i].kind = "delete" => TipsAt(t, Len(t))[ops[i].branch] # <<>>
  BY <1>5, OperationFacts
<1>8. QED BY <1>1, <1>2, <1>6, <1>7 DEF Proper

\* The tips before a revision.
LEMMA TipsAtType ==
    ASSUME NEW t \in Seq([Branch -> History]), NEW r \in 0 .. Len(t), NEW b \in Branch
    PROVE  TipsAt(t, r)[b] \in History
<1>1. CASE r = 0
  BY <1>1 DEF TipsAt, NoTips, History
<1>2. CASE r # 0
  BY <1>2 DEF TipsAt
<1>3. QED BY <1>1, <1>2

\* What a revision leaves of a branch is a history.
LEMMA TipAfterType ==
    ASSUME NEW t \in Seq([Branch -> History]), NEW ops \in Seq(Operation), Proper(t, ops),
           NEW b \in Branch
    PROVE  TipAfter(t, ops, b) \in History
<1> DEFINE r       == Len(t) + 1
           copies  == OfKind(ops, b, {"copy"})
           changes == OfKind(ops, b, {"change", "remove"})
           last(S) == CHOOSE i \in S : \A j \in S : j <= i
           source  == ops[last(copies)]
           base    == IF copies # {} THEN TipsAt(t, source.at)[source.from]
                      ELSE IF OfKind(ops, b, {"delete"}) # {} THEN <<>>
                      ELSE TipsAt(t, r - 1)[b]
           merged  == {t[ops[i].at][ops[i].from] : i \in {k \in changes : ops[k].from # Null}}
           commit  == [branch |-> b, rev |-> r,
                       files  |-> {<<b, r>> : i \in OfKind(ops, b, {"change"})},
                       merges |-> {HeadOf(h) : h \in merged \ {base}}]
<1>1. TipAfter(t, ops, b) = IF changes = {} THEN base ELSE Append(base, commit)
  BY DEF TipAfter
<1>2. Len(t) \in Nat /\ r \in Nat /\ r - 1 = Len(t) /\ DOMAIN ops = 1 .. Len(ops) /\ Len(ops) \in Nat
  OBVIOUS
<1>3. /\ copies \subseteq 1 .. Len(ops) /\ changes \subseteq 1 .. Len(ops)
      /\ \A i \in copies : ops[i].kind = "copy"
      /\ \A i \in changes : ops[i].kind # "delete"
  BY <1>2 DEF OfKind
<1>4. \A i \in 1 .. Len(ops) :
          ops[i].kind = "copy" \/ (ops[i].kind # "delete" /\ ops[i].from # Null) =>
              /\ ops[i].from \in Branch /\ ops[i].at \in 1 .. Len(t)
              /\ t[ops[i].at][ops[i].from] # <<>> /\ t[ops[i].at][ops[i].from] \in History
  <2>1. \A r1 \in 1 .. Len(t), c \in Branch : t[r1][c] \in History
    OBVIOUS
  <2>2. QED BY <2>1 DEF Proper
<1>5. <<>> \in History
  BY DEF History
<1>6. copies # {} => last(copies) \in copies
  <2> HIDE DEF copies
  <2>1. QED BY <1>2, <1>3, Greatest
<1>7. base \in History
  <2>1. CASE copies # {}
    <3>1. last(copies) \in 1 .. Len(ops) /\ ops[last(copies)].kind = "copy"
      BY <1>3, <1>6, <2>1
    <3> HIDE DEF last, copies
    <3>2. source.from \in Branch /\ source.at \in 1 .. Len(t)
      BY <1>4, <3>1
    <3> HIDE DEF source
    <3>3. source.at \in 0 .. Len(t)
      BY <1>2, <3>2
    <3>4. TipsAt(t, source.at)[source.from] \in History
      BY <3>2, <3>3, TipsAtType
    <3>5. QED BY <2>1, <3>4
  <2>2. CASE copies = {}
    <3>1. TipsAt(t, r - 1)[b] \in History
      BY <1>2, TipsAtType
    <3>2. QED BY <1>5, <2>2, <3>1
  <2>3. QED BY <2>1, <2>2
<1> HIDE DEF base, copies
<1>8. \A h \in merged : h \in History /\ h # <<>>
  BY <1>3, <1>4
<1> HIDE DEF merged
<1>9. \A h \in merged : HeadOf(h) \in Branch \X Nat
  BY <1>8, HeadOfType
<1>10. commit \in Commitment
  BY <1>2, <1>9 DEF Commitment, Content
<1> HIDE DEF commit
<1>11. Append(base, commit) \in History
  BY <1>7, <1>10, AppendFacts DEF History
<1>12. QED BY <1>1, <1>7, <1>11

\* The tips a revision calls for, told operation by operation.
LEMMA CalledBegun ==
    ASSUME NEW ops \in Seq(Operation), Proper(tips, ops), tips \in Seq([Branch -> History]),
           rev = Len(tips) + 1, rev' = rev, Asked' = ops,
           tips' = Append(tips, TipsAfter(tips, ops)), NEW n, n = Len(ops)
    PROVE  \A b \in Branch : Called(b, n)' = TipAfter(tips, ops, b)
<1> SUFFICES ASSUME NEW b \in Branch PROVE Called(b, n)' = TipAfter(tips, ops, b)
  OBVIOUS
<1>1. /\ Len(tips) \in Nat /\ rev - 1 = Len(tips) /\ DOMAIN ops = 1 .. n /\ n \in Nat
  OBVIOUS
<1>2. \A i \in 1 .. Len(tips) : tips'[i] = tips[i]
  <2> DEFINE x == TipsAfter(tips, ops)
  <2>1. tips' = Append(tips, x)
    OBVIOUS
  <2> HIDE DEF x
  <2>2. QED BY <2>1
<1>3. Prior(b)' = TipsAt(tips, Len(tips))[b]
  <2>1. Prior(b)' = TipsAt(tips', rev - 1)[b]
    BY DEF Prior
  <2>2. TipsAt(tips', rev - 1) = TipsAt(tips, Len(tips))
    <3>0. PICK m : m = Len(tips)
      OBVIOUS
    <3>1. m \in Nat /\ rev - 1 = m /\ \A i \in 1 .. m : tips'[i] = tips[i]
      BY <1>1, <1>2, <3>0
    <3>2. m # 0 => tips'[m] = tips[m]
      BY ONLY <3>1
    <3>3. QED BY ONLY <3>0, <3>1, <3>2 DEF TipsAt
  <2>3. QED BY <2>1, <2>2
<1>4. /\ Copies(b, n)' = OfKind(ops, b, {"copy"})
      /\ Deletes(b, n)' = OfKind(ops, b, {"delete"})
      /\ Changes(b, n)' = OfKind(ops, b, {"change", "remove"})
  <2>1. /\ Copies(b, n)' = {i \in 1 .. n : ops[i].branch = b /\ ops[i].kind = "copy"}
        /\ Deletes(b, n)' = {i \in 1 .. n : ops[i].branch = b /\ ops[i].kind = "delete"}
        /\ Changes(b, n)' = {i \in 1 .. n : ops[i].branch = b /\ ops[i].kind \in {"change", "remove"}}
    BY DEF Copies, Deletes, Changes
  <2>2. QED BY <1>1, <2>1 DEF OfKind
<1> DEFINE copies  == OfKind(ops, b, {"copy"})
           changes == OfKind(ops, b, {"change", "remove"})
           last(S) == CHOOSE i \in S : \A j \in S : j <= i
           source  == ops[last(copies)]
           base    == IF copies # {} THEN TipsAt(tips, source.at)[source.from]
                      ELSE IF OfKind(ops, b, {"delete"}) # {} THEN <<>>
                      ELSE TipsAt(tips, rev - 1)[b]
           noted   == {k \in changes : ops[k].from # Null}
           merged  == {tips[ops[i].at][ops[i].from] : i \in noted}
           commit  == [branch |-> b, rev |-> rev,
                       files  |-> {<<b, rev>> : i \in OfKind(ops, b, {"change"})},
                       merges |-> {HeadOf(h) : h \in merged \ {base}}]
<1>5. TipAfter(tips, ops, b) = IF changes = {} THEN base ELSE Append(base, commit)
  BY DEF TipAfter
<1>6. /\ \A i \in copies : i \in 1 .. n /\ ops[i].kind = "copy"
      /\ \A i \in noted : i \in 1 .. n /\ ops[i].kind # "delete" /\ ops[i].from # Null
  BY <1>1 DEF OfKind
<1>7. \A i \in copies \cup noted :
          /\ ops[i].at \in 1 .. Len(tips)
          /\ Source(i)' = tips[ops[i].at][ops[i].from]
  <2> SUFFICES ASSUME NEW i \in copies \cup noted
               PROVE  /\ ops[i].at \in 1 .. Len(tips)
                      /\ Source(i)' = tips[ops[i].at][ops[i].from]
    OBVIOUS
  <2>1. i \in 1 .. n /\ (ops[i].kind = "copy" \/ (ops[i].kind # "delete" /\ ops[i].from # Null))
    BY <1>6
  <2>2. ops[i].at \in 1 .. Len(tips)
    BY <2>1 DEF Proper
  <2>3. Source(i)' = tips'[ops[i].at][ops[i].from]
    BY DEF Source
  <2>4. QED BY <1>2, <2>2, <2>3
<1>8. BaseOf(b, n)' = base
  <2>1. BaseOf(b, n)' = IF Copies(b, n)' # {}
                        THEN tips'[Asked'[last(Copies(b, n)')].at][Asked'[last(Copies(b, n)')].from]
                        ELSE IF Deletes(b, n)' # {} THEN <<>> ELSE Prior(b)'
    BY DEF BaseOf, Source
  <2>2. copies # {} => last(copies) \in copies
    <3>1. copies \subseteq 1 .. n
      BY <1>6
    <3> HIDE DEF copies
    <3>2. QED BY <1>1, <3>1, Greatest
  <2>3. CASE copies # {}
    <3>1. last(copies) \in copies
      BY <2>2, <2>3
    <3>2. source.at \in 1 .. Len(tips) /\ Source(last(copies))' = tips[source.at][source.from]
      BY <1>7, <3>1
    <3>3. Source(last(copies))' = tips'[Asked'[last(copies)].at][Asked'[last(copies)].from]
      BY DEF Source
    <3>4. TipsAt(tips, source.at) = tips[source.at]
      BY <3>2 DEF TipsAt
    <3> HIDE DEF last, copies
    <3>5. BaseOf(b, n)' = tips[source.at][source.from]
      BY <1>4, <2>1, <2>3, <3>2, <3>3 DEF copies
    <3>6. QED BY <2>3, <3>4, <3>5
  <2>4. CASE copies = {}
    BY <1>1, <1>3, <1>4, <2>1, <2>4
  <2>5. QED BY <2>3, <2>4
<1>9. MergedInto(b, n)' = merged
  <2>1. MergedInto(b, n)' = {Source(i)' : i \in {j \in Changes(b, n)' : Asked'[j].from # Null}}
    BY DEF MergedInto
  <2>2. {j \in Changes(b, n)' : Asked'[j].from # Null} = noted
    BY <1>4
  <2>3. MergedInto(b, n)' = {Source(i)' : i \in noted}
    BY <2>1, <2>2
  <2> HIDE DEF noted
  <2>4. QED BY <1>7, <2>3
<1>10. FilesOf(b, n)' = {<<b, rev>> : i \in OfKind(ops, b, {"change"})}
  <2>1. FilesOf(b, n)' = {<<b, rev'>> : i \in {j \in Changes(b, n)' : Asked'[j].kind = "change"}}
    BY DEF FilesOf
  <2>2. {j \in Changes(b, n)' : Asked'[j].kind = "change"} = OfKind(ops, b, {"change"})
    BY <1>4 DEF OfKind
  <2>3. QED BY <2>1, <2>2
<1> HIDE DEF base, merged
<1>11. CommitOf(b, n)' = commit
  BY <1>8, <1>9, <1>10 DEF CommitOf
<1> HIDE DEF commit
<1>12. Called(b, n)' = IF Changes(b, n)' = {} THEN BaseOf(b, n)' ELSE Append(BaseOf(b, n)', CommitOf(b, n)')
  BY DEF Called
<1>13. QED BY ONLY <1>4, <1>5, <1>8, <1>11, <1>12

\* A revision asks for its operations.
LEMMA ExportBeginRevision ==
    ASSUME Undisturbed, Ready, IInv', BeginRevision
    PROVE  ExportInv'
<1>1. /\ phase = "idle" /\ phase' = "prepare" /\ rev <= MaxRev
      /\ UNCHANGED <<memory, processHasStarted, rev, queue, fi, stored, pos>>
  BY DEF BeginRevision
<1>2. /\ UNCHANGED <<branches, last_commit_mark, next_file_mark, transactions, deletedBranches,
                     resetBranches, annotatedTags>>
      /\ UNCHANGED <<fi, disk, processHasStarted>> /\ UNCHANGED <<log, tagsFile, pos>>
  BY <1>1 DEF memory, stored
<1>3. /\ Calm /\ Seen /\ Marks /\ Heads /\ Dates /\ Points /\ Logged /\ Ended
      /\ Progress /\ Held /\ Queued /\ Tagged /\ Kept
      /\ IInv /\ UsedMarks /\ StoreOK
  BY ReadyFacts
<1>4. /\ rev \in Nat /\ rev # 0 /\ deletedBranches = <<>> /\ resetBranches = <<>> /\ queue = <<>>
      /\ \A b \in Branch : branches[b] \in Entry
      /\ tips \in Seq([Branch -> History]) /\ Len(tips) \in Nat
      /\ ~ fi.dead
  BY <1>1, ReadyTypes
<1>5. /\ MarkTable' = MarkTable /\ BlobTable' = BlobTable /\ Saves' = Saves
      /\ \A m : Value(m)' = Value(m)
      /\ \A b, h : Holds(b, h)' = Holds(b, h)
      /\ \A b : Names(b)' = Names(b)
  BY <1>2, StoreSame
<1>6. \A b : LastMark(b)' = LastMark(b) /\ Top(b)' = Top(b)
  BY <1>2, <1>5, TopSame
<1>7. (\A b : ~ Pending(b)) /\ \A b : ~ Pending(b)'
  BY <1>1, <1>2, <1>4, NothingQueued DEF Pending
<1>8. Exporting' /\ ~ Exporting /\ Active' /\ Active
  BY <1>1 DEF Exporting, Active
<1>9. Len(svn) = rev - 1 /\ Len(tips) = rev - 1 /\ svn \in Seq(Seq(Operation))
  BY <1>3, <1>8 DEF Seen, IInv, DriverOK
<1>10. PICK ops \in Revisions(tips) :
           /\ todo' = ops
           /\ svn' = Append(svn, ops)
           /\ tips' = Append(tips, TipsAfter(tips, ops))
  BY <1>4, <1>9 DEF BeginRevision
<1>11. ops \in Seq(Operation) /\ ops # <<>> /\ Proper(tips, ops)
  BY <1>4, RevisionFacts DEF Undisturbed
<1>12. PICK n : n = Len(ops)
  OBVIOUS
<1>13. n \in Nat /\ n # 0
  BY <1>11, <1>12
<1>14. Asked' = ops /\ Done' = 0 /\ Len(svn') = rev
  <2>1. Len(svn') = rev /\ svn'[rev] = ops
    BY <1>4, <1>9, <1>10, <1>11
  <2>2. Asked' = ops
    BY <1>1, <2>1 DEF Asked
  <2>3. QED BY <1>10, <1>12, <1>13, <2>1, <2>2 DEF Done
<1>15. /\ tips' \in Seq([Branch -> History]) /\ Len(tips') = rev
       /\ \A i \in 1 .. rev - 1 : tips'[i] = tips[i]
       /\ \A b \in Branch : tips'[rev][b] = TipAfter(tips, ops, b)
  <2> DEFINE x == TipsAfter(tips, ops)
  <2>1. x \in [Branch -> History] /\ \A b \in Branch : x[b] = TipAfter(tips, ops, b)
    BY <1>4, <1>11, TipAfterType DEF TipsAfter
  <2>2. tips' = Append(tips, x)
    BY <1>10
  <2> HIDE DEF x
  <2>3. QED BY <1>4, <1>9, <2>1, <2>2
<1>16. \A b : Prior(b)' = Prior(b)
  BY <1>1, <1>4, <1>15 DEF Prior, TipsAt
<1>17. \A b \in Branch : tips'[rev][b] = Called(b, n)'
  BY <1>1, <1>4, <1>9, <1>10, <1>11, <1>12, <1>14, <1>15, CalledBegun
<1>18. \A b : \A r \in 1 .. rev' - 1 : r \in 1 .. rev - 1 /\ tips'[r][b] = tips[r][b]
  BY <1>1, <1>15
<1>19. \A b \in Branch : /\ Copies(b, Done)' = {} /\ Deletes(b, Done)' = {} /\ Changes(b, Done)' = {}
                         /\ BaseOf(b, Done)' = Prior(b)
  <2>1. 1 .. 0 = {}
    OBVIOUS
  <2>2. \A b \in Branch : /\ Copies(b, 0)' = {} /\ Deletes(b, 0)' = {} /\ Changes(b, 0)' = {}
    BY <2>1 DEF Copies, Deletes, Changes
  <2>3. \A b \in Branch : BaseOf(b, 0)' = Prior(b)
    BY <1>16, <2>2 DEF BaseOf
  <2>4. QED BY <1>14, <2>2, <2>3
<1>20. Calm'
  BY <1>1, <1>4 DEF Calm
<1>21. Seen'
  <2>1. AskedOK'
    <3>1. \A i \in 1 .. Len(ops) :
              /\ ops[i].kind = "copy" \/ (ops[i].kind # "delete" /\ ops[i].from # Null) =>
                    /\ ops[i].from \in Branch /\ ops[i].at \in 1 .. rev - 1
                    /\ Source(i)' # <<>>
              /\ ops[i].kind = "delete" => Prior(ops[i].branch)' # <<>>
      <4> SUFFICES ASSUME NEW i \in 1 .. Len(ops)
                   PROVE  /\ ops[i].kind = "copy" \/ (ops[i].kind # "delete" /\ ops[i].from # Null) =>
                                /\ ops[i].from \in Branch /\ ops[i].at \in 1 .. rev - 1
                                /\ Source(i)' # <<>>
                          /\ ops[i].kind = "delete" => Prior(ops[i].branch)' # <<>>
        OBVIOUS
      <4>1. /\ ops[i].kind = "copy" \/ (ops[i].kind # "delete" /\ ops[i].from # Null) =>
                  /\ ops[i].from \in Branch /\ ops[i].at \in 1 .. rev - 1
                  /\ tips[ops[i].at][ops[i].from] # <<>>
            /\ ops[i].kind = "delete" => TipsAt(tips, rev - 1)[ops[i].branch] # <<>>
        BY <1>9, <1>11 DEF Proper
      <4>2. Source(i)' = tips'[ops[i].at][ops[i].from]
        BY <1>14 DEF Source
      <4>3. QED BY <1>15, <1>16, <4>1, <4>2 DEF Prior
    <3>2. \A i, j \in 1 .. Len(ops) :
              i # j /\ ops[i].branch = ops[j].branch => ops[i].kind # "delete"
      BY <1>11 DEF Proper
    <3>3. QED BY <1>1, <1>11, <1>14, <3>1, <3>2 DEF AskedOK
  <2>2. TodoOK'
    <3>1. \A i \in 1 .. Len(ops) : ops[i] = ops[0 + i]
      OBVIOUS
    <3>2. QED BY <1>1, <1>10, <1>12, <1>13, <1>14, <3>1 DEF TodoOK
  <2>3. \A b \in Branch : tips'[rev'][b] = Called(b, Len(Asked))'
    BY <1>1, <1>12, <1>14, <1>17
  <2>4. QED BY <1>1, <1>8, <1>14, <1>15, <2>1, <2>2, <2>3 DEF Seen
<1>22. Marks'
  BY <1>1, <1>2, <1>3, <1>5 DEF Marks, LinesRead
<1>23. Heads'
  BY <1>1, <1>2, <1>3, <1>5 DEF Heads
<1>24. Dates'
  BY <1>1, <1>2, <1>3, <1>6, <1>7 DEF Dates
<1>25. Points'
  BY <1>2, <1>3, <1>5, <1>8, <1>18 DEF Points
<1>26. Logged'
  <2>1. \A b \in Branch, r \in 1 .. rev' - 1 : Value(LineMark(log, Len(log), b, r)) = tips'[r][b]
    BY <1>3, <1>18 DEF Logged
  <2>2. \A b \in Branch : \A r \in Nat : r >= rev => LineMark(log, Len(log), b, r) = LastMark(b)
    BY <1>3, <1>7, <1>8 DEF Logged
  <2>3. QED BY <1>1, <1>2, <1>5, <1>6, <2>1, <2>2 DEF Logged
<1>27. Ended'
  BY <1>1, <1>10, <1>11 DEF Ended
<1>28. Progress'
  <2>1. transactions' = {} /\ \A b \in Branch : ~ Opened(b)' /\ Top(b) = Prior(b)
    BY <1>1, <1>2, <1>3 DEF Progress, Opened
  <2>2. ASSUME NEW b \in Branch
        PROVE  Top(b)' = BaseOf(b, Done)' /\ (Opened(b)' = (Changes(b, Done)' # {}))
    <3>1. Top(b)' = BaseOf(b, Done)'
      BY <1>6, <1>19, <2>1
    <3>2. Opened(b)' = FALSE
      BY <2>1 DEF Opened
    <3>3. (Changes(b, Done)' # {}) = FALSE
      BY <1>19
    <3>4. QED BY <3>1, <3>2, <3>3
  <2>3. QED BY <1>1, <2>1, <2>2 DEF Progress
<1>29. Held'
  BY <1>1, <1>3, <1>5, <1>6, <1>7, <1>8 DEF Held
<1>30. Queued'
  <2>1. Len(<<>>) = 0 /\ 1 .. 0 = {}
    OBVIOUS
  <2>2. QED BY <1>1, <1>2, <1>4, <1>19, <2>1 DEF Queued, CommandsOK
<1>31. Tagged'
  BY <1>1, <1>2, <1>3, <1>6, <1>8 DEF Tagged, Opened
<1>32. Kept'
  <2>1. \A b, r : r \in 1 .. rev - 1 => Removed(b, r)' = Removed(b, r)
    <3> SUFFICES ASSUME NEW b, NEW r \in 1 .. rev - 1
                 PROVE  Removed(b, r)' = Removed(b, r)
      OBVIOUS
    <3>1. tips'[r] = tips[r]
      BY <1>15
    <3>2. r - 1 = 0 \/ r - 1 \in 1 .. rev - 1
      BY <1>4
    <3>3. TipsAt(tips', r - 1) = TipsAt(tips, r - 1)
      BY <1>15, <3>2 DEF TipsAt
    <3>4. QED BY ONLY <3>1, <3>3 DEF Removed
  <2>2. \A r \in 1 .. Len(tips) : r \in 1 .. rev - 1 /\ r \in 1 .. Len(tips')
    BY <1>4, <1>9, <1>15
  <2>3. \A r \in 1 .. Len(tips') : r < rev => r \in 1 .. Len(tips)
    BY <1>4, <1>9, <1>15
  <2>4. ASSUME NEW k \in Saves
        PROVE  /\ k.rev \in 1 .. Len(tips')
               /\ Removed(k.branch, k.rev)' => k.tip = TipsAt(tips', k.rev - 1)[k.branch]
    <3>1. k.rev \in 1 .. rev - 1
      BY <1>3, <2>2 DEF Kept
    <3>2. TipsAt(tips', k.rev - 1) = TipsAt(tips, k.rev - 1)
      BY <1>4, <1>15, <3>1 DEF TipsAt
    <3>3. Removed(k.branch, k.rev) => k.tip = TipsAt(tips, k.rev - 1)[k.branch]
      BY <1>3 DEF Kept
    <3>4. k.rev \in 1 .. Len(tips')
      BY <1>3, <2>2 DEF Kept
    <3>5. QED BY <2>1, <3>1, <3>2, <3>3, <3>4
  <2>5. ASSUME NEW b \in Branch, NEW r \in 1 .. Len(tips'), Removed(b, r)', r < rev
        PROVE  \E k \in Saves : k.branch = b /\ k.rev = r
    <3>1. r \in 1 .. Len(tips) /\ r \in 1 .. rev - 1
      BY <2>2, <2>3, <2>5
    <3>2. Removed(b, r)
      BY <2>1, <2>5, <3>1
    <3>3. QED BY <1>3, <2>5, <3>1, <3>2 DEF Kept
  <2>6. QED BY <1>1, <1>5, <2>4, <2>5 DEF Kept
<1>33. QED
  BY <1>20, <1>21, <1>22, <1>23, <1>24, <1>25, <1>26, <1>27, <1>28, <1>29, <1>30, <1>31, <1>32
     DEF ExportInv

-----------------------------------------------------------------------------
(* The end of a run *)

\* Tagging touches nothing but the tags, and dies of a name without commits.
LEMMA TagHolds ==
    ASSUME NEW p \in Process, ~ p.dead, NEW d \in Disk, NEW tags
    PROVE  LET f == Git!Tag(p, d, tags)
           IN  /\ f \in Process /\ f.mark = p.mark /\ f.tab = p.tab /\ f.del = p.del
               /\ f.backup = p.backup
               /\ f.dead => \E b \in tags : Git!RefTip(p, d, b) \in {Null, <<>>}
               /\ ~ f.dead => /\ \A b \in tags : Git!RefTip(p, d, b) \notin {Null, <<>>}
                              /\ \A b \in Branch : f.tag[b] = IF b \in tags THEN Git!RefTip(p, d, b)
                                                              ELSE p.tag[b]
<1> DEFINE f == Git!Tag(p, d, tags)
<1>1. f \in Process /\ f.mark = p.mark /\ f.tab = p.tab
  BY TagFacts
<1>2. CASE \E b \in tags : Git!RefTip(p, d, b) \in {Null, <<>>}
  <2>1. f = [p EXCEPT !.dead = TRUE]
    BY <1>2 DEF Git!Tag, Git!Die
  <2>2. f.dead /\ f.del = p.del /\ f.backup = p.backup
    BY <2>1 DEF Process
  <2>3. QED BY <1>1, <1>2, <2>2
<1>3. CASE ~ \E b \in tags : Git!RefTip(p, d, b) \in {Null, <<>>}
  <2>1. f = [p EXCEPT !.tag = [b \in Branch |-> IF b \in tags THEN Git!RefTip(p, d, b) ELSE @[b]]]
    BY <1>3 DEF Git!Tag
  <2>2. /\ f.dead = p.dead /\ f.del = p.del /\ f.backup = p.backup
        /\ f.tag = [b \in Branch |-> IF b \in tags THEN Git!RefTip(p, d, b) ELSE p.tag[b]]
    BY <2>1 DEF Process
  <2>3. QED BY <1>1, <1>3, <2>2
<1>4. QED BY <1>2, <1>3

\* What a run that ends leaves on disk.
LEMMA FinishStore ==
    ASSUME Undisturbed, Ready, phase = "idle"
    PROVE  LET f == IF annotatedTags = {} THEN fi
                    ELSE Git!Tag(Running(branches), disk, annotatedTags)
               n == Closed(f, processHasStarted \/ annotatedTags # {})
           IN  /\ f.dead => \E b \in annotatedTags : Prior(b) = <<>>
               /\ ~ f.dead =>
                     /\ n \in Disk /\ n.mark = MarkTable
                     /\ \A b \in Branch : HoldsStored(n, b, Prior(b))
                     /\ \A b \in TagBranch : Prior(b) # <<>> =>
                           b \in annotatedTags /\ n.tag[b] = Prior(b)
                     /\ n.backup \subseteq Saves
                     /\ \A k \in Saves : \E m \in n.backup : m.branch = k.branch /\ m.rev = k.rev
<1>1. /\ Calm /\ Seen /\ Marks /\ Progress /\ Held /\ Tagged
      /\ IInv /\ UsedMarks /\ StoreOK /\ NullIsNoHistory
  BY ReadyFacts DEF Undisturbed
<1>2. /\ fi \in Process /\ disk \in Disk /\ processHasStarted \in BOOLEAN /\ ~ fi.dead
      /\ deletedBranches = <<>> /\ resetBranches = <<>> /\ queue = <<>>
  BY ReadyTypes
<1>3. annotatedTags \subseteq Branch /\ TagBranch \subseteq Branch
  BY <1>1, RepositoryAssumption DEF IInv, MemoryOK
<1>4. \A b \in Branch : /\ Top(b) = Prior(b) /\ Prior(b) \in History /\ Prior(b) # Null
                        /\ Holds(b, Prior(b))
  <2>1. \A b \in Branch : Top(b) = Prior(b) /\ Top(b) \in History
    BY <1>1, TopFacts DEF Progress
  <2>2. \A b : ~ Pending(b)
    BY <1>2, NothingQueued
  <2>3. \A b \in Branch : Holds(b, Top(b))
    BY <1>1, <2>2 DEF Held, Active
  <2>4. QED
    <3> SUFFICES ASSUME NEW b \in Branch
                 PROVE  /\ Top(b) = Prior(b) /\ Prior(b) \in History /\ Prior(b) # Null
                        /\ Holds(b, Prior(b))
      OBVIOUS
    <3>1. PICK h : h = Top(b)
      OBVIOUS
    <3>2. h = Prior(b) /\ h \in History /\ Holds(b, h)
      BY <2>1, <2>3, <3>1
    <3>3. QED BY <1>1, <3>1, <3>2 DEF NullIsNoHistory
<1>5. \A b \in TagBranch : Prior(b) # <<>> => b \in annotatedTags
  BY <1>1, <1>3, <1>4 DEF Tagged, Active
<1>6. CASE annotatedTags = {} /\ ~ processHasStarted
  <2>1. Closed(fi, FALSE) = disk
    BY DEF Closed
  <2>2. MarkTable = disk.mark /\ \A b \in Branch : HoldsStored(disk, b, Prior(b))
    BY <1>4, <1>6 DEF MarkTable, Holds
  <2>3. fi.backup = {}
    BY <1>1, <1>6, EmptyDiskType, StartedFacts DEF StoreOK
  <2>4. Saves = disk.backup
    BY <2>3 DEF Saves
  <2>5. (processHasStarted \/ annotatedTags # {}) = FALSE
    BY <1>6
  <2>6. QED BY <1>2, <1>5, <1>6, <2>1, <2>2, <2>4, <2>5
<1>7. ASSUME NEW f \in Process, ~ f.dead, f.mark = MarkTable, f.backup \cup disk.backup = Saves,
             \A b \in Branch : HoldsRunning(f, disk, b, Prior(b)),
             \A b \in Branch : Prior(b) = <<>> => f.tag[b] = Null,
             \A b \in annotatedTags : f.tag[b] = Prior(b)
      PROVE  LET n == Closed(f, TRUE)
             IN  /\ n \in Disk /\ n.mark = MarkTable
                 /\ \A b \in Branch : HoldsStored(n, b, Prior(b))
                 /\ \A b \in TagBranch : Prior(b) # <<>> =>
                       b \in annotatedTags /\ n.tag[b] = Prior(b)
                 /\ n.backup \subseteq Saves
                 /\ \A k \in Saves : \E m \in n.backup : m.branch = k.branch /\ m.rev = k.rev
  <2> DEFINE n == Git!Dump(f, disk)
  <2>1. Closed(f, TRUE) = n
    BY DEF Closed
  <2>2. n \in Disk /\ n.mark = MarkTable
    BY <1>2, <1>7, DumpFacts
  <2>3. \A b \in Branch : HoldsStored(n, b, Prior(b))
    BY <1>1, <1>2, <1>4, <1>7, DumpHolds
  <2>4. \A b \in TagBranch : Prior(b) # <<>> => b \in annotatedTags /\ n.tag[b] = Prior(b)
    BY <1>2, <1>3, <1>4, <1>5, <1>7, DumpTag
  <2>5. /\ n.backup \subseteq f.backup \cup disk.backup
        /\ f.backup \subseteq n.backup
        /\ \A k \in disk.backup : \E m \in n.backup : m.branch = k.branch /\ m.rev = k.rev
    BY <1>2, DumpBackups
  <2> HIDE DEF n
  <2>6. \A k \in Saves : \E m \in n.backup : m.branch = k.branch /\ m.rev = k.rev
    <3> SUFFICES ASSUME NEW k \in Saves
                 PROVE  \E m \in n.backup : m.branch = k.branch /\ m.rev = k.rev
      OBVIOUS
    <3>1. k \in f.backup \/ k \in disk.backup
      BY <1>7
    <3>2. QED BY <2>5, <3>1
  <2>7. n.backup \subseteq Saves
    BY <1>7, <2>5
  <2>8. QED BY <2>1, <2>2, <2>3, <2>4, <2>6, <2>7
<1>8. CASE annotatedTags = {} /\ processHasStarted
  <2>1. /\ fi.mark = MarkTable /\ fi.backup \cup disk.backup = Saves
        /\ \A b \in Branch : HoldsRunning(fi, disk, b, Prior(b)) /\ fi.tag[b] = Null
    BY <1>1, <1>4, <1>8 DEF MarkTable, Saves, Holds, Tagged
  <2>2. (processHasStarted \/ annotatedTags # {}) = TRUE
    BY <1>8
  <2>3. QED BY <1>2, <1>7, <1>8, <2>1, <2>2
<1>9. CASE annotatedTags # {}
  <2> DEFINE r == Running(branches)
             f == Git!Tag(r, disk, annotatedTags)
  <2>1. /\ r \in Process /\ ~ r.dead /\ r.mark = MarkTable
        /\ r.backup \cup disk.backup = Saves
        /\ \A b \in Branch : r.tag[b] = Null /\ HoldsRunning(r, disk, b, Prior(b))
    <3>1. /\ r \in Process /\ ~ r.dead /\ r.mark = MarkTable
          /\ r.backup \cup disk.backup = Saves
          /\ \A b \in Branch :
                /\ r.tag[b] = Null
                /\ Holds(b, Top(b)) => HoldsRunning(r, disk, b, Top(b))
      BY <1>1, RunningHolds
    <3> HIDE DEF r
    <3>2. ASSUME NEW b \in Branch PROVE HoldsRunning(r, disk, b, Prior(b))
      <4>1. PICK h : h = Top(b)
        OBVIOUS
      <4>2. h = Prior(b) /\ Holds(b, h)
        BY <1>4, <4>1
      <4>3. Holds(b, h) => HoldsRunning(r, disk, b, h)
        BY <3>1, <4>1
      <4>4. QED BY <4>2, <4>3
    <3>3. QED BY <3>1, <3>2
  <2> HIDE DEF r
  <2>2. /\ f \in Process /\ f.mark = r.mark /\ f.tab = r.tab /\ f.del = r.del
        /\ f.backup = r.backup
        /\ f.dead => \E b \in annotatedTags : Git!RefTip(r, disk, b) \in {Null, <<>>}
        /\ ~ f.dead => /\ \A b \in annotatedTags : Git!RefTip(r, disk, b) \notin {Null, <<>>}
                       /\ \A b \in Branch : f.tag[b] = IF b \in annotatedTags THEN Git!RefTip(r, disk, b)
                                                       ELSE r.tag[b]
    BY <1>2, <2>1, TagHolds
  <2> HIDE DEF f
  <2>3. \A b \in Branch : /\ Prior(b) # <<>> => Git!RefTip(r, disk, b) = Prior(b)
                          /\ Prior(b) = <<>> => Git!RefTip(r, disk, b) \in {Null, <<>>}
    <3> SUFFICES ASSUME NEW b \in Branch
                 PROVE  /\ Prior(b) # <<>> => Git!RefTip(r, disk, b) = Prior(b)
                        /\ Prior(b) = <<>> => Git!RefTip(r, disk, b) \in {Null, <<>>}
      OBVIOUS
    <3>1. PICK h : h = Prior(b)
      OBVIOUS
    <3>2. HoldsRunning(r, disk, b, h) /\ h # Null
      BY <1>4, <2>1, <3>1
    <3>3. QED BY <3>1, <3>2 DEF HoldsRunning, Git!RefTip
  <2>4. f.dead => \E b \in annotatedTags : Prior(b) = <<>>
    <3>1. \A b \in annotatedTags : b \in Branch /\ Prior(b) # Null
      BY <1>3, <1>4
    <3>2. QED BY <2>2, <2>3, <3>1
  <2>5. (processHasStarted \/ annotatedTags # {}) = TRUE
    BY <1>9
  <2>6. CASE ~ f.dead
    <3>1. \A b \in annotatedTags : b \in Branch /\ Prior(b) # <<>>
      BY <1>3, <2>2, <2>3, <2>6
    <3>2. \A b \in Branch : Prior(b) = <<>> => f.tag[b] = Null
      BY <2>1, <2>2, <2>6, <3>1
    <3>3. \A b \in annotatedTags : f.tag[b] = Prior(b)
      BY <2>2, <2>3, <2>6, <3>1
    <3>4. \A b \in Branch : HoldsRunning(f, disk, b, Prior(b))
      BY <2>1, <2>2 DEF HoldsRunning
    <3>5. QED BY <1>7, <1>9, <2>1, <2>2, <2>5, <2>6, <3>2, <3>3, <3>4 DEF f, r
  <2>7. CASE f.dead
    BY <1>9, <2>4, <2>7 DEF f, r
  <2>8. QED BY <2>6, <2>7
<1>10. QED BY <1>2, <1>6, <1>8, <1>9

\* A run comes to its end, or dies tagging a branch that is no more.
LEMMA ExportFinish ==
    ASSUME Undisturbed, Ready, Finish
    PROVE  ExportInv'
<1> DEFINE f == IF annotatedTags = {} THEN fi
                ELSE Git!Tag(Running(branches), disk, annotatedTags)
           started == processHasStarted \/ annotatedTags # {}
           n == Closed(f, started)
<1>1. /\ Calm /\ Seen /\ Marks /\ Heads /\ Dates /\ Points /\ Logged /\ Ended
      /\ Progress /\ Held /\ Queued /\ Tagged /\ Kept
      /\ IInv /\ UsedMarks /\ StoreOK
  BY ReadyFacts
<1>2. /\ phase = "idle" /\ UNCHANGED <<pos, log, history>>
      /\ tagsFile' = IF annotatedTags = {} THEN tagsFile ELSE annotatedTags
      /\ IF f.dead
         THEN /\ fi' = f /\ phase' = "dead"
              /\ UNCHANGED <<memory, rev>>
         ELSE /\ disk' = n
              /\ outstandingTransactions = 0 => Gone
  BY <1>1 DEF Finish, Calm
<1>3. outstandingTransactions = 0
  BY <1>1, <1>2 DEF IInv, TransactionsOK, OutstandingExact
<1>4. /\ f.dead => \E b \in annotatedTags : Prior(b) = <<>>
      /\ ~ f.dead =>
            /\ n \in Disk /\ n.mark = MarkTable
            /\ \A b \in Branch : HoldsStored(n, b, Prior(b))
            /\ \A b \in TagBranch : Prior(b) # <<>> =>
                  b \in annotatedTags /\ n.tag[b] = Prior(b)
            /\ n.backup \subseteq Saves
            /\ \A k \in Saves : \E m \in n.backup : m.branch = k.branch /\ m.rev = k.rev
  BY <1>2, FinishStore
<1> HIDE DEF f, started, n
<1>5. svn' = svn /\ tips' = tips
  BY <1>2 DEF history
<1>6. rev' = rev
  BY <1>2, <1>3 DEF Gone
<1>7. \A b : Prior(b)' = Prior(b)
  BY <1>5, <1>6, AskedSame
<1>8. CASE f.dead
  <2>1. phase' = "dead" /\ annotatedTags' = annotatedTags
    BY <1>2, <1>8 DEF memory
  <2>2. Calm'
    BY <1>4, <1>7, <1>8, <2>1 DEF Calm
  <2>3. QED BY <2>1, <2>2 DEF ExportInv
<1>9. CASE ~ f.dead
  <2>1. disk' = n /\ Gone
    BY <1>2, <1>3, <1>9
  <2>2. /\ branches' = InitialBranches /\ last_commit_mark' = 0 /\ transactions' = {}
        /\ deletedBranches' = <<>> /\ resetBranches' = <<>> /\ annotatedTags' = {}
        /\ processHasStarted' = FALSE /\ todo' = <<>> /\ queue' = <<>>
        /\ fi' = Git!Started(Git!EmptyDisk) /\ phase' = "down"
    BY <2>1 DEF Gone
  <2>3. ~ fi'.dead /\ fi'.backup = {}
    BY <2>2, EmptyDiskType, StartedFacts
  <2>4. /\ n \in Disk /\ n.mark = MarkTable
        /\ \A b \in Branch : HoldsStored(n, b, Prior(b))
        /\ \A b \in TagBranch : Prior(b) # <<>> => b \in annotatedTags /\ n.tag[b] = Prior(b)
        /\ n.backup \subseteq Saves
        /\ \A k \in Saves : \E m \in n.backup : m.branch = k.branch /\ m.rev = k.rev
    BY <1>4, <1>9
  <2>5. MarkTable' = MarkTable /\ Saves' = n.backup
    BY <2>1, <2>2, <2>3, <2>4 DEF MarkTable, Saves
  <2>6. \A m : Value(m)' = Value(m)
    BY <2>5 DEF Value
  <2>7. ~ Exporting' /\ ~ Exporting /\ ~ Active' /\ Active
    BY <1>2, <2>2 DEF Exporting, Active
  <2>8. /\ Len(<<>>) = 0 /\ 1 .. 0 = {}
        /\ log' = log /\ pos' = pos /\ pos = 0 /\ Len(log) \in Nat
    BY <1>1, <1>2, ReadyTypes DEF IInv, LogOK
  <2>9. \A b \in Branch : branches'[b].commits = <<>> /\ branches'[b].marks = <<>>
    BY <2>2 DEF InitialBranches, EmptyBranch
  <2>10. \A b \in Branch : LastMark(b)' = 0
    BY <2>9 DEF LastMark, LastOf
  <2>11. Calm'
    BY <2>2, <2>3 DEF Calm
  <2>12. Seen'
    BY <1>1, <1>5, <1>6, <2>7 DEF Seen
  <2>13. Marks'
    BY <1>1, <1>2, <2>2, <2>5, <2>8 DEF Marks, LinesRead
  <2>14. Heads'
    BY <1>1, <1>2, <1>6, <2>2, <2>5 DEF Heads
  <2>15. Dates'
    BY <2>2, <2>8, <2>9, <2>10 DEF Dates
  <2>16. Points'
    BY <2>7 DEF Points
  <2>17. Logged'
    <3>1. \A b \in Branch : \A r : EntryMark(branches'[b], r) = 0
      BY <2>8, <2>9 DEF EntryMark
    <3>2. \A b, r : LineMark(log, 0, b, r) = 0
      BY <2>8 DEF LineMark
    <3>3. \A b \in Branch, r \in 1 .. rev - 1 : Value(LineMark(log, Len(log), b, r)) = tips[r][b]
      BY <1>1 DEF Logged
    <3>4. QED BY <1>5, <1>6, <2>6, <2>7, <2>8, <3>1, <3>2, <3>3 DEF Logged
  <2>18. Ended'
    BY <1>1, <1>2, <1>6, <2>2 DEF Ended
  <2>19. Progress'
    BY <2>2, <2>7 DEF Progress
  <2>20. Held'
    BY <1>7, <2>1, <2>2, <2>4, <2>7 DEF Held, Holds
  <2>21. Queued'
    BY <2>2, <2>8 DEF Queued, CommandsOK
  <2>22. Tagged'
    <3>1. \A b \in TagBranch : Prior(b) # <<>> => b \in tagsFile' /\ disk'.tag[b] = Prior(b)
      BY <1>2, <2>1, <2>4
    <3>2. QED BY <1>7, <2>2, <2>7, <3>1 DEF Tagged
  <2>23. Kept'
    <3>1. \A b, r : Removed(b, r)' = Removed(b, r)
      BY <1>5 DEF Removed
    <3>2. \A k \in Saves' : /\ k.rev \in 1 .. Len(tips')
                            /\ Removed(k.branch, k.rev)' =>
                                  k.tip = TipsAt(tips', k.rev - 1)[k.branch]
      BY <1>1, <1>5, <2>4, <2>5, <3>1 DEF Kept
    <3>3. ASSUME NEW b \in Branch, NEW r \in 1 .. Len(tips'), Removed(b, r)', r < rev
          PROVE  \E k \in Saves' : k.branch = b /\ k.rev = r
      <4>1. PICK k \in Saves : k.branch = b /\ k.rev = r
        BY <1>1, <1>5, <3>1, <3>3 DEF Kept
      <4>2. QED BY <2>4, <2>5, <4>1
    <3>4. QED BY <1>6, <2>2, <3>2, <3>3 DEF Kept
  <2>24. QED
    BY <2>11, <2>12, <2>13, <2>14, <2>15, <2>16, <2>17, <2>18, <2>19, <2>20, <2>21, <2>22, <2>23
       DEF ExportInv
<1>10. QED BY <1>8, <1>9

-----------------------------------------------------------------------------
(* A new run *)

\* While the log is read: what is on disk, and what nothing has touched yet.
LEMMA DownFacts ==
    ASSUME Ready, phase = "down"
    PROVE  /\ ~ processHasStarted /\ MarkTable = disk.mark /\ disk \in Disk
           /\ Len(log) \in Nat /\ pos \in 0 .. Len(log)
           /\ \A j \in 1 .. Len(log) : /\ log[j] \in Line /\ log[j].rev \in Nat /\ log[j].rev # 0
                                       /\ log[j].rev <= rev - 1
           /\ \A j \in 1 .. Len(log) : ~ Unknown(log[j])
           /\ (\A b : ~ Pending(b)) /\ transactions = {}
<1>1. /\ IInv /\ UsedMarks /\ StoreOK /\ Marks /\ Ended
  BY ReadyFacts
<1>2. ~ processHasStarted /\ MarkTable = disk.mark /\ disk \in Disk
  BY <1>1 DEF StoreOK, MarkTable
<1>3. /\ Len(log) \in Nat /\ pos \in 0 .. Len(log)
      /\ \A j \in 1 .. Len(log) : log[j] \in Line
      /\ \A i, j \in 1 .. Len(log) : i < j => log[i].rev <= log[j].rev
  BY <1>1, LogFacts
<1>4. \A j \in 1 .. Len(log) : log[j].rev \in Nat /\ log[j].rev # 0 /\ log[j].mark \in Mark
  BY <1>3, Bounds DEF Line
<1>5. ASSUME NEW j \in 1 .. Len(log)
      PROVE  log[j].rev <= rev - 1
  <2>1. log # <<>>
    BY <1>5
  <2>2. log[Len(log)].rev = rev - 1
    BY <1>1, <2>1 DEF Ended
  <2>3. j = Len(log) \/ (j < Len(log) /\ Len(log) \in 1 .. Len(log))
    BY <1>3
  <2>4. log[j].rev <= log[Len(log)].rev
    BY <1>3, <1>4, <2>3
  <2>5. QED BY <2>2, <2>4
<1>6. ASSUME NEW j \in 1 .. Len(log)
      PROVE  ~ Unknown(log[j])
  <2> DEFINE L == LastValidMark(disk)
  <2>1. /\ L \in 0 .. MaxCommitMark
        /\ L < MaxCommitMark => disk.mark[L + 1] = Null
    BY <1>2, LastValidRange
  <2> HIDE DEF L
  <2>2. \A m \in 1 .. log[j].mark : disk.mark[m] # Null
    BY <1>1, <1>2 DEF Marks
  <2>3. log[j].mark \in 0 .. MaxCommitMark /\ MaxCommitMark \in Nat
    BY <1>4, Bounds DEF Mark
  <2>4. ~ (log[j].mark > L)
    <3> SUFFICES ASSUME log[j].mark > L PROVE FALSE
      OBVIOUS
    <3>1. L < MaxCommitMark /\ L + 1 \in 1 .. log[j].mark
      BY <2>1, <2>3
    <3>2. QED BY <2>1, <2>2, <3>1
  <2>5. QED BY <2>4 DEF Unknown, L
<1>7. /\ deletedBranches = <<>> /\ resetBranches = <<>> /\ queue = <<>>
  BY ReadyTypes
<1>8. \A b : ~ Pending(b)
  BY <1>7, NothingQueued
<1>9. transactions = {}
  BY <1>1, FS_EmptySet DEF IInv, TransactionsOK, OutstandingExact
<1>10. QED BY <1>2, <1>3, <1>4, <1>5, <1>6, <1>8, <1>9

\* A branch, one more of its lines read.
LEMMA RestoredFacts ==
    ASSUME NEW br \in Entry, NEW line \in Line, NEW r \in Nat, line.rev < r,
           br.commits # <<>> => br.created # 0,
           \A i \in 1 .. Len(br.marks) : br.commits[i] <= r,
           LastOf(br.marks) # 0 => br.created < r
    PROVE  LET x == Restored(br, line)
           IN  /\ x.commits # <<>> /\ x.created # 0 /\ x.created \in Nat
               /\ \A i \in 1 .. Len(x.marks) : x.commits[i] <= r
               /\ LastOf(x.marks) # 0 => x.created < r
               /\ \A at \in Int : EntryMark(x, at) = IF line.rev <= at THEN line.mark
                                                     ELSE EntryMark(br, at)
<1> DEFINE created == IF ~ HasTip(br) \/ line.mark = 0 THEN line.rev ELSE br.created
           x == Restored(br, line)
<1>1. /\ line.rev \in Nat /\ line.rev # 0 /\ line.mark \in Mark /\ br.created \in Nat
      /\ Len(br.marks) \in Nat /\ Len(br.commits) = Len(br.marks)
      /\ br.commits \in Seq(Nat) /\ br.marks \in Seq(Mark)
  BY Bounds DEF Line, Entry
<1>2. x = Extended(br, line.rev, line.mark, created)
  BY DEF Restored
<1>3. created \in Nat /\ created # 0 /\ (line.mark # 0 => created < r)
  BY <1>1 DEF HasTip
<1> HIDE DEF created, x
<1>4. /\ LastOf(x.marks) = line.mark /\ x.created = created /\ x.commits # <<>>
      /\ \A at \in Int : EntryMark(x, at) = IF line.rev <= at THEN line.mark ELSE EntryMark(br, at)
  BY <1>1, <1>2, EntryExtended
<1>5. x.marks = Append(br.marks, line.mark) /\ x.commits = Append(br.commits, line.rev)
  BY <1>2 DEF Extended
<1>6. \A i \in 1 .. Len(x.marks) : x.commits[i] <= r
  <2>1. \A i \in 1 .. Len(x.marks) :
            i \in 1 .. Len(br.marks) \/ i = Len(br.commits) + 1
    BY <1>1, <1>5
  <2>2. /\ \A i \in 1 .. Len(br.marks) : x.commits[i] = br.commits[i]
        /\ x.commits[Len(br.commits) + 1] = line.rev
    BY <1>1, <1>5, AppendFacts
  <2>3. SUFFICES ASSUME NEW i \in 1 .. Len(x.marks) PROVE x.commits[i] <= r
    OBVIOUS
  <2>4. CASE i \in 1 .. Len(br.marks)
    BY <2>2, <2>4
  <2>5. CASE i = Len(br.commits) + 1
    BY <1>1, <2>2, <2>5
  <2>6. QED BY <2>1, <2>4, <2>5
<1>7. QED BY <1>3, <1>4, <1>6 DEF x

\* A line of the log is read.
LEMMA ExportRestoreLine ==
    ASSUME Undisturbed, Ready, RestoreLine
    PROVE  ExportInv'
<1>1. /\ phase = "down" /\ phase' = "down" /\ pos < Len(log) /\ pos' = pos + 1
      /\ UNCHANGED <<next_file_mark, transactions, deletedBranches, resetBranches, annotatedTags,
                     todo, queue, log, tagsFile>>
      /\ UNCHANGED <<fi, disk, processHasStarted>> /\ UNCHANGED <<svn, tips, rev>>
  BY DEF RestoreLine, driver, stored, history
<1>2. /\ Calm /\ Seen /\ Marks /\ Heads /\ Dates /\ Points /\ Logged /\ Ended
      /\ Progress /\ Held /\ Queued /\ Tagged /\ Kept
      /\ IInv /\ UsedMarks /\ StoreOK
  BY ReadyFacts
<1>3. PICK line : line = log[pos + 1]
  OBVIOUS
<1>4. /\ branches' = [branches EXCEPT ![line.branch] = Restored(@, line)]
      /\ last_commit_mark' = HighestMark(line.mark)
  BY <1>3 DEF RestoreLine
<1>5. /\ ~ processHasStarted /\ Len(log) \in Nat /\ pos \in Nat
      /\ \A j \in 1 .. Len(log) : /\ log[j] \in Line /\ log[j].rev \in Nat /\ log[j].rev # 0
                                  /\ log[j].rev <= rev - 1
      /\ (\A b : ~ Pending(b)) /\ transactions = {}
  BY <1>1, DownFacts
<1>6. /\ rev \in Nat /\ rev # 0 /\ \A b \in Branch : branches[b] \in Entry
      /\ branches \in [Branch -> Entry] /\ last_commit_mark \in Mark
  BY <1>2, ReadyTypes, MarkFacts
<1>7. /\ line \in Line /\ pos + 1 \in 1 .. Len(log) /\ line.branch \in Branch
      /\ line.rev \in Nat /\ line.rev < rev /\ line.mark \in Mark
  <2>1. pos + 1 \in 1 .. Len(log)
    BY <1>1, <1>5
  <2>2. line \in Line /\ line.rev \in Nat /\ line.rev <= rev - 1
    BY <1>3, <1>5, <2>1
  <2>3. line.branch \in Branch /\ line.mark \in Mark
    BY <2>2 DEF Line
  <2>4. QED BY <1>6, <2>1, <2>2, <2>3
<1>8. /\ MarkTable' = MarkTable /\ BlobTable' = BlobTable /\ Saves' = Saves
      /\ \A m : Value(m)' = Value(m)
      /\ \A b, h : Holds(b, h)' = Holds(b, h)
  BY <1>1, StoreSame
<1>9. \A b : Prior(b)' = Prior(b)
  BY <1>1, AskedSame
<1>10. ~ Exporting' /\ ~ Exporting /\ ~ Active'
  BY <1>1 DEF Exporting, Active
<1>11. \A b : ~ Pending(b)'
  BY <1>1, <1>5 DEF Pending
<1>12. \A b \in Branch : branches'[b] = IF b = line.branch THEN Restored(branches[b], line)
                                        ELSE branches[b]
  BY <1>4, <1>6
<1>13. \A b \in Branch : LET x == Restored(branches[b], line) IN
           /\ x.commits # <<>> /\ x.created # 0 /\ x.created \in Nat
           /\ \A i \in 1 .. Len(x.marks) : x.commits[i] <= rev
           /\ LastOf(x.marks) # 0 => x.created < rev
           /\ \A at \in Int : EntryMark(x, at) = IF line.rev <= at THEN line.mark
                                                 ELSE EntryMark(branches[b], at)
  <2> SUFFICES ASSUME NEW b \in Branch
               PROVE  LET x == Restored(branches[b], line) IN
           /\ x.commits # <<>> /\ x.created # 0 /\ x.created \in Nat
           /\ \A i \in 1 .. Len(x.marks) : x.commits[i] <= rev
           /\ LastOf(x.marks) # 0 => x.created < rev
           /\ \A at \in Int : EntryMark(x, at) = IF line.rev <= at THEN line.mark
                                                 ELSE EntryMark(branches[b], at)
    OBVIOUS
  <2>1. /\ branches[b].commits # <<>> => branches[b].created # 0
        /\ \A i \in 1 .. Len(branches[b].marks) : branches[b].commits[i] <= rev
        /\ LastOf(branches[b].marks) # 0 => branches[b].created < rev
    BY <1>1, <1>2 DEF Dates, LastMark
  <2>2. QED BY <1>6, <1>7, <2>1, RestoredFacts
<1>14. Calm'
  BY <1>1, <1>2, <1>9 DEF Calm
<1>15. Seen'
  BY <1>1, <1>2, <1>10 DEF Seen
<1>16. Marks'
  <2>1. LinesRead' = pos + 1 /\ LinesRead = pos
    BY <1>1 DEF LinesRead
  <2>2. /\ last_commit_mark' = IF last_commit_mark < line.mark THEN line.mark ELSE last_commit_mark
        /\ last_commit_mark \in Int /\ line.mark \in Int
    BY <1>4, <1>6, <1>7, Bounds DEF HighestMark, Mark
  <2>3. \A j \in 1 .. pos : j \in 1 .. Len(log) /\ log[j].mark \in Int /\ log[j].mark <= last_commit_mark
    <3>1. \A j \in 1 .. pos : j \in 1 .. Len(log)
      BY <1>5, <1>7
    <3>2. \A j \in 1 .. Len(log) : log[j].mark \in Int
      BY <1>5, Bounds DEF Line, Mark
    <3>3. QED BY <1>2, <2>1, <3>1, <3>2 DEF Marks
  <2>4. \A j \in 1 .. pos + 1 : j \in 1 .. pos \/ j = pos + 1
    BY <1>5
  <2>5. \A j \in 1 .. pos + 1 : log[j].mark <= last_commit_mark'
    BY <1>3, <2>2, <2>3, <2>4
  <2>6. last_commit_mark' = 0 \/ \E j \in 1 .. pos + 1 : log[j].mark = last_commit_mark'
    <3>1. CASE last_commit_mark' = line.mark
      <4>1. pos + 1 \in 1 .. pos + 1
        BY <1>5
      <4>2. QED BY <1>3, <3>1, <4>1
    <3>2. CASE last_commit_mark' = last_commit_mark
      <4>1. last_commit_mark = 0 \/ \E j \in 1 .. pos : log[j].mark = last_commit_mark
        BY <1>2, <2>1 DEF Marks
      <4>2. \A j \in 1 .. pos : j \in 1 .. pos + 1
        BY <1>5
      <4>3. QED BY <3>2, <4>1, <4>2
    <3>3. QED BY <2>2, <3>1, <3>2
  <2>7. QED BY <1>1, <1>2, <1>8, <2>1, <2>5, <2>6 DEF Marks
<1>17. Heads'
  BY <1>1, <1>2, <1>8 DEF Heads
<1>18. Dates'
  <2> SUFFICES ASSUME NEW b \in Branch
               PROVE  /\ branches'[b].commits # <<>> => branches'[b].created # 0
                      /\ \A i \in 1 .. Len(branches'[b].marks) : branches'[b].commits[i] <= rev
                      /\ LastOf(branches'[b].marks) # 0 =>
                            branches'[b].created <= rev /\ branches'[b].created < rev
    BY <1>1 DEF Dates, LastMark
  <2>1. CASE b = line.branch
    <3>1. branches'[b] = Restored(branches[b], line)
      BY <1>12, <2>1
    <3>2. QED BY <1>6, <1>13, <3>1
  <2>2. CASE b # line.branch
    <3>1. branches'[b] = branches[b]
      BY <1>12, <2>2
    <3>2. QED BY <1>1, <1>2, <3>1 DEF Dates, LastMark
  <2>3. QED BY <2>1, <2>2
<1>19. Points'
  BY <1>10 DEF Points
<1>20. Logged'
  <2>1. ASSUME NEW b \in Branch, NEW r \in Nat
        PROVE  EntryMark(branches'[b], r) = LineMark(log, pos + 1, b, r)
    <3>1. LineMark(log, pos + 1, b, r) =
               IF line.branch = b /\ line.rev <= r THEN line.mark ELSE LineMark(log, pos, b, r)
      BY <1>3, <1>5, LineMarkNext
    <3>2. EntryMark(branches[b], r) = LineMark(log, pos, b, r)
      BY <1>1, <1>2 DEF Logged
    <3>3. CASE b = line.branch
      <4>1. branches'[b] = Restored(branches[b], line)
        BY <1>12, <3>3
      <4>2. r \in Int
        OBVIOUS
      <4>3. QED BY <1>13, <3>1, <3>2, <3>3, <4>1, <4>2
    <3>4. CASE b # line.branch
      BY <1>12, <3>1, <3>2, <3>4
    <3>5. QED BY <3>3, <3>4
  <2>2. QED BY <1>1, <1>2, <1>8, <1>10, <2>1 DEF Logged
<1>21. Ended'
  BY <1>1, <1>2 DEF Ended
<1>22. Progress'
  BY <1>1, <1>10 DEF Progress
<1>23. Held'
  BY <1>1, <1>2, <1>8, <1>9, <1>10 DEF Held
<1>24. Queued'
  <2>1. queue' = <<>> /\ deletedBranches' = <<>> /\ resetBranches' = <<>>
    BY <1>1, ReadyTypes
  <2>2. Len(<<>>) = 0 /\ 1 .. 0 = {}
    OBVIOUS
  <2>3. QED BY <1>1, <2>1, <2>2 DEF Queued, CommandsOK
<1>25. Tagged'
  BY <1>1, <1>2, <1>9, <1>10 DEF Tagged
<1>26. Kept'
  <2>1. \A b \in Branch : Pending(b)' = Pending(b)
    BY <1>1 DEF Pending, Waiting
  <2>2. /\ UNCHANGED <<tips, rev, phase>> /\ Saves' \subseteq Saves
        /\ \A k \in Saves : \E m \in Saves' : m.branch = k.branch /\ m.rev = k.rev
    BY <1>1, <1>8
  <2>3. QED BY <1>2, <2>1, <2>2, KeptSame
<1>27. QED
  BY <1>14, <1>15, <1>16, <1>17, <1>18, <1>19, <1>20, <1>21, <1>22, <1>23, <1>24, <1>25, <1>26
     DEF ExportInv

\* The log is read to its end: the export goes on where it stopped.
LEMMA ExportStartExport ==
    ASSUME Undisturbed, Ready, StartExport
    PROVE  ExportInv'
<1>1. /\ phase = "down" /\ phase' = "idle" /\ pos' = 0
      /\ pos < Len(log) => Unknown(log[pos + 1])
      /\ log' = Truncated(log, pos) /\ rev' = ResumeRevision(log, pos)
      /\ annotatedTags' = tagsFile
      /\ UNCHANGED <<branches, last_commit_mark, next_file_mark, transactions, deletedBranches,
                     resetBranches, todo, queue, tagsFile>>
      /\ UNCHANGED <<fi, disk, processHasStarted>> /\ svn' = svn /\ tips' = tips
  BY DEF StartExport, marking, history, RestoredAnnotatedTags
<1>2. /\ Calm /\ Seen /\ Marks /\ Heads /\ Dates /\ Points /\ Logged /\ Ended
      /\ Progress /\ Held /\ Queued /\ Tagged /\ Kept
      /\ IInv /\ UsedMarks /\ StoreOK
  BY ReadyFacts
<1>3. /\ ~ processHasStarted /\ Len(log) \in Nat /\ pos \in 0 .. Len(log)
      /\ \A j \in 1 .. Len(log) : /\ log[j] \in Line /\ log[j].rev \in Nat /\ log[j].rev # 0
                                  /\ log[j].rev <= rev - 1
      /\ \A j \in 1 .. Len(log) : ~ Unknown(log[j])
      /\ (\A b : ~ Pending(b)) /\ transactions = {}
  BY <1>1, DownFacts
<1>4. /\ rev \in Nat /\ rev # 0 /\ \A b \in Branch : branches[b] \in Entry
      /\ log \in Seq(Line) /\ ~ fi.dead
      /\ deletedBranches = <<>> /\ resetBranches = <<>> /\ queue = <<>>
  BY <1>1, ReadyTypes
<1>5. pos = Len(log)
  <2> SUFFICES ASSUME pos < Len(log) PROVE FALSE
    BY <1>3
  <2>1. pos + 1 \in 1 .. Len(log)
    BY <1>3
  <2>2. QED BY <1>1, <1>3, <2>1
<1>6. log' = log
  BY <1>1, <1>4, <1>5 DEF Truncated
<1>7. rev' = rev
  <2>1. CASE log = <<>>
    <3>1. Len(log) = 0
      BY <2>1
    <3>2. rev = 1
      BY <1>1, <1>2, <2>1 DEF Ended
    <3>3. QED BY <1>1, <1>5, <2>1, <3>1, <3>2 DEF ResumeRevision
  <2>2. CASE log # <<>>
    <3>1. log[Len(log)].rev = rev - 1
      BY <1>1, <1>2, <2>2 DEF Ended
    <3>2. rev' = log[Len(log)].rev + 1
      BY <1>1, <1>3, <1>5, <2>2 DEF ResumeRevision
    <3>3. QED BY <1>4, <3>1, <3>2
  <2>3. QED BY <2>1, <2>2
<1>8. /\ MarkTable' = MarkTable /\ BlobTable' = BlobTable /\ Saves' = Saves
      /\ \A m : Value(m)' = Value(m)
      /\ \A b, h : Holds(b, h)' = Holds(b, h)
  BY <1>1, StoreSame
<1>9. \A b : LastMark(b)' = LastMark(b) /\ Top(b)' = Top(b)
  BY <1>1, <1>8, TopSame
<1>10. \A b : Prior(b)' = Prior(b)
  BY <1>1, <1>7, AskedSame
<1>11. ~ Exporting' /\ ~ Exporting /\ Active'
  BY <1>1 DEF Exporting, Active
<1>12. \A b : ~ Pending(b)'
  BY <1>1, <1>3 DEF Pending
<1>13. \A b \in Branch, r \in Nat : EntryMark(branches[b], r) = LineMark(log, Len(log), b, r)
  BY <1>1, <1>2, <1>5 DEF Logged
<1>14. ASSUME NEW b \in Branch, NEW r \in Nat, r >= rev
       PROVE  LineMark(log, Len(log), b, r) = LastMark(b)
  <2>1. \A i \in 1 .. Len(branches[b].marks) : branches[b].commits[i] <= rev
    BY <1>2 DEF Dates
  <2>2. \A i \in 1 .. Len(branches[b].marks) : branches[b].commits[i] \in Nat
    BY <1>4 DEF Entry
  <2>3. \A i \in 1 .. Len(branches[b].marks) : branches[b].commits[i] <= r
    BY <1>4, <1>14, <2>1, <2>2
  <2>4. EntryMark(branches[b], r) = LastMark(b)
    BY <1>4, <2>3, EntryLast DEF LastMark
  <2>5. QED BY <1>13, <2>4
<1>15. ASSUME NEW b \in Branch
       PROVE  Top(b) = Prior(b)
  <2>1. LineMark(log, Len(log), b, rev) = LastMark(b)
    BY <1>4, <1>14
  <2>2. CASE rev = 1
    <3>1. log = <<>>
      <4> SUFFICES ASSUME log # <<>> PROVE FALSE
        OBVIOUS
      <4>1. Len(log) \in 1 .. Len(log) /\ log[Len(log)].rev = rev - 1
        BY <1>1, <1>2, <1>4 DEF Ended
      <4>2. QED BY <1>3, <2>2, <4>1
    <3>2. Len(log) = 0 /\ 1 .. 0 = {}
      BY <3>1
    <3>3. LastMark(b) = 0
      BY <2>1, <3>2 DEF LineMark
    <3>4. QED BY <2>2, <3>3 DEF Top, Value, Prior, TipsAt, NoTips
  <2>3. CASE rev # 1
    <3>1. \A i \in 1 .. Len(log) : (log[i].rev <= rev) = (log[i].rev <= rev - 1)
      BY <1>3, <1>4
    <3>2. LineMark(log, Len(log), b, rev) = LineMark(log, Len(log), b, rev - 1)
      BY <1>3, <3>1, LineMarkLater
    <3>3. rev - 1 \in 1 .. rev - 1 /\ rev - 1 # 0
      BY <1>4, <2>3
    <3>4. Value(LineMark(log, Len(log), b, rev - 1)) = tips[rev - 1][b]
      BY <1>2, <3>3 DEF Logged
    <3>5. QED BY <2>1, <3>2, <3>3, <3>4 DEF Top, Prior, TipsAt
  <2>4. QED BY <2>2, <2>3
<1>16. Calm'
  BY <1>1, <1>4 DEF Calm
<1>17. Seen'
  BY <1>1, <1>2, <1>7, <1>11 DEF Seen
<1>18. Marks'
  BY <1>1, <1>2, <1>5, <1>6, <1>8 DEF Marks, LinesRead
<1>19. Heads'
  BY <1>1, <1>2, <1>7, <1>8 DEF Heads
<1>20. Dates'
  BY <1>1, <1>2, <1>7, <1>9 DEF Dates
<1>21. Points'
  <2> SUFFICES ASSUME NEW b \in Branch, NEW r \in 1 .. rev - 1
               PROVE  Value(EntryMark(branches[b], r)) = tips[r][b]
    BY <1>1, <1>7, <1>8 DEF Points
  <2>1. EntryMark(branches[b], r) = LineMark(log, Len(log), b, r)
    BY <1>4, <1>13
  <2>2. QED BY <1>2, <2>1 DEF Logged
<1>22. Logged'
  BY <1>1, <1>2, <1>6, <1>7, <1>8, <1>9, <1>14 DEF Logged
<1>23. Ended'
  BY <1>1, <1>2, <1>6, <1>7 DEF Ended
<1>24. Progress'
  BY <1>1, <1>3, <1>9, <1>10, <1>11, <1>15 DEF Progress
<1>25. Held'
  <2> SUFFICES ASSUME NEW b \in Branch PROVE Holds(b, Top(b))'
    BY <1>1 DEF Held
  <2>1. PICK h : h = Top(b)
    OBVIOUS
  <2>2. h = Prior(b) /\ h = Top(b)'
    BY <1>9, <1>15, <2>1
  <2>3. Holds(b, h)
    BY <1>1, <1>2, <2>2 DEF Held
  <2>4. QED BY <1>8, <2>2, <2>3
<1>26. Queued'
  <2>1. Len(<<>>) = 0 /\ 1 .. 0 = {}
    OBVIOUS
  <2>2. QED BY <1>1, <1>4, <2>1 DEF Queued, CommandsOK
<1>27. Tagged'
  <2>1. \A b \in TagBranch : b \in Branch
    BY RepositoryAssumption
  <2>2. \A b \in Branch : ~ Opened(b)'
    BY <1>1, <1>3 DEF Opened
  <2>3. \A b \in TagBranch : Top(b)' # <<>> => b \in tagsFile
    BY <1>1, <1>2, <1>9, <1>15, <2>1 DEF Tagged
  <2>4. QED BY <1>1, <1>3, <2>1, <2>2, <2>3 DEF Tagged
<1>28. Kept'
  <2>1. \A b, r : Removed(b, r)' = Removed(b, r)
    BY <1>1 DEF Removed
  <2>2. QED BY <1>1, <1>2, <1>7, <1>8, <2>1 DEF Kept
<1>29. QED
  BY <1>16, <1>17, <1>18, <1>19, <1>20, <1>21, <1>22, <1>23, <1>24, <1>25, <1>26, <1>27, <1>28
     DEF ExportInv

-----------------------------------------------------------------------------
(* Every step *)

\* Nothing the invariant speaks of changes.
LEMMA ExportStutter ==
    ASSUME ExportInv, UNCHANGED vars
    PROVE  ExportInv'
<1>1. /\ UNCHANGED <<branches, last_commit_mark, next_file_mark, transactions, deletedBranches,
                     resetBranches, annotatedTags, pos, todo, log, tagsFile>>
      /\ UNCHANGED <<fi, disk, processHasStarted>> /\ UNCHANGED <<svn, tips, rev, todo>>
      /\ phase' = phase /\ queue' = queue
  BY DEF vars, memory, driver, stored, history
<1>2. /\ MarkTable' = MarkTable /\ BlobTable' = BlobTable /\ Saves' = Saves
      /\ \A m : Value(m)' = Value(m)
      /\ \A b, h : Holds(b, h)' = Holds(b, h)
      /\ \A b : Names(b)' = Names(b)
  BY <1>1, StoreSame
<1>3. /\ \A b : LastMark(b)' = LastMark(b) /\ Top(b)' = Top(b)
      /\ \A b : Pending(b)' = Pending(b)
      /\ \A b : Opened(b)' = Opened(b)
      /\ Exporting' = Exporting /\ Active' = Active
      /\ LinesRead' = LinesRead
  BY <1>1, <1>2 DEF LastMark, Top, Pending, Waiting, Opened, Exporting, Active, LinesRead
<1>4. /\ Asked' = Asked /\ Done' = Done
      /\ \A b : /\ Prior(b)' = Prior(b)
                /\ Copies(b, Done)' = Copies(b, Done) /\ Deletes(b, Done)' = Deletes(b, Done)
                /\ Changes(b, Done)' = Changes(b, Done)
                /\ BaseOf(b, Done)' = BaseOf(b, Done)
                /\ MergedInto(b, Done)' = MergedInto(b, Done)
                /\ FilesOf(b, Done)' = FilesOf(b, Done)
  BY <1>1, DoneSame
<1>5. \A b : Called(b, Len(Asked))' = Called(b, Len(Asked))
  <2>1. PICK n : n = Len(Asked)
    OBVIOUS
  <2>2. n = Len(Asked')
    BY <1>4, <2>1
  <2>3. \A b : Called(b, n)' = Called(b, n)
    BY <1>1, AskedSame
  <2>4. QED BY <2>1, <2>2, <2>3
<1>6. Calm' = Calm
  BY <1>1, <1>4 DEF Calm
<1>7. Seen' = Seen
  <2>1. AskedOK' = AskedOK /\ TodoOK' = TodoOK
    BY <1>1, <1>4 DEF AskedOK, TodoOK, Source
  <2>2. QED BY <1>1, <1>3, <1>5, <2>1 DEF Seen
<1>8. Marks' = Marks /\ Heads' = Heads /\ Dates' = Dates /\ Points' = Points
  BY <1>1, <1>2, <1>3 DEF Marks, Heads, Dates, Points
<1>9. Logged' = Logged /\ Ended' = Ended
  BY <1>1, <1>2, <1>3 DEF Logged, Ended
<1>10. ASSUME Progress
      PROVE  Progress'
  <2> USE <1>10
  <2>1. (phase = "idle" => transactions = {} /\ \A b \in Branch : Top(b) = Prior(b))'
    BY <1>1, <1>3, <1>4 DEF Progress
  <2>2. (phase = "prepare" => \A b \in Branch :
            Top(b) = BaseOf(b, Done) /\ (Opened(b) = (Changes(b, Done) # {})))'
    <3>1. ASSUME phase = "prepare", NEW b \in Branch
          PROVE  /\ Top(b)' = BaseOf(b, Done)'
                 /\ Opened(b)' = (Changes(b, Done)' # {})
      <4>1. Top(b) = BaseOf(b, Done) /\ (Opened(b) = (Changes(b, Done) # {}))
        BY <3>1 DEF Progress
      <4>2. QED BY <1>3, <1>4, <4>1
    <3>2. QED BY <1>1, <3>1
  <2>3. (phase = "commit" => \A b \in Branch :
            IF Opened(b) THEN Top(b) = BaseOf(b, Done) /\ Changes(b, Done) # {}
            ELSE Top(b) = tips[rev][b])'
    <3>1. ASSUME phase = "commit", NEW b \in Branch
          PROVE  IF Opened(b)' THEN Top(b)' = BaseOf(b, Done)' /\ Changes(b, Done)' # {}
                 ELSE Top(b)' = tips'[rev'][b]
      <4>1. IF Opened(b) THEN Top(b) = BaseOf(b, Done) /\ Changes(b, Done) # {}
            ELSE Top(b) = tips[rev][b]
        BY <3>1 DEF Progress
      <4>2. tips' = tips /\ rev' = rev
        BY <1>1
      <4>3. QED BY <1>3, <1>4, <4>1, <4>2
    <3>2. QED BY <1>1, <3>1
  <2>4. (Exporting => \A t \in transactions :
            /\ {BlobTable[m] : m \in t.files} = FilesOf(t.branch, Done)
            /\ \A m \in t.files : m > next_file_mark
            /\ t.merges \subseteq 1 .. last_commit_mark
            /\ {MarkTable[m] : m \in t.merges} = MergedInto(t.branch, Done))'
    <3>1. ASSUME Exporting, NEW t \in transactions
          PROVE  /\ {BlobTable'[m] : m \in t.files} = FilesOf(t.branch, Done)'
                 /\ \A m \in t.files : m > next_file_mark'
                 /\ t.merges \subseteq 1 .. last_commit_mark'
                 /\ {MarkTable'[m] : m \in t.merges} = MergedInto(t.branch, Done)'
      <4>1. /\ {BlobTable[m] : m \in t.files} = FilesOf(t.branch, Done)
            /\ \A m \in t.files : m > next_file_mark
            /\ t.merges \subseteq 1 .. last_commit_mark
            /\ {MarkTable[m] : m \in t.merges} = MergedInto(t.branch, Done)
        BY <3>1 DEF Progress
      <4>2. /\ FilesOf(t.branch, Done)' = FilesOf(t.branch, Done)
            /\ MergedInto(t.branch, Done)' = MergedInto(t.branch, Done)
        BY <1>4
      <4>3. next_file_mark' = next_file_mark /\ last_commit_mark' = last_commit_mark
        BY <1>1
      <4>4. QED BY <1>2, <4>1, <4>2, <4>3
    <3>2. transactions' = transactions
      BY <1>1
    <3>3. QED BY <1>3, <3>1, <3>2
  <2>5. QED BY <2>1, <2>2, <2>3, <2>4 DEF Progress
<1>11. Held' = Held
  BY <1>1, <1>2, <1>3, <1>4 DEF Held
<1>12. Queued' = Queued
  <2>1. PICK d, s, q : d = deletedBranches /\ s = resetBranches /\ q = queue
    OBVIOUS
  <2>2. \A c : CommandsOK(c)' = CommandsOK(c)
    BY <1>2, <1>3, <1>4 DEF CommandsOK
  <2>3. QED BY <1>1, <1>4, <2>1, <2>2 DEF Queued, Waiting
<1>13. Tagged' = Tagged
  BY <1>1, <1>2, <1>3, <1>4 DEF Tagged
<1>14. Kept' = Kept
  <2>1. \A b, r : Removed(b, r)' = Removed(b, r)
    BY <1>1 DEF Removed
  <2>2. QED BY <1>1, <1>2, <1>3, <2>1 DEF Kept
<1>15. QED
  BY <1>1, <1>6, <1>7, <1>8, <1>9, <1>10, <1>11, <1>12, <1>13, <1>14
  DEF ExportInv

\* Every step keeps the invariant.
LEMMA ExportStep ==
    ASSUME Undisturbed, IInv, IInv', UsedMarks, StoreOK, StoreOK', ExportInv, [Next]_vars
    PROVE  ExportInv'
<1>1. CASE UNCHANGED vars
  BY <1>1, ExportStutter
<1>2. CASE Next /\ phase = "dead"
  <2>1. phase \notin EvictPhases
    BY <1>2, RepositoryAssumption
  <2>2. QED
    BY <1>2, <2>1 DEF Next, RestoreLine, StartExport, BeginRevision, CreateBranch, NextIs,
       DeleteBranch, ChangeFile, Flush, WriteReset, CommitTransaction, EndRevision, Evict,
       Crash, Finish
<1>3. CASE Next /\ phase # "dead"
  <2>1. Ready
    BY <1>3 DEF Ready
  <2>2. ~ \E kind \in CrashKinds : Crash(kind)
    BY DEF Undisturbed
  <2>3. CASE RestoreLine \/ StartExport \/ Finish \/ Evict
    BY <2>1, <2>3, ExportRestoreLine, ExportStartExport, ExportFinish, ExportEvict
  <2>4. CASE BeginRevision \/ EndRevision
    BY <2>1, <2>4, ExportBeginRevision, ExportEndRevision
  <2>5. CASE CreateBranch \/ DeleteBranch \/ ChangeFile
    BY <2>1, <2>5, ExportCreateBranch, ExportDeleteBranch, ExportChangeFile
  <2>6. CASE Flush \/ WriteReset
    BY <2>1, <2>6, ExportFlush, ExportWriteReset
  <2>7. CASE \E txn \in transactions : CommitTransaction(txn)
    BY <2>1, <2>7, ExportCommitTransaction
  <2>8. QED BY <1>3, <2>2, <2>3, <2>4, <2>5, <2>6, <2>7 DEF Next
<1>4. QED BY <1>1, <1>2, <1>3

\* The invariant of an export that nothing disturbs.
ExportState == IInv /\ UsedMarks /\ StoreOK /\ ExportInv

\* Every reachable state of an undisturbed export satisfies the invariant.
LEMMA ExportInvariance ==
    ASSUME Undisturbed
    PROVE  Spec => []ExportState
<1>1. Init => ExportState
  <2> SUFFICES ASSUME Init PROVE ExportState
    OBVIOUS
  <2>1. NullIsNoHistory
    BY DEF Undisturbed
  <2>2. IInv /\ UsedMarks /\ OnceInv
    BY InitIInv, OnceInit
  <2>3. QED BY <2>1, <2>2, ExportInit DEF ExportState, OnceInv
<1>2. ExportState /\ [Next]_vars => ExportState'
  <2> SUFFICES ASSUME ExportState, [Next]_vars PROVE ExportState'
    OBVIOUS
  <2>1. IInv /\ UsedMarks /\ StoreOK /\ ExportInv /\ NullIsNoHistory
    BY DEF ExportState, Undisturbed
  <2>2. IInv'
    BY <2>1, StepIInv
  <2>3. UsedMarks' /\ StoreOK'
    BY <2>1, <2>2, UsedStep, StoreTypes
  <2>4. ExportInv'
    BY <2>1, <2>2, <2>3, ExportStep
  <2>5. QED BY <2>2, <2>3, <2>4 DEF ExportState
<1>3. QED BY <1>1, <1>2, PTL DEF Spec

-----------------------------------------------------------------------------
(* What it is for *)

\* What git is held to have is what one sees.
LEMMA TipHeld ==
    ASSUME NullIsNoHistory, StoreOK, NEW b \in Branch, NEW h \in History, Holds(b, h)
    PROVE  GitTip(b) = h
<1>1. h # Null /\ <<>> # Null
  <2>1. <<>> \in History
    BY DEF History
  <2>2. QED BY <2>1 DEF NullIsNoHistory
<1>2. CASE processHasStarted
  BY <1>1, <1>2 DEF GitTip, Holds, HoldsRunning, Git!RefTip
<1>3. CASE ~ processHasStarted
  BY <1>1, <1>3 DEF GitTip, Holds, HoldsStored
<1>4. QED BY <1>2, <1>3

\* Between revisions, and between runs, git has what Subversion has.
LEMMA TipsArePrior ==
    ASSUME NullIsNoHistory, ExportState, phase \in {"idle", "down"}, NEW b \in Branch
    PROVE  GitTip(b) = Prior(b)
<1>1. /\ Ready /\ Seen /\ Marks /\ Progress /\ Held
      /\ IInv /\ UsedMarks /\ StoreOK
  BY ReadyFacts DEF ExportState, Ready
<1>2. PICK h : h = Prior(b)
  OBVIOUS
<1>3. Holds(b, h)
  <2>1. CASE phase = "down"
    BY <1>1, <1>2, <2>1 DEF Held
  <2>2. CASE phase = "idle"
    <3>1. ~ Pending(b)
      BY <1>1, <2>2, ReadyTypes, NothingQueued
    <3>2. Top(b) = h
      BY <1>1, <1>2, <2>2 DEF Progress
    <3>3. QED BY <1>1, <2>2, <3>1, <3>2 DEF Held, Active
  <2>3. QED BY <2>1, <2>2
<1>4. h \in History
  <2>1. rev \in Nat /\ rev # 0 /\ tips \in Seq([Branch -> History])
    BY <1>1, ReadyTypes
  <2>2. Len(tips) = rev - 1
    BY <1>1 DEF Seen, Exporting
  <2>3. rev - 1 \in 0 .. Len(tips)
    BY <2>1, <2>2
  <2>4. QED BY <1>2, <2>1, <2>3, TipsAtType DEF Prior
<1>5. QED BY <1>1, <1>2, <1>3, <1>4, TipHeld

\* NeverFatal: fast-import accepts everything the converter sends it, however many evictions
\* and runs come between; the one way to die is to tag, in a later run, a branch deleted
\* before, whose name finalizeTags had left in the file.
THEOREM NeverDies ==
    ASSUME Undisturbed
    PROVE  Spec => []NeverFatal
<1>1. ExportState => NeverFatal
  BY DEF ExportState, ExportInv, Calm, NeverFatal, Prior
<1>2. QED BY <1>1, ExportInvariance, PTL

\* ExportExact: between two revisions every branch in git has exactly the history Subversion
\* calls for, with its parents, files and merges.
THEOREM TipsExact ==
    ASSUME Undisturbed
    PROVE  Spec => []ExportExact
<1>1. ExportState => ExportExact
  BY TipsArePrior DEF ExportExact, Prior, Undisturbed
<1>2. QED BY <1>1, ExportInvariance, PTL

\* PointsExact: markFrom answers every question about a past revision with the commit that
\* was the tip of the branch then, or with none if there was none.
THEOREM CopiesStartRight ==
    ASSUME Undisturbed
    PROVE  Spec => []PointsExact
<1>1. ASSUME ExportState, phase = "idle", NEW b \in Branch, NEW r \in 1 .. rev - 1
      PROVE  LET m == MarkFrom(branches, b, r)
             IN  IF m > 0 THEN MarkTable[m] = tips[r][b] ELSE tips[r][b] = <<>>
  <2>1. /\ Ready /\ Dates /\ Points
    BY <1>1, ReadyFacts DEF ExportState, Ready
  <2>2. branches \in [Branch -> Entry]
    BY <2>1, ReadyTypes
  <2> DEFINE e == EntryMark(branches[b], r)
             m == MarkFrom(branches, b, r)
  <2>3. (e # 0 => m = e) /\ (m > 0 => m = e) /\ e \in Mark
    BY <2>1, <2>2, MarkFromIs DEF Dates
  <2>4. Value(e) = tips[r][b]
    BY <1>1, <2>1 DEF Points, Active
  <2> HIDE DEF e, m
  <2>5. e \in Nat
    BY <2>3, Bounds DEF Mark
  <2>6. IF m > 0 THEN MarkTable[m] = tips[r][b] ELSE tips[r][b] = <<>>
    <3>1. CASE e = 0
      BY <2>3, <2>4, <3>1 DEF Value
    <3>2. CASE e # 0
      BY <2>3, <2>4, <2>5, <3>2 DEF Value
    <3>3. QED BY <3>1, <3>2
  <2>7. QED BY <2>6 DEF m
<1>2. ExportState => PointsExact
  BY <1>1 DEF PointsExact
<1>3. QED BY <1>2, ExportInvariance, PTL

\* DeletedHistoryKept: a branch that a revision deletes leaves its commits under a backup ref.
THEOREM DeletedIsKept ==
    ASSUME Undisturbed
    PROVE  Spec => []DeletedHistoryKept
<1>1. ASSUME ExportState, phase = "idle", NEW b \in Branch, NEW r \in 1 .. rev - 1,
             Abandoned(tips, b, r), tips[r][b] = <<>>
      PROVE  BackedUp(b, r)
  <2>1. /\ Ready /\ Seen /\ Kept /\ rev \in Nat
    BY <1>1, ReadyFacts, ReadyTypes DEF ExportState, Ready
  <2>2. r \in 1 .. Len(tips) /\ r < rev
    BY <1>1, <2>1 DEF Seen, Exporting
  <2>3. Removed(b, r)
    BY <1>1 DEF Removed, Abandoned
  <2>4. PICK k \in Saves : k.branch = b /\ k.rev = r
    BY <2>1, <2>2, <2>3 DEF Kept
  <2>5. k.tip = TipsAt(tips, r - 1)[b]
    BY <2>1, <2>3, <2>4 DEF Kept
  <2>6. QED BY <2>4, <2>5 DEF BackedUp, Saves
<1>2. ExportState => DeletedHistoryKept
  BY <1>1 DEF DeletedHistoryKept
<1>3. QED BY <1>2, ExportInvariance, PTL

\* TagsExact: when a run has ended, every annotated tag is on its branch's tip, and a branch
\* without commits has no tag.
THEOREM TagsInPlace ==
    ASSUME Undisturbed
    PROVE  Spec => []TagsExact
<1>1. ASSUME ExportState, phase = "down", NEW b \in TagBranch
      PROVE  disk.tag[b] = (IF Prior(b) = <<>> THEN Null ELSE Prior(b))
  <2>1. /\ Ready /\ Held /\ Tagged /\ ~ processHasStarted /\ b \in Branch
    BY <1>1, ReadyFacts, RepositoryAssumption DEF ExportState, Ready, StoreOK
  <2>2. CASE Prior(b) = <<>>
    BY <1>1, <2>1, <2>2 DEF Held, Holds, HoldsStored
  <2>3. CASE Prior(b) # <<>>
    BY <1>1, <2>1, <2>3 DEF Tagged
  <2>4. QED BY <2>2, <2>3
<1>2. ExportState => TagsExact
  BY <1>1 DEF TagsExact, Prior
<1>3. QED BY <1>2, ExportInvariance, PTL

-----------------------------------------------------------------------------
(* The abstract export *)

\* What the abstract export may be asked for, and what it leaves, is what the
\* converter may be asked for and what Subversion calls for.
LEMMA SameRevisions ==
    ASSUME NEW t
    PROVE  /\ Abstract!Revisions(t) = Revisions(t)
           /\ \A ops : Abstract!TipsAfter(t, ops) = TipsAfter(t, ops)
           /\ Abstract!NoTips = NoTips
<1>1. Abstract!NoTips = NoTips /\ \A r : Abstract!TipsAt(t, r) = TipsAt(t, r)
  BY DEF Abstract!TipsAt, TipsAt, Abstract!NoTips, NoTips
<1>2. Abstract!Ops(t) = Ops(t)
  BY <1>1 DEF Abstract!Ops, Ops
<1>3. \A s : Abstract!OnePath(s) <=> OnePath(s)
  BY DEF Abstract!OnePath, OnePath
<1>4. \A S, n : Abstract!BoundedSeq(S, n) = BoundedSeq(S, n)
  BY DEF Abstract!BoundedSeq, BoundedSeq, Abstract!SeqOf, SeqOf
<1>5. Abstract!Revisions(t) = Revisions(t)
  BY <1>2, <1>3, <1>4 DEF Abstract!Revisions, Revisions
<1>8. \A ops, b : Abstract!TipAfter(t, ops, b) = TipAfter(t, ops, b)
  BY DEF Abstract!TipAfter, TipAfter, Abstract!OfKind, OfKind, Abstract!HeadOf, HeadOf,
     Abstract!TipsAt, TipsAt, Abstract!NoTips, NoTips
<1>9. \A ops : Abstract!TipsAfter(t, ops) = TipsAfter(t, ops)
  BY <1>8 DEF Abstract!TipsAfter, TipsAfter
<1>10. QED BY <1>1, <1>5, <1>9

\* A revision being exported is one the abstract export may take, and calls for what
\* the abstract export leaves.
Wanted ==
    Exporting => /\ Asked \in Revisions(SubSeq(tips, 1, rev - 1))
                 /\ tips[rev] = TipsAfter(SubSeq(tips, 1, rev - 1), Asked)

\* What the refinement shows of git: the tips before the revision of the moment.
Shown ==
    [b \in Branch |-> IF phase \in {"idle", "down"} THEN GitTip(b)
                      ELSE TipsAt(tips, rev - 1)[b]]
    = [b \in Branch |-> Prior(b)]

\* The invariant the refinement needs.
RefinementState == ExportState /\ Wanted /\ Shown

\* How far the revisions are, in a state that is not the end of a converter that died.
LEMMA Reached ==
    ASSUME ExportState, phase # "dead"
    PROVE  /\ rev \in Nat /\ rev # 0 /\ svn \in Seq(Seq(Operation))
           /\ tips \in Seq([Branch -> History]) /\ Len(tips) \in Nat /\ Len(tips) = Len(svn)
           /\ Len(tips) = IF Exporting THEN rev ELSE rev - 1
           /\ phase \in {"idle", "prepare", "commit", "down"}
<1>1. Ready /\ Seen /\ Calm /\ IInv /\ UsedMarks /\ StoreOK
  BY ReadyFacts DEF ExportState, Ready
<1>2. rev \in Nat /\ rev # 0 /\ tips \in Seq([Branch -> History]) /\ Len(tips) \in Nat
  BY <1>1, ReadyTypes
<1>3. QED BY <1>1, <1>2 DEF Seen, Calm, IInv, DriverOK

\* A step other than the begin and the end of a revision leaves them where they are.
LEMMA RevisionsStand ==
    ASSUME Undisturbed, ExportState, ExportState', [Next]_vars, ~ BeginRevision, ~ EndRevision
    PROVE  rev' = rev /\ tips' = tips /\ svn' = svn /\ (Exporting' <=> Exporting)
<1>1. CASE UNCHANGED vars
  BY <1>1 DEF vars, driver, history, Exporting
<1>2. CASE Next /\ phase = "dead"
  <2>1. phase \notin EvictPhases
    BY <1>2, RepositoryAssumption
  <2>2. QED
    BY <1>2, <2>1 DEF Next, RestoreLine, StartExport, BeginRevision, CreateBranch, NextIs,
       DeleteBranch, ChangeFile, Flush, WriteReset, CommitTransaction, EndRevision, Evict,
       Crash, Finish
<1>3. /\ rev' \in Nat /\ phase' \in {"idle", "prepare", "commit", "down", "dead"}
      /\ phase' # "dead" => Len(tips') = IF Exporting' THEN rev' ELSE rev' - 1
  <2>1. rev' \in Nat /\ Calm'
    BY DEF ExportState, ExportInv, IInv, DriverOK
  <2>2. phase' # "dead" => Seen'
    BY DEF ExportState, ExportInv
  <2>3. QED BY <2>1, <2>2 DEF Calm, Seen
<1>4. CASE Next /\ phase # "dead"
  <2>1. ~ \E kind \in CrashKinds : Crash(kind)
    BY DEF Undisturbed
  <2>2. CASE RestoreLine \/ Evict
    BY <2>2 DEF RestoreLine, Evict, driver, history, Exporting
  <2>3. CASE CreateBranch
    <3>1. phase' \in {phase, "failed"} /\ UNCHANGED <<rev, history>>
      BY <2>3 DEF CreateBranch
    <3>2. QED BY <1>3, <3>1 DEF history, Exporting
  <2>4. CASE DeleteBranch
    BY <2>4 DEF DeleteBranch, history, Exporting
  <2>5. CASE ChangeFile
    BY <2>5 DEF ChangeFile, history, Exporting
  <2>6. CASE Flush
    BY <2>6 DEF Flush, history, Exporting
  <2>7. CASE WriteReset
    BY <2>7 DEF WriteReset, history, Exporting
  <2>8. CASE \E txn \in transactions : CommitTransaction(txn)
    <3>1. phase' \in {phase, "failed"} /\ UNCHANGED <<rev, history>>
      BY <2>8 DEF CommitTransaction
    <3>2. QED BY <1>3, <3>1 DEF history, Exporting
  <2>9. CASE StartExport
    <3>1. /\ phase = "down" /\ phase' = "idle"
          /\ svn' = svn /\ tips' = tips
      BY <2>9 DEF StartExport, history
    <3>2. Len(tips) = rev - 1 /\ rev \in Nat /\ Len(tips) \in Nat
      BY <3>1, Reached DEF Exporting
    <3>3. Len(tips') = rev' - 1 /\ rev' \in Nat
      BY <1>3, <3>1 DEF Exporting
    <3>4. PICK n : n = Len(tips) /\ n = Len(tips')
      BY <3>1
    <3>5. rev' = rev
      BY ONLY <3>2, <3>3, <3>4
    <3>6. QED BY <3>1, <3>5 DEF Exporting
  <2>10. CASE Finish
    <3>1. phase # "failed"
      BY <1>4, Reached
    <3>2. QED BY <2>10, <3>1 DEF Finish, Gone, history, Exporting
  <2>11. QED
    BY <1>4, <2>1, <2>2, <2>3, <2>4, <2>5, <2>6, <2>7, <2>8, <2>9, <2>10 DEF Next
<1>5. QED BY <1>1, <1>2, <1>4

\* A sequence without what was appended to it.
LEMMA SubSeqAppended ==
    ASSUME NEW S, NEW q \in Seq(S), NEW x, NEW n, n = Len(q)
    PROVE  SubSeq(Append(q, x), 1, n) = q
<1>1. n \in Nat /\ q \in Seq(S \cup {x}) /\ x \in S \cup {x}
  OBVIOUS
<1>2. PICK p : p = Append(q, x)
  OBVIOUS
<1>3. p \in Seq(S \cup {x}) /\ Len(p) = n + 1 /\ \A i \in 1 .. n : p[i] = q[i]
  BY <1>1, <1>2
<1>4. PICK r : r = SubSeq(p, 1, n)
  OBVIOUS
<1>5. r \in Seq(S \cup {x}) /\ Len(r) = n /\ \A i \in 1 .. n : r[i] = p[i]
  BY <1>1, <1>3, <1>4
<1>6. r = q
  BY <1>1, <1>3, <1>5
<1>7. QED BY <1>2, <1>4, <1>6

\* The invariant of the refinement.
LEMMA RefinementInvariance ==
    ASSUME Undisturbed
    PROVE  Spec => []RefinementState
<1>1. Init => Wanted
  BY DEF Init, Wanted, Exporting
<1>2. ASSUME ExportState, ExportState', Wanted, [Next]_vars
      PROVE  Wanted'
  <2>1. CASE BeginRevision
    <3>1. phase = "idle" /\ phase' = "prepare" /\ rev' = rev
      BY <2>1 DEF BeginRevision
    <3>2. /\ rev \in Nat /\ Len(tips) = rev - 1 /\ Len(svn) = rev - 1
          /\ tips \in Seq([Branch -> History]) /\ svn \in Seq(Seq(Operation))
      BY <1>2, <3>1, Reached DEF Exporting
    <3>3. PICK ops \in Revisions(tips) :
              /\ svn' = Append(svn, ops)
              /\ tips' = Append(tips, TipsAfter(tips, ops))
      BY <2>1, <3>2 DEF BeginRevision
    <3>4. svn'[rev] = ops
      BY <3>2, <3>3
    <3>5. PICK x : x = TipsAfter(tips, ops)
      OBVIOUS
    <3>6. tips' = Append(tips, x)
      BY <3>3, <3>5
    <3>7. tips'[rev] = x
      BY <3>2, <3>6
    <3>8. SubSeq(tips', 1, rev - 1) = tips
      BY <3>2, <3>6, SubSeqAppended
    <3>9. QED BY <3>1, <3>3, <3>4, <3>5, <3>7, <3>8 DEF Wanted, Asked
  <2>2. CASE EndRevision
    BY <2>2 DEF EndRevision, Wanted, Exporting
  <2>3. CASE ~ BeginRevision /\ ~ EndRevision
    <3>1. rev' = rev /\ tips' = tips /\ svn' = svn /\ (Exporting' <=> Exporting)
      BY <1>2, <2>3, RevisionsStand
    <3>2. QED BY <1>2, <3>1 DEF Wanted, Asked
  <2>4. QED BY <2>1, <2>2, <2>3
<1>3. ExportState => Shown
  BY TipsArePrior DEF Shown, Prior, Undisturbed
<1>4. QED BY <1>1, <1>2, <1>3, ExportInvariance, PTL DEF Spec, RefinementState

\* The abstract export and the converter begin alike.
LEMMA RefinedInit ==
    ASSUME Init, Shown
    PROVE  Abstract!Init
<1>1. rev = 1 /\ tips = <<>>
  BY DEF Init
<1>2. SubSeq(tips, 1, rev - 1) = <<>>
  <2>1. SubSeq(<<>>, 1, 0) = <<>>
    OBVIOUS
  <2>2. QED BY <1>1, <2>1
<1>3. [b \in Branch |-> Prior(b)] = NoTips
  BY <1>1 DEF Prior, TipsAt, NoTips
<1>4. QED BY <1>2, <1>3, SameRevisions DEF Abstract!Init, Shown

\* The end of a revision is the abstract export of it, every other step shows nothing.
LEMMA RefinedStep ==
    ASSUME Undisturbed, RefinementState, RefinementState', [Next]_vars
    PROVE  [Abstract!Next]_Abstract!vars
<1>1. ExportState /\ ExportState' /\ Wanted /\ Shown /\ Shown'
  BY DEF RefinementState
<1>2. PICK s, t : s = SubSeq(tips, 1, rev - 1) /\ t = SubSeq(tips', 1, rev' - 1)
  OBVIOUS
<1>3. PICK g, h : /\ g = [b \in Branch |-> Prior(b)]
                  /\ h = [b \in Branch |-> TipsAt(tips', rev' - 1)[b]]
  OBVIOUS
<1>4. /\ [b \in Branch |-> IF phase \in {"idle", "down"} THEN GitTip(b)
                           ELSE TipsAt(tips, rev - 1)[b]] = g
      /\ [b \in Branch |-> IF phase' \in {"idle", "down"} THEN GitTip(b)'
                           ELSE TipsAt(tips', rev' - 1)[b]] = h
  BY <1>1, <1>3 DEF Shown, Prior
<1>5. CASE EndRevision
  <2>1. phase = "commit" /\ rev' = rev + 1 /\ tips' = tips
    BY <1>5 DEF EndRevision, history
  <2>2. /\ rev \in Nat /\ rev # 0 /\ tips \in Seq([Branch -> History]) /\ Len(tips) = rev
    BY <1>1, <2>1, Reached DEF Exporting
  <2>3. PICK ops : ops = Asked
    OBVIOUS
  <2>4. ops \in Revisions(s) /\ tips[rev] = TipsAfter(s, ops)
    BY <1>1, <1>2, <2>1, <2>3 DEF Wanted, Exporting
  <2>5. PICK x : x = TipsAfter(s, ops)
    OBVIOUS
  <2>6. t = Append(s, x) /\ Len(t) = Len(s) + 1
    <3>1. s = SubSeq(tips, 1, rev - 1) /\ t = SubSeq(tips, 1, rev)
      <4>1. rev' - 1 = rev
        BY <2>1, <2>2
      <4>2. QED BY <1>2, <2>1, <4>1
    <3>2. /\ Len(s) = rev - 1 /\ s \in Seq([Branch -> History])
          /\ \A i \in 1 .. rev - 1 : s[i] = tips[i]
      BY <2>2, <3>1
    <3>3. /\ Len(t) = rev /\ t \in Seq([Branch -> History])
          /\ \A i \in 1 .. rev : t[i] = tips[i]
      BY <2>2, <3>1
    <3>4. x \in [Branch -> History]
      BY <2>2, <2>4, <2>5
    <3>5. PICK u : u = Append(s, x)
      OBVIOUS
    <3>6. /\ u \in Seq([Branch -> History]) /\ Len(u) = rev
          /\ u[rev] = x /\ \A i \in 1 .. rev - 1 : u[i] = s[i]
      BY <2>2, <3>2, <3>4, <3>5
    <3>7. t = u
      <4>1. \A i \in 1 .. rev : i = rev \/ i \in 1 .. rev - 1
        BY <2>2
      <4>2. \A i \in 1 .. rev : t[i] = u[i]
        BY <2>4, <2>5, <3>2, <3>3, <3>6, <4>1
      <4>3. QED BY <2>2, <3>3, <3>6, <4>2
    <3>8. QED BY <2>2, <3>2, <3>3, <3>5, <3>7
  <2>7. h = x
    <3>1. rev' - 1 = rev /\ rev # 0
      BY <2>1, <2>2
    <3>2. h = [b \in Branch |-> tips[rev][b]]
      BY <1>3, <2>1, <3>1 DEF TipsAt
    <3>3. x = [b \in Branch |-> TipAfter(s, ops, b)]
      BY <2>5 DEF TipsAfter
    <3>4. QED BY <2>4, <2>5, <3>2, <3>3
  <2>8. Abstract!Export(ops)
    <3>1. Abstract!TipsAfter(s, ops) = x
      BY <2>5, SameRevisions
    <3>2. QED BY <1>2, <1>4, <2>6, <2>7, <3>1 DEF Abstract!Export
  <2>9. Abstract!Next
    <3>1. ops \in Abstract!Revisions(s)
      BY <2>4, SameRevisions
    <3>2. QED BY <1>2, <2>6, <2>8, <3>1 DEF Abstract!Next
  <2>10. QED BY <2>9
<1>6. CASE ~ EndRevision
  <2>1. s = t /\ TipsAt(tips', rev' - 1) = TipsAt(tips, rev - 1)
    <3>1. CASE BeginRevision
      <4>1. phase = "idle" /\ rev' = rev
        BY <3>1 DEF BeginRevision
      <4>2. /\ rev \in Nat /\ Len(tips) = rev - 1 /\ Len(svn) = rev - 1
            /\ tips \in Seq([Branch -> History])
        BY <1>1, <4>1, Reached DEF Exporting
      <4>3. PICK x : tips' = Append(tips, x)
        BY <3>1, <4>2 DEF BeginRevision
      <4>4. SubSeq(tips', 1, rev - 1) = tips
        BY <4>2, <4>3, SubSeqAppended
      <4>5. SubSeq(tips, 1, rev - 1) = tips
        <5>1. PICK u : u = SubSeq(tips, 1, rev - 1)
          OBVIOUS
        <5>2. u \in Seq([Branch -> History]) /\ Len(u) = rev - 1
              /\ \A i \in 1 .. rev - 1 : u[i] = tips[i]
          BY <4>2, <5>1
        <5>3. u = tips
          BY <4>2, <5>2
        <5>4. QED BY <5>1, <5>3
      <4>6. rev - 1 # 0 => tips'[rev - 1] = tips[rev - 1]
        BY <4>2, <4>3
      <4>7. QED BY <1>2, <4>1, <4>4, <4>5, <4>6 DEF TipsAt
    <3>2. CASE ~ BeginRevision
      BY <1>1, <1>2, <1>6, <3>2, RevisionsStand
    <3>3. QED BY <3>1, <3>2
  <2>2. g = h
    BY <1>3, <2>1 DEF Prior
  <2>3. QED BY <1>2, <1>4, <2>1, <2>2 DEF Abstract!vars
<1>7. QED BY <1>5, <1>6

\* Revision by revision the repository changes as the abstract export does: whatever the
\* converter buffers, in whatever order it writes a revision's commands, and whenever its
\* processes are stopped and its runs end, what one sees of git between two revisions goes
\* from the tips one revision calls for to those the next one does.
THEOREM ExportsBranchHistory ==
    ASSUME Undisturbed
    PROVE  Spec => ImplementsBranchHistory
<1>1. Init /\ RefinementState => Abstract!Init
  BY RefinedInit DEF RefinementState
<1>2. RefinementState /\ RefinementState' /\ [Next]_vars => [Abstract!Next]_Abstract!vars
  BY RefinedStep
<1>3. QED
  BY <1>1, <1>2, RefinementInvariance, PTL DEF Spec, ImplementsBranchHistory, Abstract!Spec
=============================================================================
