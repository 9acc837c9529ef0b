-------------------------- MODULE RepositoryProofs --------------------------
(***************************************************************************)
(* Proofs about one repository of the converter, for any branches, any     *)
(* operations, any number of revisions, evictions, crashes and runs: the   *)
(* types, the order of the log, the count of open transactions, and that   *)
(* no revision is committed twice (NoCommitTwice), whatever interrupts,    *)
(* evictions and restarts come between.                                    *)
(*                                                                         *)
(* The last of these takes the greater part of the module: what each       *)
(* fast-import command does to the process and the disk, that marks are    *)
(* used in order, and what the histories in the process, on disk and in    *)
(* the log have in common.                                                 *)
(***************************************************************************)
EXTENDS Repository, WellFoundedInduction, FiniteSetTheorems, SequenceTheorems, TLAPS

\* A set of natural numbers has a least element.
LEMMA Least ==
    ASSUME NEW S, S \subseteq Nat, S # {}
    PROVE  \E i \in S : \A j \in S : i <= j
<1>1. PICK i \in S : \A j \in S : ~ (<<j, i>> \in OpToRel(<, Nat))
  BY NatLessThanWellFounded, WFMin
<1>2. \A j \in S : ~ (j < i)
  BY <1>1 DEF OpToRel
<1>3. QED BY <1>2

\* A set of numbers up to n has a greatest one.
LEMMA Greatest ==
    ASSUME NEW n \in Nat, NEW S, S \subseteq 1 .. n, S # {}
    PROVE  \E i \in S : \A j \in S : j <= i
<1> DEFINE R == {k \in 0 .. n : n - k \in S}
<1>1. R # {}
  <2>1. PICK i \in S : TRUE
    OBVIOUS
  <2>2. n - i \in R
    BY <2>1
  <2>3. QED BY <2>2
<1>2. R \subseteq Nat
  OBVIOUS
<1>3. \A j \in S : n - j \in R
  OBVIOUS
<1>4. \A k \in R : k \in 0 .. n /\ n - k \in S
  OBVIOUS
<1> HIDE DEF R
<1>5. PICK k \in R : \A j \in R : k <= j
  BY <1>1, <1>2, Least
<1>6. QED BY <1>3, <1>4, <1>5

Mark == 0 .. MaxCommitMark

Entry == {br \in [known : BOOLEAN, created : Nat, commits : Seq(Nat), marks : Seq(Mark)] :
              Len(br.commits) = Len(br.marks)}

Line == [rev : 1 .. MaxRev, branch : Branch, mark : Mark]

\* An operation names a branch, and a copy a source as well.
Operation == {op \in Op : op.kind = "copy" => op.from \in Branch}

\* A queued deletion or reset; the revision it belongs to is the one being exported.
Command(r) == [branch : Branch, rev : {r}, mark : Mark, to : Branch \cup {Null},
               backup : BOOLEAN]

Transaction == [branch : Branch, merges : SUBSET Int, files : SUBSET Int]

\* The driver's variables.
DriverOK ==
    /\ phase \in {"idle", "prepare", "commit", "failed", "asserted", "down", "dead"}
    /\ rev \in 1 .. MaxRev + 1
    /\ phase \in {"prepare", "commit"} => rev \in 1 .. MaxRev
    /\ todo \in Seq(Operation)
    /\ svn \in Seq(Seq(Operation))
    /\ \E S : tips \in Seq(S)

\* Branches, marks and tags.
MemoryOK ==
    /\ branches \in [Branch -> Entry]
    /\ last_commit_mark \in Mark
    /\ next_file_mark \in (maxMark - MaxFiles - 1) .. (maxMark - 1)
    /\ commitCount \in 0 .. CommitInterval - 1
    /\ annotatedTags \subseteq TagBranch
    /\ tagsFile \subseteq TagBranch
    /\ processHasStarted \in BOOLEAN

\* What is queued belongs to the revision being exported; nothing is queued between
\* revisions.
QueuesOK ==
    /\ queue \in Seq(Command(rev))
    /\ deletedBranches \in Seq(Command(rev))
    /\ resetBranches \in Seq(Command(rev))
    /\ phase \in {"idle", "down"} => queue = <<>>
    /\ phase \in {"idle", "down", "commit"} => deletedBranches = <<>> /\ resetBranches = <<>>

\* The log is in order and holds nothing from after the revision being exported.
LogOK ==
    /\ log \in Seq(Line)
    /\ pos \in 0 .. Len(log)
    /\ phase # "down" => pos = 0 /\ \A i \in 1 .. Len(log) : log[i].rev <= rev
    /\ LogMonotonic

\* The open transactions.
TransactionsOK ==
    /\ transactions \subseteq Transaction
    /\ IsFiniteSet(transactions)
    /\ OutstandingExact
    /\ outstandingTransactions = 0 => next_file_mark = maxMark - 1

\* The inductive invariant: LogMonotonic needs to know that what is queued and what is
\* logged are of the revision being exported or earlier, OutstandingExact that a branch
\* has one transaction, and both what the phases of the driver exclude.
IInv == DriverOK /\ MemoryOK /\ QueuesOK /\ LogOK /\ TransactionsOK

-----------------------------------------------------------------------------
(* Lemmas about the data *)

\* markFrom answers with a mark in use, 0 or -1.
LEMMA MarkFromType ==
    ASSUME NEW brs \in [Branch -> Entry], NEW from \in Branch, NEW at
    PROVE  MarkFrom(brs, from, at) \in Mark \cup {-1}
<1> DEFINE br     == brs[from]
           before == {i \in DOMAIN br.commits : br.commits[i] <= at}
<1>1. br \in Entry /\ DOMAIN br.commits = 1 .. Len(br.marks) /\ br.marks \in Seq(Mark)
  BY DEF Entry
<1>2. before \subseteq 1 .. Len(br.marks)
  BY <1>1
<1>3. 0 \in Mark
  BY RepositoryAssumption DEF Mark
<1>4. CASE before = {}
  BY <1>3, <1>4 DEF MarkFrom
<1>5. CASE before # {}
  <2> DEFINE last == CHOOSE i \in before : \A j \in before : j <= i
  <2>1. Len(br.marks) \in Nat
    BY <1>1
  <2>2. \E i \in before : \A j \in before : j <= i
    BY <1>2, <1>5, <2>1, Greatest
  <2>3. last \in 1 .. Len(br.marks)
    BY <1>2, <2>2
  <2> HIDE DEF last
  <2>4. br.marks[last] \in Mark
    BY <1>1, <2>3
  <2>5. MarkFrom(brs, from, at) = -1 \/ MarkFrom(brs, from, at) = br.marks[last]
    BY <1>5 DEF MarkFrom, last
  <2>6. QED BY <2>4, <2>5
<1>6. QED BY <1>4, <1>5

\* A branch with one more commit and mark is a branch.
LEMMA ExtendedType ==
    ASSUME NEW br \in Entry, NEW r \in Nat, NEW m \in Mark, NEW created \in Nat
    PROVE  Extended(br, r, m, created) \in Entry
BY DEF Extended, Entry

\* Looking a branch up leaves branches.
LEMMA LookedUpType ==
    ASSUME NEW brs \in [Branch -> Entry], NEW b
    PROVE  LookedUp(brs, b) \in [Branch -> Entry]
BY DEF LookedUp, Entry

\* A converter that has read nothing yet has branches.
LEMMA InitialBranchesType == InitialBranches \in [Branch -> Entry]
<1>1. <<>> \in Seq(Nat) /\ <<>> \in Seq(Mark) /\ Len(<<>>) = 0
  OBVIOUS
<1>2. \A known \in BOOLEAN, created \in Nat : EmptyBranch(known, created) \in Entry
  BY <1>1 DEF EmptyBranch, Entry
<1>3. QED BY <1>2 DEF InitialBranches

\* The operations a new revision may ask for are operations, whatever came before.
LEMMA RevisionsType ==
    ASSUME NEW t, \E S : t \in Seq(S), NEW ops \in Revisions(t)
    PROVE  ops \in Seq(Operation)
<1> DEFINE D == {o \in Ops(t) : o.kind # "change" \/ o.from # o.branch}
<1>1. Ops(t) \subseteq Operation
  <2>1. Len(t) + 1 \in Nat
    OBVIOUS
  <2> DEFINE next    == Len(t) + 1
             present == {b \in Branch : TipsAt(t, next - 1)[b] # <<>>}
             points  == {p \in Branch \X (1 .. next - 1) : t[p[2]][p[1]] # <<>>}
             sources == IF EmptySources THEN Branch \X (1 .. next - 1) ELSE points
             op(kind, b, p) == [kind |-> kind, branch |-> b, from |-> p[1], at |-> p[2]]
             nowhere == <<Null, 0>>
  <2>2. points \subseteq Branch \X Nat /\ sources \subseteq Branch \X Nat /\ present \subseteq Branch
    BY <2>1
  <2>3. Ops(t) = {op("copy", b, p) : b \in Branch, p \in sources}
                   \cup {op("delete", b, nowhere) : b \in present}
                   \cup {op("remove", b, nowhere) : b \in present}
                   \cup {op("change", b, p) : b \in Branch, p \in points \cup {nowhere}}
    BY DEF Ops
  <2> HIDE DEF points, sources, present, next
  <2>4. \A b \in Branch : \A p \in Branch \X Nat :
            op("copy", b, p) \in Operation /\ op("change", b, p) \in Operation
    BY DEF Operation, Op
  <2>5. \A b \in Branch : /\ op("delete", b, nowhere) \in Operation
                          /\ op("remove", b, nowhere) \in Operation
                          /\ op("change", b, nowhere) \in Operation
    BY DEF Operation, Op
  <2> HIDE DEF op, nowhere
  <2>6. QED
    <3>1. {op("copy", b, p) : b \in Branch, p \in sources} \subseteq Operation
      BY <2>2, <2>4
    <3>2. /\ {op("delete", b, nowhere) : b \in present} \subseteq Operation
          /\ {op("remove", b, nowhere) : b \in present} \subseteq Operation
      BY <2>2, <2>5
    <3>3. {op("change", b, p) : b \in Branch, p \in points \cup {nowhere}} \subseteq Operation
      BY <2>2, <2>4, <2>5
    <3>4. QED BY <2>3, <3>1, <3>2, <3>3
<1>2. PICK m \in Int : ops \in [1 .. m -> D]
  BY DEF Revisions, BoundedSeq, SeqOf
<1>3. ops \in [1 .. m -> Operation]
  BY <1>1, <1>2
<1>4. QED
  <2>1. CASE m < 0
    <3>1. ops \in [1 .. 0 -> Operation]
      BY <1>3, <2>1
    <3>2. QED BY <3>1
  <2>2. CASE m >= 0
    BY <1>3, <2>2
  <2>3. QED BY <2>1, <2>2

-----------------------------------------------------------------------------
(* The first state and the steps that leave most of it alone *)

\* The bounds as numbers.
LEMMA Bounds ==
    /\ maxMark \in Nat /\ MaxRev \in Nat /\ MaxCommitMark \in Nat /\ MaxFiles \in Nat
    /\ CommitInterval \in Nat \ {0}
    /\ 0 \in Mark
    /\ maxMark - 1 \in (maxMark - MaxFiles - 1) .. (maxMark - 1)
    /\ 0 \in 0 .. CommitInterval - 1
<1>1. /\ maxMark \in Nat /\ MaxRev \in Nat /\ MaxCommitMark \in Nat /\ MaxFiles \in Nat
      /\ CommitInterval \in Nat \ {0}
  BY RepositoryAssumption
<1>2. QED BY <1>1 DEF Mark

\* No transaction is open.
LEMMA NothingOpen ==
    ASSUME NEW T, T = {}
    PROVE  IsFiniteSet(T) /\ Cardinality(T) = 0
BY FS_EmptySet

\* A converter that starts with nothing.
LEMMA InitIInv == Init => IInv
<1> SUFFICES ASSUME Init PROVE IInv
  OBVIOUS
<1>1. DriverOK
  <2>1. <<>> \in Seq(Operation) /\ <<>> \in Seq(Seq(Operation)) /\ <<>> \in Seq({})
    OBVIOUS
  <2>2. QED BY <2>1, RepositoryAssumption DEF Init, DriverOK
<1>2. MemoryOK
  BY InitialBranchesType, Bounds DEF Init, MemoryOK
<1>3. QueuesOK
  <2>1. <<>> \in Seq(Command(rev))
    OBVIOUS
  <2>2. QED BY <2>1 DEF Init, QueuesOK
<1>4. LogOK
  <2>1. <<>> \in Seq(Line) /\ Len(<<>>) = 0 /\ DOMAIN <<>> = {}
    OBVIOUS
  <2>2. QED BY <2>1 DEF Init, LogOK, LogMonotonic
<1>5. TransactionsOK
  BY NothingOpen DEF Init, TransactionsOK, OutstandingExact
<1>6. QED BY <1>1, <1>2, <1>3, <1>4, <1>5 DEF IInv

\* Nothing of the converter is left: what stays is the log, the files and the history.
LEMMA GoneStep ==
    ASSUME IInv, Gone, phase # "down", UNCHANGED <<pos, log, history>>,
           tagsFile' \subseteq TagBranch
    PROVE  IInv'
<1>1. DriverOK'
  <2>1. <<>> \in Seq(Operation)
    OBVIOUS
  <2>2. QED BY <2>1 DEF Gone, IInv, DriverOK, history
<1>2. MemoryOK'
  BY InitialBranchesType, Bounds DEF Gone, IInv, MemoryOK
<1>3. QueuesOK'
  <2>1. <<>> \in Seq(Command(rev'))
    OBVIOUS
  <2>2. QED BY <2>1 DEF Gone, QueuesOK
<1>4. LogOK'
  BY DEF Gone, IInv, LogOK, LogMonotonic
<1>5. TransactionsOK'
  BY NothingOpen DEF Gone, TransactionsOK, OutstandingExact
<1>6. QED BY <1>1, <1>2, <1>3, <1>4, <1>5 DEF IInv

\* The converter dies.
LEMMA CrashStep ==
    ASSUME IInv, NEW kind \in CrashKinds, Crash(kind)
    PROVE  IInv'
<1>1. Gone /\ phase # "down" /\ UNCHANGED <<pos, log, history>>
  BY DEF Crash
<1>2. tagsFile' \subseteq TagBranch
  BY DEF Crash, IInv, MemoryOK
<1>3. QED BY <1>1, <1>2, GoneStep

\* A run ends: nothing is left of it, or it stops where it is.
LEMMA FinishStep ==
    ASSUME IInv, Finish
    PROVE  IInv'
<1>1. phase # "down" /\ phase \in {"idle", "failed"} /\ UNCHANGED <<pos, log, history>>
  BY DEF Finish
<1>2. tagsFile' \subseteq TagBranch
  BY DEF Finish, IInv, MemoryOK
<1>3. Gone \/ (/\ phase' \in {"dead", "asserted"} /\ processHasStarted' \in BOOLEAN
               /\ UNCHANGED <<memory, rev, todo, queue>>)
  BY DEF Finish, IInv, MemoryOK
<1>4. CASE Gone
  BY <1>1, <1>2, <1>4, GoneStep
<1>5. CASE /\ phase' \in {"dead", "asserted"} /\ processHasStarted' \in BOOLEAN
           /\ UNCHANGED <<memory, rev, todo, queue>>
  <2>1. DriverOK'
    BY <1>1, <1>5 DEF IInv, DriverOK, history
  <2>2. MemoryOK'
    BY <1>2, <1>5 DEF IInv, MemoryOK, memory
  <2>3. QueuesOK'
    BY <1>5 DEF IInv, QueuesOK, memory
  <2>4. LogOK'
    BY <1>1, <1>5 DEF IInv, LogOK, LogMonotonic
  <2>5. TransactionsOK'
    BY <1>5 DEF IInv, TransactionsOK, OutstandingExact, memory
  <2>6. QED BY <2>1, <2>2, <2>3, <2>4, <2>5 DEF IInv
<1>6. QED BY <1>3, <1>4, <1>5

\* The process cache closes the process, the converter's memory stays.
LEMMA EvictStep ==
    ASSUME IInv, Evict
    PROVE  IInv'
<1>1. /\ UNCHANGED <<memory, pos, driver, log, tagsFile, history>>
      /\ processHasStarted' = FALSE
  BY DEF Evict
<1>2. DriverOK'
  BY <1>1 DEF IInv, DriverOK, driver, history
<1>3. MemoryOK'
  BY <1>1 DEF IInv, MemoryOK, memory
<1>4. QueuesOK'
  BY <1>1 DEF IInv, QueuesOK, memory, driver
<1>5. LogOK'
  BY <1>1 DEF IInv, LogOK, LogMonotonic, driver
<1>6. TransactionsOK'
  BY <1>1 DEF IInv, TransactionsOK, OutstandingExact, memory, driver
<1>7. QED BY <1>2, <1>3, <1>4, <1>5, <1>6 DEF IInv

-----------------------------------------------------------------------------
(* A run begins *)

\* A line of the log is read.
LEMMA RestoreLineStep ==
    ASSUME IInv, RestoreLine
    PROVE  IInv'
<1> DEFINE line == log[pos + 1]
<1>1. line \in Line /\ pos + 1 \in 1 .. Len(log) /\ phase = "down"
  BY DEF RestoreLine, IInv, LogOK
<1>2. Restored(branches[line.branch], line) \in Entry
  <2>1. branches[line.branch] \in Entry /\ line.rev \in Nat /\ line.mark \in Mark
    BY <1>1 DEF Line, IInv, MemoryOK
  <2>2. branches[line.branch].created \in Nat
    BY <2>1 DEF Entry
  <2>3. QED BY <2>1, <2>2, ExtendedType DEF Restored
<1>3. /\ branches' = [branches EXCEPT ![line.branch] = Restored(@, line)]
      /\ last_commit_mark' \in {last_commit_mark, line.mark}
      /\ pos' = pos + 1
      /\ UNCHANGED <<next_file_mark, commitCount, outstandingTransactions, transactions,
                     deletedBranches, resetBranches, annotatedTags, processHasStarted,
                     driver, log, tagsFile, history>>
  BY DEF RestoreLine, HighestMark, stored
<1> HIDE DEF line
<1>4. DriverOK'
  BY <1>3 DEF IInv, DriverOK, driver, history
<1>5. MemoryOK'
  BY <1>1, <1>2, <1>3 DEF IInv, MemoryOK, Line
<1>6. QueuesOK'
  BY <1>3 DEF IInv, QueuesOK, driver
<1>7. LogOK'
  BY <1>1, <1>3 DEF IInv, LogOK, LogMonotonic, driver
<1>8. TransactionsOK'
  BY <1>3 DEF IInv, TransactionsOK, OutstandingExact, driver
<1>9. QED BY <1>4, <1>5, <1>6, <1>7, <1>8 DEF IInv

\* The revision the export resumes at is that of the first line dropped, or one past the
\* last line kept: no line that is kept is later.
LEMMA StartExportStep ==
    ASSUME IInv, StartExport
    PROVE  IInv'
<1>1. /\ log \in Seq(Line) /\ pos \in 0 .. Len(log) /\ LogMonotonic /\ phase = "down"
      /\ Len(log) \in Nat /\ MaxRev \in Nat
  BY RepositoryAssumption DEF IInv, LogOK, StartExport
<1>2. \A i \in 1 .. Len(log) : log[i] \in Line /\ log[i].rev \in 1 .. MaxRev
  <2>1. \A i \in 1 .. Len(log) : log[i] \in Line
    BY <1>1
  <2>2. QED BY <2>1 DEF Line
<1>3. /\ log' \in Seq(Line) /\ Len(log') = pos
      /\ \A i \in 1 .. pos : log'[i] = log[i]
  <2>1. log' = SubSeq(log, 1, pos)
    BY DEF StartExport, Truncated
  <2>2. \A i \in 1 .. pos : log[i] \in Line
    BY <1>1, <1>2
  <2>3. QED BY <1>1, <2>1, <2>2, SubSeqProperties
<1>4. rev' \in 1 .. MaxRev + 1 /\ \A i \in 1 .. pos : log[i].rev <= rev'
  <2>1. rev' = ResumeRevision(log, pos)
    BY DEF StartExport
  <2>2. CASE pos < Len(log)
    <3>1. pos + 1 \in 1 .. Len(log) /\ rev' = log[pos + 1].rev
      BY <1>1, <2>1, <2>2 DEF ResumeRevision
    <3>2. \A i \in 1 .. pos : log[i].rev <= log[pos + 1].rev
      BY <1>1, <3>1 DEF LogMonotonic
    <3>3. QED BY <1>1, <1>2, <3>1, <3>2
  <2>3. CASE pos = Len(log) /\ pos # 0
    <3>1. pos \in 1 .. Len(log) /\ rev' = log[pos].rev + 1
      BY <1>1, <2>1, <2>3 DEF ResumeRevision
    <3>2. \A i \in 1 .. pos : log[i].rev <= log[pos].rev
      BY <1>1, <1>2, <3>1 DEF LogMonotonic
    <3>3. QED BY <1>1, <1>2, <3>1, <3>2
  <2>4. CASE pos = Len(log) /\ pos = 0
    <3>1. log = <<>>
      BY <1>1, <2>4, EmptySeq
    <3>2. rev' = 1
      BY <2>1, <2>4, <3>1 DEF ResumeRevision
    <3>3. QED BY <1>1, <2>4, <3>2
  <2>5. QED BY <1>1, <2>2, <2>3, <2>4
<1>5. /\ annotatedTags' = tagsFile /\ phase' = "idle" /\ pos' = 0
      /\ UNCHANGED <<branches, marking, commitCount, outstandingTransactions, transactions,
                     deletedBranches, resetBranches, processHasStarted, todo, queue,
                     tagsFile, history>>
  BY DEF StartExport, RestoredAnnotatedTags
<1>6. DriverOK'
  BY <1>4, <1>5 DEF IInv, DriverOK, history
<1>7. MemoryOK'
  BY <1>5 DEF IInv, MemoryOK, marking
<1>8. QueuesOK'
  <2>1. queue' = <<>> /\ deletedBranches' = <<>> /\ resetBranches' = <<>>
    BY <1>1, <1>5 DEF IInv, QueuesOK
  <2>2. <<>> \in Seq(Command(rev'))
    OBVIOUS
  <2>3. QED BY <2>1, <2>2 DEF QueuesOK
<1>9. LogOK'
  <2>1. DOMAIN log' = 1 .. pos /\ DOMAIN log = 1 .. Len(log)
    BY <1>1, <1>3
  <2>2. LogMonotonic'
    BY <1>1, <1>3, <2>1 DEF LogMonotonic
  <2>3. \A i \in 1 .. Len(log') : log'[i].rev <= rev'
    BY <1>3, <1>4
  <2>4. QED BY <1>1, <1>3, <1>5, <2>2, <2>3 DEF LogOK
<1>10. TransactionsOK'
  BY <1>1, <1>5 DEF IInv, TransactionsOK, OutstandingExact, marking
<1>11. QED BY <1>6, <1>7, <1>8, <1>9, <1>10 DEF IInv

-----------------------------------------------------------------------------
(* One revision *)

\* A revision asks for its operations, the same ones each time it is exported.
LEMMA BeginRevisionStep ==
    ASSUME IInv, BeginRevision
    PROVE  IInv'
<1>1. /\ phase = "idle" /\ phase' = "prepare" /\ rev \in 1 .. MaxRev
      /\ UNCHANGED <<memory, processHasStarted, rev, queue, stored, pos>>
  BY Bounds DEF BeginRevision, IInv, DriverOK
<1>2. /\ todo' \in Seq(Operation) /\ svn' \in Seq(Seq(Operation))
      /\ \E S : tips' \in Seq(S)
  <2>1. svn \in Seq(Seq(Operation)) /\ \E S : tips \in Seq(S)
    BY DEF IInv, DriverOK
  <2>2. CASE rev <= Len(svn)
    <3>1. todo' = svn[rev] /\ svn' = svn /\ tips' = tips
      BY <2>2 DEF BeginRevision, history
    <3>2. rev \in 1 .. Len(svn)
      BY <1>1, <2>1, <2>2
    <3>3. QED BY <2>1, <3>1, <3>2
  <2>3. CASE ~ (rev <= Len(svn))
    <3>1. PICK ops \in Revisions(tips) :
              /\ todo' = ops
              /\ svn' = Append(svn, ops)
              /\ tips' = Append(tips, TipsAfter(tips, ops))
      BY <2>3 DEF BeginRevision
    <3>2. ops \in Seq(Operation)
      BY <2>1, <3>1, RevisionsType
    <3>3. PICK S : tips \in Seq(S)
      BY <2>1
    <3>4. tips' \in Seq(S \cup {TipsAfter(tips, ops)})
      <4> DEFINE x == TipsAfter(tips, ops)
      <4>1. tips' = Append(tips, x)
        BY <3>1
      <4> HIDE DEF x
      <4>2. tips \in Seq(S \cup {x})
        BY <3>3
      <4>3. Append(tips, x) \in Seq(S \cup {x})
        BY <4>2
      <4>4. QED BY <4>1, <4>3 DEF x
    <3>5. QED BY <2>1, <3>1, <3>2, <3>4
  <2>4. QED BY <2>2, <2>3
<1>3. DriverOK'
  BY <1>1, <1>2 DEF IInv, DriverOK
<1>4. MemoryOK'
  BY <1>1 DEF IInv, MemoryOK, memory, stored
<1>5. QueuesOK'
  BY <1>1 DEF IInv, QueuesOK, memory
<1>6. LogOK'
  BY <1>1 DEF IInv, LogOK, LogMonotonic, stored
<1>7. TransactionsOK'
  BY <1>1 DEF IInv, TransactionsOK, OutstandingExact, memory
<1>8. QED BY <1>3, <1>4, <1>5, <1>6, <1>7 DEF IInv

\* What resetBranch does to the branches and the two queues.
LEMMA ResetBranchFacts ==
    ASSUME IInv, phase = "prepare", NEW b \in Branch, NEW mark \in Mark,
           NEW to \in Branch \cup {Null}, NEW brs \in [Branch -> Entry],
           ResetBranch(b, mark, to, brs)
    PROVE  /\ branches' \in [Branch -> Entry]
           /\ deletedBranches' \in Seq(Command(rev))
           /\ resetBranches' \in Seq(Command(rev))
<1> DEFINE br  == brs[b]
           cmd == [branch |-> b, rev |-> rev, mark |-> mark, to |-> to,
                   backup |-> NeedsBackup(br)]
<1>1. rev \in Nat /\ NeedsBackup(br) \in BOOLEAN
  BY Bounds DEF IInv, DriverOK, NeedsBackup, HasTip
<1>2. cmd \in Command(rev)
  BY <1>1 DEF Command
<1>3. Extended(br, rev, mark, rev) \in Entry
  BY <1>1, ExtendedType
<1>4. branches' = [brs EXCEPT ![b] = Extended(br, rev, mark, rev)]
  BY DEF ResetBranch
<1>5. \/ deletedBranches' = Append(deletedBranches, cmd) /\ resetBranches' = resetBranches
      \/ resetBranches' = Append(resetBranches, cmd) /\ deletedBranches' = deletedBranches
  BY DEF ResetBranch
<1> HIDE DEF cmd, br
<1>6. deletedBranches \in Seq(Command(rev)) /\ resetBranches \in Seq(Command(rev))
  BY DEF IInv, QueuesOK
<1>7. branches' \in [Branch -> Entry]
  BY <1>3, <1>4
<1>8. deletedBranches' \in Seq(Command(rev)) /\ resetBranches' \in Seq(Command(rev))
  <2>1. \A s \in Seq(Command(rev)) : Append(s, cmd) \in Seq(Command(rev))
    BY <1>2
  <2>2. QED BY <1>5, <1>6, <2>1
<1>9. QED BY <1>7, <1>8

\* The head of what is still to be done in a revision.
LEMMA NextOperation ==
    ASSUME IInv, phase = "prepare", todo # <<>>
    PROVE  Head(todo) \in Operation /\ Tail(todo) \in Seq(Operation)
BY DEF IInv, DriverOK

\* createBranch.
LEMMA CreateBranchStep ==
    ASSUME IInv, CreateBranch
    PROVE  IInv'
<1> DEFINE op   == Head(todo)
           mark == MarkFrom(branches, op.from, op.at)
           brs  == LookedUp(branches, op.from)
<1>1. /\ phase = "prepare" /\ op \in Operation /\ op.kind = "copy"
      /\ Tail(todo) \in Seq(Operation)
  BY NextOperation DEF CreateBranch, NextIs
<1>2. op.branch \in Branch /\ op.from \in Branch
  BY <1>1 DEF Operation, Op
<1>3. mark \in Mark \cup {-1} /\ brs \in [Branch -> Entry]
  BY <1>2, MarkFromType, LookedUpType DEF IInv, MemoryOK
<1>4. UNCHANGED <<marking, commitCount, outstandingTransactions, transactions,
                  processHasStarted, rev, queue, stored, history, pos>>
  BY DEF CreateBranch
<1>5. /\ phase' \in {"prepare", "failed"} /\ todo' \in Seq(Operation)
      /\ branches' \in [Branch -> Entry] /\ annotatedTags' \subseteq TagBranch
      /\ deletedBranches' \in Seq(Command(rev)) /\ resetBranches' \in Seq(Command(rev))
  <2>1. CASE mark = -1
    <3>1. /\ phase' = "failed" /\ branches' = brs
          /\ UNCHANGED <<resetBranches, deletedBranches, annotatedTags, todo>>
      BY <2>1 DEF CreateBranch
    <3>2. QED BY <1>3, <3>1 DEF IInv, DriverOK, MemoryOK, QueuesOK
  <2>2. CASE mark # -1
    <3>1. /\ ResetBranch(op.branch, mark, op.from, brs)
          /\ annotatedTags' = Annotated(op.branch)
          /\ todo' = Tail(todo)
          /\ phase' = phase
      BY <2>2 DEF CreateBranch
    <3>2. mark \in Mark
      BY <1>3, <2>2
    <3> HIDE DEF mark, brs, op
    <3>3. /\ branches' \in [Branch -> Entry]
          /\ deletedBranches' \in Seq(Command(rev)) /\ resetBranches' \in Seq(Command(rev))
      BY <1>1, <1>2, <1>3, <3>1, <3>2, ResetBranchFacts
    <3>4. annotatedTags' \subseteq TagBranch
      BY <3>1 DEF Annotated, IInv, MemoryOK
    <3>5. QED BY <1>1, <3>1, <3>3, <3>4 DEF op
  <2>3. QED BY <2>1, <2>2
<1>6. DriverOK'
  BY <1>1, <1>4, <1>5 DEF IInv, DriverOK, history
<1>7. MemoryOK'
  BY <1>4, <1>5 DEF IInv, MemoryOK, marking, stored
<1>8. QueuesOK'
  BY <1>4, <1>5 DEF IInv, QueuesOK
<1>9. LogOK'
  BY <1>1, <1>4 DEF IInv, LogOK, LogMonotonic, stored
<1>10. TransactionsOK'
  BY <1>4, <1>5 DEF IInv, TransactionsOK, OutstandingExact, marking
<1>11. QED BY <1>6, <1>7, <1>8, <1>9, <1>10 DEF IInv

\* deleteBranch.
LEMMA DeleteBranchStep ==
    ASSUME IInv, DeleteBranch
    PROVE  IInv'
<1> DEFINE b == Head(todo).branch
<1>1. /\ phase = "prepare" /\ b \in Branch /\ Tail(todo) \in Seq(Operation)
  BY NextOperation DEF DeleteBranch, NextIs, Operation, Op
<1>2. /\ todo' = Tail(todo) /\ ResetBranch(b, 0, Null, branches)
      /\ UNCHANGED <<marking, commitCount, outstandingTransactions, transactions,
                     annotatedTags, processHasStarted, phase, rev, queue, stored,
                     history, pos>>
  BY DEF DeleteBranch
<1> HIDE DEF b
<1>3. /\ branches' \in [Branch -> Entry]
      /\ deletedBranches' \in Seq(Command(rev)) /\ resetBranches' \in Seq(Command(rev))
  BY <1>1, <1>2, ResetBranchFacts, Bounds DEF IInv, MemoryOK
<1>4. DriverOK'
  BY <1>1, <1>2 DEF IInv, DriverOK, history
<1>5. MemoryOK'
  BY <1>2, <1>3 DEF IInv, MemoryOK, marking, stored
<1>6. QueuesOK'
  BY <1>1, <1>2, <1>3 DEF IInv, QueuesOK
<1>7. LogOK'
  BY <1>2 DEF IInv, LogOK, LogMonotonic, stored
<1>8. TransactionsOK'
  BY <1>2 DEF IInv, TransactionsOK, OutstandingExact, marking
<1>9. QED BY <1>4, <1>5, <1>6, <1>7, <1>8 DEF IInv

\* A file is added to the transaction of its branch, the one there is or a new one.
LEMMA TransactionFacts ==
    ASSUME NEW T, T \subseteq Transaction, IsFiniteSet(T),
           \A t, u \in T : t.branch = u.branch => t = u,
           NEW b \in Branch, NEW txn, NEW new \in Transaction, new.branch = b,
           \/ txn \in T /\ txn.branch = b
           \/ txn \notin T /\ \A t \in T : t.branch # b
    PROVE  /\ IsFiniteSet((T \ {txn}) \cup {new})
           /\ Cardinality((T \ {txn}) \cup {new})
                  = Cardinality(T) + (IF txn \notin T THEN 1 ELSE 0)
           /\ \A t, u \in (T \ {txn}) \cup {new} : t.branch = u.branch => t = u
<1> DEFINE rest == T \ {txn}
<1>1. /\ IsFiniteSet(rest)
      /\ Cardinality(rest) = Cardinality(T) - (IF txn \in T THEN 1 ELSE 0)
  <2>1. Cardinality(T) \in Nat
    BY FS_CardinalityType
  <2>2. /\ IsFiniteSet(rest)
        /\ Cardinality(rest) = IF txn \in T THEN Cardinality(T) - 1 ELSE Cardinality(T)
    BY FS_RemoveElement
  <2>3. QED BY <2>1, <2>2
<1>2. \A t \in rest : t.branch # b
  OBVIOUS
<1>3. new \notin rest
  BY <1>2
<1>4. /\ IsFiniteSet(rest \cup {new})
      /\ Cardinality(rest \cup {new}) = Cardinality(rest) + 1
  BY <1>1, <1>3, FS_AddElement
<1>5. Cardinality(T) \in Nat /\ Cardinality(rest) \in Nat
  BY <1>1, FS_CardinalityType
<1>6. \A t, u \in rest \cup {new} : t.branch = u.branch => t = u
  BY <1>2
<1>7. QED BY <1>1, <1>4, <1>5, <1>6

\* newTransaction, noteCopyFromBranch, addFile and deleteFile.
LEMMA ChangeFileStep ==
    ASSUME IInv, ChangeFile
    PROVE  IInv'
<1> DEFINE op    == Head(todo)
           b     == op.branch
           txn   == TransactionOf(b)
           isNew == txn \notin transactions
           noted == op.from # Null
           mark  == IF noted THEN MarkFrom(branches, op.from, op.at) ELSE 0
           blob  == op.kind = "change"
           file  == next_file_mark
           new   == [txn EXCEPT !.merges = IF mark > 0 THEN @ \cup {mark} ELSE @,
                                !.files  = IF blob THEN @ \cup {file} ELSE @]
<1>1. /\ phase = "prepare" /\ op \in Operation /\ Tail(todo) \in Seq(Operation)
      /\ b \in Branch /\ op.from \in Branch \cup {Null}
  BY NextOperation DEF ChangeFile, NextIs, Operation, Op
<1>2. /\ transactions' = (transactions \ {txn}) \cup {new}
      /\ outstandingTransactions' = outstandingTransactions + (IF isNew THEN 1 ELSE 0)
      /\ commitCount' = (commitCount + (IF isNew THEN 1 ELSE 0)) % CommitInterval
      /\ branches' = IF noted THEN LookedUp(branches, op.from) ELSE branches
      /\ annotatedTags' = Annotated(b)
      /\ todo' = Tail(todo)
      /\ UNCHANGED <<last_commit_mark, deletedBranches, resetBranches, phase, rev, queue,
                     log, tagsFile, history, pos>>
  BY DEF ChangeFile
<1>3. processHasStarted' \in BOOLEAN
  BY DEF ChangeFile, IInv, MemoryOK
<1>4. next_file_mark' = next_file_mark \/ (next_file_mark \in FileMark
                                             /\ next_file_mark' = next_file_mark - 1)
  BY DEF ChangeFile
<1>5. mark \in Int /\ file \in Int
  <2>1. mark \in Mark \cup {-1, 0}
    BY <1>1, MarkFromType DEF IInv, MemoryOK
  <2>2. QED BY <2>1, Bounds DEF Mark, IInv, MemoryOK
<1>6. /\ transactions \subseteq Transaction /\ IsFiniteSet(transactions)
      /\ \A t, u \in transactions : t.branch = u.branch => t = u
      /\ outstandingTransactions = Cardinality(transactions)
  BY DEF IInv, TransactionsOK, OutstandingExact
<1>7. /\ txn \in Transaction /\ txn.branch = b
      /\ txn \in transactions \/ \A t \in transactions : t.branch # b
  <2> DEFINE open == {t \in transactions : t.branch = b}
  <2>1. CASE open # {}
    <3>1. txn \in open
      BY <2>1 DEF TransactionOf
    <3>2. QED BY <1>6, <3>1
  <2>2. CASE open = {}
    <3>1. txn = [branch |-> b, merges |-> {}, files |-> {}]
      BY <2>2 DEF TransactionOf
    <3>2. QED BY <1>1, <2>2, <3>1 DEF Transaction
  <2>3. QED BY <2>1, <2>2
<1> HIDE DEF txn, mark
<1>8. new \in Transaction /\ new.branch = b
  BY <1>5, <1>7 DEF Transaction
<1> HIDE DEF new
<1>9. /\ IsFiniteSet(transactions')
      /\ Cardinality(transactions') = Cardinality(transactions) + (IF isNew THEN 1 ELSE 0)
      /\ \A t, u \in transactions' : t.branch = u.branch => t = u
  BY <1>1, <1>2, <1>6, <1>7, <1>8, TransactionFacts
<1>10. transactions' # {} /\ transactions' \subseteq Transaction
  BY <1>2, <1>6, <1>8
<1>11. DriverOK'
  BY <1>1, <1>2 DEF IInv, DriverOK, history
<1>12. MemoryOK'
  <2>1. branches' \in [Branch -> Entry]
    BY <1>2, LookedUpType DEF IInv, MemoryOK
  <2>2. commitCount' \in 0 .. CommitInterval - 1
    BY <1>2, Bounds DEF IInv, MemoryOK
  <2>3. next_file_mark' \in (maxMark - MaxFiles - 1) .. (maxMark - 1)
    BY <1>4, Bounds DEF IInv, MemoryOK, FileMark
  <2>4. annotatedTags' \subseteq TagBranch
    BY <1>2 DEF Annotated, IInv, MemoryOK
  <2>5. QED BY <1>2, <1>3, <2>1, <2>2, <2>3, <2>4 DEF IInv, MemoryOK
<1>13. QueuesOK'
  BY <1>2 DEF IInv, QueuesOK
<1>14. LogOK'
  BY <1>2 DEF IInv, LogOK, LogMonotonic
<1>15. TransactionsOK'
  <2>1. outstandingTransactions' = Cardinality(transactions')
    BY <1>2, <1>6, <1>9
  <2>2. outstandingTransactions' # 0
    BY <1>9, <1>10, <2>1, FS_EmptySet
  <2>3. phase' = "prepare"
    BY <1>1, <1>2
  <2>4. QED BY <1>9, <1>10, <2>1, <2>2, <2>3 DEF TransactionsOK, OutstandingExact
<1>16. QED BY <1>11, <1>12, <1>13, <1>14, <1>15 DEF IInv

\* FastImportRepository::commit.
LEMMA FlushStep ==
    ASSUME IInv, Flush
    PROVE  IInv'
<1>1. /\ phase = "prepare" /\ phase' = "commit"
      /\ queue' = deletedBranches \o resetBranches
      /\ deletedBranches' = <<>> /\ resetBranches' = <<>>
      /\ annotatedTags' \subseteq annotatedTags
      /\ UNCHANGED <<branches, marking, commitCount, outstandingTransactions, transactions,
                     rev, todo, stored, history, pos>>
  BY DEF Flush
<1>2. processHasStarted' \in BOOLEAN
  BY DEF Flush, IInv, MemoryOK
<1>3. /\ queue' \in Seq(Command(rev)) /\ <<>> \in Seq(Command(rev))
  BY <1>1 DEF IInv, QueuesOK
<1>4. DriverOK'
  BY <1>1 DEF IInv, DriverOK, history
<1>5. MemoryOK'
  BY <1>1, <1>2 DEF IInv, MemoryOK, marking, stored
<1>6. QueuesOK'
  BY <1>1, <1>3 DEF IInv, QueuesOK
<1>7. LogOK'
  BY <1>1 DEF IInv, LogOK, LogMonotonic, stored
<1>8. TransactionsOK'
  BY <1>1 DEF IInv, TransactionsOK, OutstandingExact, marking
<1>9. QED BY <1>4, <1>5, <1>6, <1>7, <1>8 DEF IInv

\* A line of the revision being exported keeps the log in order.
LEMMA LogAppend ==
    ASSUME IInv, phase = "commit", NEW line \in Line, line.rev = rev,
           log' = log \/ log' = Append(log, line),
           phase' \in {"commit", "failed"}, UNCHANGED <<rev, pos>>
    PROVE  LogOK'
<1>1. /\ log \in Seq(Line) /\ pos = 0 /\ Len(log) \in Nat
      /\ \A i \in 1 .. Len(log) : log[i].rev <= rev
      /\ \A i, j \in 1 .. Len(log) : i < j => log[i].rev <= log[j].rev
  BY DEF IInv, LogOK, LogMonotonic
<1>2. CASE log' = log
  BY <1>1, <1>2 DEF LogOK, LogMonotonic
<1>3. CASE log' = Append(log, line)
  <2>1. /\ log' \in Seq(Line) /\ Len(log') = Len(log) + 1
        /\ \A i \in 1 .. Len(log) : log'[i] = log[i]
        /\ log'[Len(log) + 1] = line
    BY <1>1, <1>3
  <2>2. DOMAIN log' = 1 .. Len(log) + 1
    BY <2>1
  <2>3. rev \in Int /\ rev' = rev
    BY Bounds DEF IInv, DriverOK
  <2>4. \A i \in 1 .. Len(log) + 1 : log'[i].rev <= rev
    BY <1>1, <2>1, <2>3
  <2>5. LogMonotonic'
    <3>1. ASSUME NEW i \in 1 .. Len(log) + 1, NEW j \in 1 .. Len(log) + 1, i < j
          PROVE  log'[i].rev <= log'[j].rev
      <4>1. CASE j = Len(log) + 1
        BY <2>1, <2>4, <4>1
      <4>2. CASE j # Len(log) + 1
        <5>1. i \in 1 .. Len(log) /\ j \in 1 .. Len(log)
          BY <1>1, <3>1, <4>2
        <5>2. QED BY <1>1, <2>1, <3>1, <5>1
      <4>3. QED BY <4>1, <4>2
    <3>2. QED BY <2>2, <3>1 DEF LogMonotonic
  <2>6. QED BY <1>1, <2>1, <2>3, <2>4, <2>5 DEF LogOK
<1>4. QED BY <1>2, <1>3

\* A queued deletion or reset is written and logged.
LEMMA WriteResetStep ==
    ASSUME IInv, WriteReset
    PROVE  IInv'
<1> DEFINE cmd  == Head(queue)
           line == [rev |-> cmd.rev, branch |-> cmd.branch, mark |-> cmd.mark]
<1>1. /\ phase = "commit" /\ queue' = Tail(queue) /\ queue # <<>>
      /\ log' = log \/ log' = Append(log, line)
      /\ UNCHANGED <<memory, processHasStarted, phase, rev, todo, disk, tagsFile, history,
                     pos>>
  BY DEF WriteReset
<1>2. rev \in 1 .. MaxRev
  BY <1>1 DEF IInv, DriverOK
<1>3. cmd \in Command(rev) /\ queue' \in Seq(Command(rev))
  BY <1>1 DEF IInv, QueuesOK
<1>4. line \in Line /\ line.rev = rev
  BY <1>2, <1>3 DEF Command, Line
<1> HIDE DEF line
<1>5. LogOK'
  BY <1>1, <1>4, LogAppend
<1>6. DriverOK'
  BY <1>1 DEF IInv, DriverOK, history
<1>7. MemoryOK'
  BY <1>1 DEF IInv, MemoryOK, memory
<1>8. QueuesOK'
  BY <1>1, <1>3 DEF IInv, QueuesOK, memory
<1>9. TransactionsOK'
  BY <1>1 DEF IInv, TransactionsOK, OutstandingExact, memory
<1>10. QED BY <1>5, <1>6, <1>7, <1>8, <1>9 DEF IInv

\* Transaction::commit.
LEMMA CommitTransactionStep ==
    ASSUME IInv, NEW txn \in transactions, CommitTransaction(txn)
    PROVE  IInv'
<1> DEFINE b    == txn.branch
           mark == last_commit_mark + 1
           line == [rev |-> rev, branch |-> b, mark |-> mark]
<1>1. /\ phase = "commit"
      /\ UNCHANGED <<commitCount, deletedBranches, resetBranches, annotatedTags, rev, todo,
                     queue, tagsFile, history, pos>>
  BY DEF CommitTransaction
<1>2. /\ b \in Branch /\ rev \in 1 .. MaxRev /\ branches[b] \in Entry
      /\ transactions \subseteq Transaction /\ IsFiniteSet(transactions)
      /\ OutstandingExact
  BY <1>1 DEF IInv, DriverOK, MemoryOK, TransactionsOK, Transaction
<1>3. CASE InConflict(b)
  <2>1. /\ phase' = "failed"
        /\ UNCHANGED <<branches, marking, outstandingTransactions, transactions,
                       processHasStarted, log>>
    BY <1>3 DEF CommitTransaction
  <2>2. DriverOK'
    BY <1>1, <2>1 DEF IInv, DriverOK, history
  <2>3. MemoryOK'
    BY <1>1, <2>1 DEF IInv, MemoryOK, marking
  <2>4. QueuesOK'
    BY <1>1, <2>1 DEF IInv, QueuesOK
  <2>5. LogOK'
    BY <1>1, <2>1 DEF IInv, LogOK, LogMonotonic
  <2>6. TransactionsOK'
    BY <2>1 DEF IInv, TransactionsOK, OutstandingExact, marking
  <2>7. QED BY <2>2, <2>3, <2>4, <2>5, <2>6 DEF IInv
<1>4. CASE ~ InConflict(b)
  <2> DEFINE br      == branches[b]
             created == IF HasTip(br) THEN br.created ELSE rev
  <2>1. /\ mark \in CommitMark
        /\ last_commit_mark' = mark
        /\ branches' = [branches EXCEPT ![b] = Extended(br, rev, mark, created)]
        /\ processHasStarted' = TRUE
        /\ log' = log \/ log' = Append(log, line)
        /\ transactions' = transactions \ {txn}
        /\ outstandingTransactions' = outstandingTransactions - 1
        /\ next_file_mark' = IF outstandingTransactions = 1 THEN maxMark - 1
                             ELSE next_file_mark
        /\ phase' = phase
    BY <1>4 DEF CommitTransaction
  <2>2. mark \in Mark /\ mark \in Nat /\ rev \in Nat /\ created \in Nat
    BY <1>2, <2>1, Bounds DEF CommitMark, Mark, Entry
  <2>3. Extended(br, rev, mark, created) \in Entry
    BY <1>2, <2>2, ExtendedType
  <2>4. line \in Line /\ line.rev = rev
    BY <1>2, <2>2 DEF Line
  <2> HIDE DEF line, mark, created
  <2>5. LogOK'
    BY <1>1, <2>1, <2>4, LogAppend
  <2>6. DriverOK'
    BY <1>1, <2>1 DEF IInv, DriverOK, history
  <2>7. MemoryOK'
    BY <1>1, <2>1, <2>2, <2>3, Bounds DEF IInv, MemoryOK
  <2>8. QueuesOK'
    BY <1>1, <2>1 DEF IInv, QueuesOK
  <2>9. TransactionsOK'
    <3>1. /\ IsFiniteSet(transactions') /\ Cardinality(transactions) \in Nat
          /\ Cardinality(transactions') = Cardinality(transactions) - 1
      BY <1>2, <2>1, FS_RemoveElement, FS_CardinalityType
    <3>2. outstandingTransactions' = Cardinality(transactions')
      BY <1>2, <2>1, <3>1 DEF OutstandingExact
    <3>3. outstandingTransactions' = 0 => next_file_mark' = maxMark - 1
      BY <1>2, <2>1, <3>1 DEF OutstandingExact
    <3>4. \A t, u \in transactions' : t.branch = u.branch => t = u
      BY <1>2, <2>1 DEF OutstandingExact
    <3>5. phase' = "commit"
      BY <1>1, <2>1
    <3>6. QED BY <1>2, <2>1, <3>1, <3>2, <3>3, <3>4, <3>5 DEF TransactionsOK, OutstandingExact
  <2>10. QED BY <2>5, <2>6, <2>7, <2>8, <2>9 DEF IInv
<1>5. QED BY <1>3, <1>4

\* The next revision.
LEMMA EndRevisionStep ==
    ASSUME IInv, EndRevision
    PROVE  IInv'
<1>1. /\ phase = "commit" /\ phase' = "idle" /\ rev' = rev + 1
      /\ queue = <<>> /\ transactions = {}
      /\ UNCHANGED <<memory, processHasStarted, todo, queue, stored, history, pos>>
  BY DEF EndRevision
<1>2. rev \in 1 .. MaxRev
  BY <1>1 DEF IInv, DriverOK
<1>3. DriverOK'
  BY <1>1, <1>2, Bounds DEF IInv, DriverOK, history
<1>4. MemoryOK'
  BY <1>1 DEF IInv, MemoryOK, memory, stored
<1>5. QueuesOK'
  <2>1. queue' = <<>> /\ deletedBranches' = <<>> /\ resetBranches' = <<>>
    BY <1>1 DEF IInv, QueuesOK, memory
  <2>2. <<>> \in Seq(Command(rev'))
    OBVIOUS
  <2>3. QED BY <2>1, <2>2 DEF QueuesOK
<1>6. LogOK'
  <2>1. /\ log' = log /\ pos' = pos /\ pos = 0 /\ log \in Seq(Line)
        /\ \A i \in 1 .. Len(log) : log[i].rev <= rev
    BY <1>1 DEF IInv, LogOK, stored
  <2>2. \A i \in 1 .. Len(log) : log[i].rev \in Int
    <3>1. \A i \in 1 .. Len(log) : log[i] \in Line
      BY <2>1
    <3>2. QED BY <3>1, Bounds DEF Line
  <2>3. \A i \in 1 .. Len(log) : log[i].rev <= rev'
    BY <1>1, <1>2, <2>1, <2>2, Bounds
  <2>4. LogMonotonic'
    BY <2>1 DEF IInv, LogOK, LogMonotonic
  <2>5. QED BY <2>1, <2>3, <2>4 DEF IInv, LogOK
<1>7. TransactionsOK'
  <2>1. outstandingTransactions = 0
    BY <1>1, NothingOpen DEF IInv, TransactionsOK, OutstandingExact
  <2>2. QED BY <1>1, <2>1 DEF IInv, TransactionsOK, OutstandingExact, memory
<1>8. QED BY <1>3, <1>4, <1>5, <1>6, <1>7 DEF IInv

\* Nothing happens.
LEMMA StutterStep ==
    ASSUME IInv, UNCHANGED vars
    PROVE  IInv'
<1> USE DEF vars, memory, driver, stored, history
<1>1. DriverOK'
  BY DEF IInv, DriverOK
<1>2. MemoryOK'
  BY DEF IInv, MemoryOK
<1>3. QueuesOK'
  BY DEF IInv, QueuesOK
<1>4. LogOK'
  BY DEF IInv, LogOK, LogMonotonic
<1>5. TransactionsOK'
  BY DEF IInv, TransactionsOK, OutstandingExact
<1>6. QED BY <1>1, <1>2, <1>3, <1>4, <1>5 DEF IInv

\* Every step keeps the inductive invariant.
LEMMA StepIInv == IInv /\ [Next]_vars => IInv'
<1> SUFFICES ASSUME IInv, [Next]_vars PROVE IInv'
  OBVIOUS
<1>1. CASE UNCHANGED vars
  BY <1>1, StutterStep
<1>2. CASE RestoreLine \/ StartExport
  BY <1>2, RestoreLineStep, StartExportStep
<1>3. CASE BeginRevision \/ CreateBranch \/ DeleteBranch \/ ChangeFile
  BY <1>3, BeginRevisionStep, CreateBranchStep, DeleteBranchStep, ChangeFileStep
<1>4. CASE Flush \/ WriteReset \/ EndRevision
  BY <1>4, FlushStep, WriteResetStep, EndRevisionStep
<1>5. CASE \E txn \in transactions : CommitTransaction(txn)
  BY <1>5, CommitTransactionStep
<1>6. CASE Evict \/ Finish \/ \E kind \in CrashKinds : Crash(kind)
  BY <1>6, EvictStep, FinishStep, CrashStep
<1>7. QED BY <1>1, <1>2, <1>3, <1>4, <1>5, <1>6 DEF Next

\* The inductive invariant of one repository.
THEOREM Invariance == Spec => []IInv
<1>1. QED BY InitIInv, StepIInv, PTL DEF Spec

-----------------------------------------------------------------------------
(* What it is for *)

\* The types of the converter's variables, whatever the revisions ask for and wherever
\* runs are evicted, killed and started again.
THEOREM TypeCorrect == Spec => []TypeOK
<1>1. IInv => TypeOK
  <2> SUFFICES ASSUME IInv PROVE TypeOK
    OBVIOUS
  <2>1. branches \in [Branch -> [known : BOOLEAN, created : Nat,
                                 commits : Seq(Nat), marks : Seq(Nat)]]
    <3>1. Mark \subseteq Nat
      BY Bounds DEF Mark
    <3>2. Seq(Mark) \subseteq Seq(Nat)
      BY <3>1, SeqMonotonic
    <3>3. Entry \subseteq [known : BOOLEAN, created : Nat,
                           commits : Seq(Nat), marks : Seq(Nat)]
      BY <3>2 DEF Entry
    <3>4. QED BY <3>3 DEF IInv, MemoryOK
  <2>2. outstandingTransactions \in Nat
    BY FS_CardinalityType DEF IInv, TransactionsOK, OutstandingExact
  <2>3. \A t \in transactions : t.branch \in Branch
    BY DEF IInv, TransactionsOK, Transaction
  <2>4. QED BY <2>1, <2>2, <2>3 DEF IInv, DriverOK, MemoryOK, LogOK, Mark, TypeOK
<1>2. QED BY <1>1, Invariance, PTL

\* The log is in order, across crashes, rewinds and revisions exported again.
THEOREM LogInOrder == Spec => []LogMonotonic
<1>1. IInv => LogMonotonic
  BY DEF IInv, LogOK
<1>2. QED BY <1>1, Invariance, PTL

\* outstandingTransactions is exact, and nothing is open between revisions.
THEOREM CountExact == Spec => []OutstandingExact
<1>1. IInv => OutstandingExact
  BY DEF IInv, TransactionsOK
<1>2. QED BY <1>1, Invariance, PTL

\* The destructor's assertion fails only in a run whose export has failed: a step to
\* "asserted" starts in "failed".
THEOREM AssertedOnlyAfterFailure ==
    Spec => [][phase' = "asserted" => phase \in {"failed", "asserted"}]_vars
<1>1. ASSUME IInv, [Next]_vars, phase' = "asserted", phase # "asserted"
      PROVE  phase = "failed"
  <2>1. Finish
    BY <1>1 DEF Next, vars, RestoreLine, StartExport, BeginRevision, CreateBranch,
        NextIs, DeleteBranch, ChangeFile, Flush, WriteReset, CommitTransaction,
        EndRevision, Evict, Crash, Gone, driver
  <2>2. phase \in {"idle", "failed"} /\ outstandingTransactions # 0
    BY <1>1, <2>1 DEF Finish, Gone
  <2>3. QED BY <1>1, <2>2 DEF IInv, TransactionsOK, OutstandingExact
<1>2. IInv /\ [Next]_vars => [phase' = "asserted" => phase \in {"failed", "asserted"}]_vars
  BY <1>1
<1>3. QED BY <1>2, Invariance, PTL DEF Spec

-----------------------------------------------------------------------------
(* The process and the disk *)

\* What fast-import and its disk hold: contents of blobs, commits, histories.
Content    == (Branch \X Nat) \cup {Null}
Commitment == [branch : Branch, rev : Nat, files : SUBSET Content,
               merges : SUBSET (Branch \X Nat)]
History    == Seq(Commitment)
Tip        == History \cup {Null}
Exported   == (History \ {<<>>}) \cup {Null}
Saved      == [branch : Branch, rev : Nat, tip : Tip]

Process == [tab : [Branch -> Tip], del : SUBSET Branch, backup : SUBSET Saved,
            mark : [CommitMark -> Exported], blob : [FileMark -> Content],
            tag : [Branch -> Tip], dead : BOOLEAN]

Disk == [ref : [Branch -> Tip], backup : SUBSET Saved, mark : [CommitMark -> Exported],
         blob : [FileMark -> Content], tag : [Branch -> Tip]]

\* The marker of what is absent is not a history.
NullIsNoHistory == Null \notin History

\* A sequence with one more element.
LEMMA AppendFacts ==
    ASSUME NEW S, NEW s \in Seq(S), NEW x \in S
    PROVE  /\ Append(s, x) \in Seq(S) /\ Append(s, x) # <<>>
           /\ Len(Append(s, x)) = Len(s) + 1 /\ Len(s) \in Nat
           /\ DOMAIN Append(s, x) = 1 .. Len(s) + 1 /\ DOMAIN s = 1 .. Len(s)
           /\ \A i \in 1 .. Len(s) : Append(s, x)[i] = s[i]
           /\ Append(s, x)[Len(s) + 1] = x
<1>1. Len(Append(s, x)) = Len(s) + 1 /\ Len(s) \in Nat /\ Len(<<>>) = 0
  OBVIOUS
<1>2. Append(s, x) # <<>>
  BY <1>1
<1>3. QED BY <1>1, <1>2

\* A process just started knows the marks of the disk and no branch.
LEMMA StartedFacts ==
    ASSUME NEW d \in Disk
    PROVE  LET p == Git!Started(d)
           IN  /\ p \in Process /\ p.mark = d.mark /\ p.blob = d.blob /\ ~ p.dead
               /\ p.del = {} /\ p.backup = {}
               /\ \A b \in Branch : p.tab[b] = Null /\ p.tag[b] = Null
BY DEF Git!Started, Process, Disk, Tip

\* The empty repository.
LEMMA EmptyDiskType == Git!EmptyDisk \in Disk
BY DEF Git!EmptyDisk, Disk, Tip, Exported, Content

\* A process that dies keeps what it knew.
LEMMA DieFacts ==
    ASSUME NEW f \in Process
    PROVE  LET p == Git!Die(f)
           IN  /\ p \in Process /\ p.dead
               /\ p.mark = f.mark /\ p.tab = f.tab /\ p.blob = f.blob
BY DEF Git!Die, Process

\* A checkpoint: the disk has the marks of the process, and of each branch the
\* process's tip, the one it had, or none.
LEMMA DumpFacts ==
    ASSUME NEW f \in Process, NEW d \in Disk
    PROVE  LET n == Git!Dump(f, d)
           IN  /\ n \in Disk /\ n.mark = f.mark /\ n.blob = f.blob
               /\ \A b \in Branch : n.ref[b] \in {f.tab[b], d.ref[b], Null}
BY DEF Git!Dump, Process, Disk, Tip

\* reloadBranches sets branches to commits that have a mark, and nothing else.
LEMMA ReloadedFacts ==
    ASSUME NEW f \in Process, NEW brs \in [Branch -> Entry]
    PROVE  LET p == Reloaded(f, brs)
           IN  /\ p \in Process /\ p.mark = f.mark /\ p.blob = f.blob
               /\ \A b \in Branch :
                      p.tab[b] = f.tab[b] \/ \E m \in CommitMark : p.tab[b] = f.mark[m]
<1> DEFINE last(b) == LastOf(brs[b].marks)
           loaded  == {b \in Branch : last(b) # 0}
           p       == Reloaded(f, brs)
<1>1. \A b \in loaded : last(b) \in CommitMark
  <2> SUFFICES ASSUME NEW b \in Branch, last(b) # 0 PROVE last(b) \in CommitMark
    OBVIOUS
  <2>1. brs[b].marks \in Seq(Mark) /\ brs[b].marks # <<>>
    BY DEF Entry, LastOf
  <2>2. Len(brs[b].marks) \in DOMAIN brs[b].marks
    BY <2>1
  <2>3. last(b) \in Mark
    BY <2>1, <2>2 DEF LastOf
  <2>4. QED BY <2>3, Bounds DEF Mark, CommitMark
<1> HIDE DEF last
<1>2. CASE \E b \in loaded : f.mark[last(b)] = Null
  BY <1>2, DieFacts DEF Reloaded, last
<1>3. CASE ~ \E b \in loaded : f.mark[last(b)] = Null
  <2>1. p = [f EXCEPT !.tab = [b \in Branch |-> IF b \in loaded THEN f.mark[last(b)] ELSE @[b]]]
    BY <1>3 DEF Reloaded, last
  <2>2. \A b \in loaded : f.mark[last(b)] \in Tip
    BY <1>1 DEF Process, Tip, Exported
  <2>3. QED BY <1>1, <2>1, <2>2 DEF Process
<1>4. QED BY <1>2, <1>3

\* What a process and what a disk hold of histories.
Live(p) == {p.mark[m] : m \in CommitMark} \cup {p.tab[b] : b \in Branch}
On(d)   == {d.mark[m] : m \in CommitMark} \cup {d.ref[b] : b \in Branch}

\* What a process knows are tips.
LEMMA LiveFacts ==
    ASSUME NEW p \in Process
    PROVE  /\ \A m \in CommitMark : p.mark[m] \in Live(p) /\ p.mark[m] \in Exported
           /\ \A b \in Branch : p.tab[b] \in Live(p) /\ p.tab[b] \in Tip
           /\ Live(p) \subseteq Tip
BY DEF Live, Process, Tip, Exported

\* What a disk holds are tips.
LEMMA OnFacts ==
    ASSUME NEW d \in Disk
    PROVE  /\ \A m \in CommitMark : d.mark[m] \in On(d) /\ d.mark[m] \in Exported
           /\ \A b \in Branch : d.ref[b] \in On(d) /\ d.ref[b] \in Tip
           /\ On(d) \subseteq Tip
BY DEF On, Disk, Tip, Exported

\* The process of the moment, or the one that is started and told where the branches are.
LEMMA RunningFacts ==
    ASSUME fi \in Process, disk \in Disk, NEW brs \in [Branch -> Entry]
    PROVE  LET p == Running(brs)
           IN  /\ p \in Process
               /\ processHasStarted => p = fi
               /\ ~ processHasStarted => p.mark = disk.mark /\ p.blob = disk.blob
               /\ ~ processHasStarted => Live(p) \subseteq On(disk) \cup {Null}
<1>1. CASE processHasStarted
  BY <1>1 DEF Running
<1>2. CASE ~ processHasStarted
  <2> DEFINE f == Git!Started(disk)
             p == Reloaded(f, brs)
  <2>1. f \in Process /\ f.mark = disk.mark /\ f.blob = disk.blob
        /\ \A b \in Branch : f.tab[b] = Null
    BY StartedFacts
  <2> HIDE DEF f
  <2>2. /\ p \in Process /\ p.mark = f.mark /\ p.blob = f.blob
        /\ \A b \in Branch :
               p.tab[b] = f.tab[b] \/ \E m \in CommitMark : p.tab[b] = f.mark[m]
    BY <2>1, ReloadedFacts
  <2> HIDE DEF p
  <2>3. Live(p) \subseteq On(disk) \cup {Null}
    BY <2>1, <2>2 DEF Live, On
  <2>4. Running(brs) = p
    BY <1>2 DEF Running, p, f
  <2>5. QED BY <1>2, <2>1, <2>2, <2>3, <2>4
<1>3. QED BY <1>1, <1>2

\* A name resolves to something the process or the disk has.
LEMMA RefTipFacts ==
    ASSUME NEW f \in Process, NEW d \in Disk, NEW b \in Branch
    PROVE  Git!RefTip(f, d, b) \in Tip /\ Git!RefTip(f, d, b) \in Live(f) \cup On(d)
BY LiveFacts, OnFacts DEF Git!RefTip

\* The three resets and the backup.
LEMMA ResetFacts ==
    ASSUME NEW f \in Process, NEW d \in Disk, NEW b \in Branch
    PROVE  /\ LET p == Git!ResetToNull(f, b)
              IN  /\ p \in Process /\ p.mark = f.mark /\ p.blob = f.blob
                  /\ Live(p) \subseteq Live(f) \cup {<<>>}
           /\ \A m \in CommitMark :
                 LET p == Git!ResetToMark(f, b, m)
                 IN  /\ p \in Process /\ p.mark = f.mark /\ p.blob = f.blob
                     /\ Live(p) \subseteq Live(f)
           /\ \A src \in Branch :
                 LET p == Git!ResetToRef(f, d, b, src)
                 IN  /\ p \in Process /\ p.mark = f.mark /\ p.blob = f.blob
                     /\ Live(p) \subseteq Live(f) \cup On(d)
           /\ \A r \in Nat :
                 LET p == Git!Backup(f, d, b, r)
                 IN  /\ p \in Process /\ p.mark = f.mark /\ p.blob = f.blob
                     /\ Live(p) \subseteq Live(f)
<1>1. LET p == Git!ResetToNull(f, b)
      IN  /\ p \in Process /\ p.mark = f.mark /\ p.blob = f.blob
          /\ Live(p) \subseteq Live(f) \cup {<<>>}
  <2>1. <<>> \in Tip
    BY DEF Tip, History
  <2> DEFINE p == Git!ResetToNull(f, b)
  <2>2. p \in Process /\ p.mark = f.mark /\ p.blob = f.blob
    BY <2>1 DEF Git!ResetToNull, Process
  <2>3. \A c \in Branch : p.tab[c] \in {f.tab[c], <<>>}
    BY DEF Git!ResetToNull, Process
  <2>4. QED BY <2>2, <2>3 DEF Live
<1>2. ASSUME NEW m \in CommitMark
      PROVE  LET p == Git!ResetToMark(f, b, m)
             IN  /\ p \in Process /\ p.mark = f.mark /\ p.blob = f.blob
                 /\ Live(p) \subseteq Live(f)
  <2>1. f.mark[m] \in Tip
    BY LiveFacts
  <2> DEFINE p == Git!ResetToMark(f, b, m)
  <2>2. CASE f.mark[m] = Null
    BY <2>2, DieFacts DEF Git!ResetToMark, Live
  <2>3. CASE f.mark[m] # Null
    <3>1. p = [f EXCEPT !.tab[b] = f.mark[m]]
      BY <2>3 DEF Git!ResetToMark
    <3>2. p \in Process /\ p.mark = f.mark /\ p.blob = f.blob
      BY <2>1, <3>1 DEF Process
    <3>3. \A c \in Branch : p.tab[c] \in {f.tab[c], f.mark[m]}
      BY <3>1 DEF Process
    <3>4. QED BY <3>2, <3>3 DEF Live
  <2>4. QED BY <2>2, <2>3
<1>3. ASSUME NEW src \in Branch
      PROVE  LET p == Git!ResetToRef(f, d, b, src)
             IN  /\ p \in Process /\ p.mark = f.mark /\ p.blob = f.blob
                 /\ Live(p) \subseteq Live(f) \cup On(d)
  <2> DEFINE p == Git!ResetToRef(f, d, b, src)
             t == Git!RefTip(f, d, src)
  <2>1. t \in Tip /\ t \in Live(f) \cup On(d)
    BY RefTipFacts
  <2>2. CASE b = src \/ t = Null
    BY <2>2, DieFacts DEF Git!ResetToRef, Live
  <2>3. CASE ~ (b = src \/ t = Null)
    <3>1. p = [f EXCEPT !.tab[b] = t]
      BY <2>3 DEF Git!ResetToRef
    <3> HIDE DEF t, p
    <3>2. p \in Process /\ p.mark = f.mark /\ p.blob = f.blob
      BY <2>1, <3>1 DEF Process
    <3>3. \A c \in Branch : p.tab[c] \in {f.tab[c], t}
      BY <3>1 DEF Process
    <3>4. Live(p) \subseteq Live(f) \cup On(d)
      BY <2>1, <3>2, <3>3 DEF Live
    <3>5. QED BY <3>2, <3>4 DEF p
  <2>4. QED BY <2>2, <2>3
<1>4. ASSUME NEW r \in Nat
      PROVE  LET p == Git!Backup(f, d, b, r)
             IN  /\ p \in Process /\ p.mark = f.mark /\ p.blob = f.blob
                 /\ Live(p) \subseteq Live(f)
  <2> DEFINE p == Git!Backup(f, d, b, r)
             t == Git!RefTip(f, d, b)
             k == [branch |-> b, rev |-> r, tip |-> t]
  <2>1. t \in Tip
    BY RefTipFacts
  <2>2. CASE t = Null
    BY <2>2, DieFacts DEF Git!Backup, Live
  <2>3. CASE t # Null
    <3>1. k \in Saved
      BY <2>1 DEF Saved
    <3>2. p = [f EXCEPT !.backup = {n \in @ : <<n.branch, n.rev>> # <<b, r>>} \cup {k}]
      BY <2>3 DEF Git!Backup
    <3> HIDE DEF k, p
    <3>3. p \in Process /\ p.mark = f.mark /\ p.blob = f.blob /\ p.tab = f.tab
      BY <3>1, <3>2 DEF Process
    <3>4. QED BY <3>3 DEF Live, p
  <2>4. QED BY <2>2, <2>3
<1>5. QED BY <1>1, <1>2, <1>3, <1>4

\* A commit, of anything with a revision, on what the table has for the branch.
LEMMA CommitFacts ==
    ASSUME NullIsNoHistory, NEW f \in Process, NEW b \in Branch, NEW m \in CommitMark,
           NEW c \in Commitment
    PROVE  LET p      == Git!Commit(f, b, m, c)
               parent == IF f.tab[b] = Null THEN <<>> ELSE f.tab[b]
               new    == Append(parent, c)
           IN  /\ p \in Process /\ p.blob = f.blob /\ p.dead = f.dead
               /\ parent \in History /\ new \in Exported \ {Null} /\ new # <<>>
               /\ \A n \in CommitMark : p.mark[n] = IF n = m THEN new ELSE f.mark[n]
               /\ \A a \in Branch : p.tab[a] = IF a = b THEN new ELSE f.tab[a]
               /\ Live(p) \subseteq Live(f) \cup {new}
<1> DEFINE p      == Git!Commit(f, b, m, c)
           parent == IF f.tab[b] = Null THEN <<>> ELSE f.tab[b]
           new    == Append(parent, c)
<1>1. parent \in History
  <2>1. <<>> \in History /\ f.tab[b] \in Tip
    BY LiveFacts DEF History
  <2>2. QED BY <2>1 DEF Tip
<1>2. new \in History /\ new # <<>>
  <2>1. \A s \in Seq(Commitment) : Append(s, c) \in Seq(Commitment) /\ Append(s, c) # <<>>
    BY AppendFacts
  <2>2. QED BY <1>1, <2>1 DEF History
<1>3. new \in Exported /\ new # Null /\ new \in Tip
  BY <1>2 DEF NullIsNoHistory, Exported, Tip
<1>4. p = [f EXCEPT !.tab[b] = new, !.mark[m] = new]
  BY DEF Git!Commit
<1> HIDE DEF p, new
<1>5. /\ p \in Process /\ p.blob = f.blob /\ p.dead = f.dead
      /\ \A n \in CommitMark : p.mark[n] = IF n = m THEN new ELSE f.mark[n]
      /\ \A a \in Branch : p.tab[a] = IF a = b THEN new ELSE f.tab[a]
  BY <1>3, <1>4 DEF Process
<1>6. Live(p) \subseteq Live(f) \cup {new}
  BY <1>5 DEF Live
<1>7. QED BY <1>1, <1>2, <1>3, <1>5, <1>6 DEF p, new

\* A blob changes no branch and no commit mark.
LEMMA BlobFacts ==
    ASSUME NEW f \in Process, NEW m \in FileMark, NEW x \in Content
    PROVE  LET p == Git!Blob(f, m, x)
           IN  /\ p \in Process /\ p.mark = f.mark /\ p.tab = f.tab /\ Live(p) = Live(f)
               /\ p.dead = f.dead
BY DEF Git!Blob, Process, Live

\* The annotated tags change no branch and no commit mark.
LEMMA TagFacts ==
    ASSUME NEW f \in Process, NEW d \in Disk, NEW tags
    PROVE  LET p == Git!Tag(f, d, tags)
           IN  /\ p \in Process /\ p.mark = f.mark /\ p.blob = f.blob /\ p.tab = f.tab
               /\ Live(p) = Live(f)
<1> DEFINE p == Git!Tag(f, d, tags)
<1>1. CASE \E b \in tags : Git!RefTip(f, d, b) \in {Null, <<>>}
  BY <1>1, DieFacts DEF Git!Tag, Live
<1>2. CASE ~ \E b \in tags : Git!RefTip(f, d, b) \in {Null, <<>>}
  <2>1. p = [f EXCEPT !.tag = [b \in Branch |->
               IF b \in tags THEN Git!RefTip(f, d, b) ELSE @[b]]]
    BY <1>2 DEF Git!Tag
  <2>2. \A b \in Branch : Git!RefTip(f, d, b) \in Tip
    BY RefTipFacts
  <2>3. p \in Process /\ p.mark = f.mark /\ p.blob = f.blob /\ p.tab = f.tab
    BY <2>1, <2>2 DEF Process
  <2>4. QED BY <2>3 DEF Live
<1>3. QED BY <1>1, <1>2

\* A checkpoint puts on disk only what the process or the disk had.
LEMMA DumpKeeps ==
    ASSUME NEW f \in Process, NEW d \in Disk
    PROVE  On(Git!Dump(f, d)) \subseteq Live(f) \cup On(d) \cup {Null}
<1> DEFINE n == Git!Dump(f, d)
<1>1. n.mark = f.mark /\ \A b \in Branch : n.ref[b] \in {f.tab[b], d.ref[b], Null}
  BY DumpFacts
<1> HIDE DEF n
<1>2. On(n) \subseteq Live(f) \cup On(d) \cup {Null}
  BY <1>1 DEF On, Live
<1>3. QED BY <1>2 DEF n

-----------------------------------------------------------------------------
(* Marks *)

\* No mark is used before it is given to a commit.
Used(cmds) == \A i \in 1 .. Len(cmds) : cmds[i].mark <= last_commit_mark
UsedMarks ==
    /\ \A b \in Branch : \A i \in 1 .. Len(branches[b].marks) :
          branches[b].marks[i] <= last_commit_mark
    /\ Used(queue) /\ Used(deletedBranches) /\ Used(resetBranches)

\* markFrom never answers with a mark that no commit has.
LEMMA MarkFromUsed ==
    ASSUME IInv, UsedMarks, NEW from \in Branch, NEW at
    PROVE  MarkFrom(branches, from, at) <= last_commit_mark
<1> DEFINE br     == branches[from]
           before == {i \in DOMAIN br.commits : br.commits[i] <= at}
<1>1. br \in Entry /\ DOMAIN br.commits = 1 .. Len(br.marks) /\ Len(br.marks) \in Nat
  BY DEF Entry, IInv, MemoryOK
<1>2. before \subseteq 1 .. Len(br.marks)
  BY <1>1
<1>3. last_commit_mark \in Nat
  BY Bounds DEF IInv, MemoryOK, Mark
<1>4. CASE before = {}
  BY <1>3, <1>4 DEF MarkFrom
<1>5. CASE before # {}
  <2> DEFINE last == CHOOSE i \in before : \A j \in before : j <= i
  <2>1. \E i \in before : \A j \in before : j <= i
    BY <1>1, <1>2, <1>5, Greatest
  <2>2. last \in 1 .. Len(br.marks)
    BY <1>2, <2>1
  <2> HIDE DEF last
  <2>3. br.marks[last] <= last_commit_mark
    BY <2>2 DEF UsedMarks
  <2>4. MarkFrom(branches, from, at) = -1 \/ MarkFrom(branches, from, at) = br.marks[last]
    BY <1>5 DEF MarkFrom, last
  <2>5. QED BY <1>3, <2>3, <2>4
<1>6. QED BY <1>4, <1>5

\* One more mark for a branch, among those in use.
LEMMA ExtendedMarks ==
    ASSUME NEW br \in Entry, NEW r \in Nat, NEW m \in Mark, NEW created \in Nat, NEW n,
           \A i \in 1 .. Len(br.marks) : br.marks[i] <= n, m <= n
    PROVE  LET x == Extended(br, r, m, created)
           IN  \A i \in 1 .. Len(x.marks) : x.marks[i] <= n
<1> DEFINE x == Extended(br, r, m, created)
<1>1. x.marks = Append(br.marks, m) /\ br.marks \in Seq(Mark)
  BY DEF Extended, Entry
<1>2. /\ Len(x.marks) = Len(br.marks) + 1 /\ Len(br.marks) \in Nat
      /\ \A i \in 1 .. Len(br.marks) : x.marks[i] = br.marks[i]
      /\ x.marks[Len(br.marks) + 1] = m
  BY <1>1, AppendFacts
<1> HIDE DEF x
<1>3. \A i \in 1 .. Len(x.marks) : i \in 1 .. Len(br.marks) \/ i = Len(br.marks) + 1
  BY <1>2
<1>4. \A i \in 1 .. Len(x.marks) : x.marks[i] <= n
  BY <1>2, <1>3
<1>5. QED BY <1>4 DEF x

\* A branch that is extended, a mark that may have been given to a commit.
LEMMA ExtendUsed ==
    ASSUME NEW brs \in [Branch -> Entry], NEW n, NEW b \in Branch,
           \A c \in Branch : \A i \in 1 .. Len(brs[c].marks) : brs[c].marks[i] <= n,
           NEW r \in Nat, NEW m \in Mark, NEW created \in Nat, m <= n,
           NEW next, next = [brs EXCEPT ![b] = Extended(brs[b], r, m, created)]
    PROVE  \A c \in Branch : \A i \in 1 .. Len(next[c].marks) : next[c].marks[i] <= n
<1>1. brs[b] \in Entry
  OBVIOUS
<1> DEFINE x == Extended(brs[b], r, m, created)
<1>2. \A i \in 1 .. Len(x.marks) : x.marks[i] <= n
  BY <1>1, ExtendedMarks
<1> HIDE DEF x
<1>3. \A c \in Branch : next[c] = IF c = b THEN x ELSE brs[c]
  BY DEF x
<1>4. QED BY <1>2, <1>3

\* Looking a name up leaves the commits and marks of every branch alone.
LEMMA LookedUpMarks ==
    ASSUME NEW brs \in [Branch -> Entry], NEW a
    PROVE  /\ \A c \in Branch : /\ LookedUp(brs, a)[c].marks = brs[c].marks
                                /\ LookedUp(brs, a)[c].commits = brs[c].commits
                                /\ LookedUp(brs, a)[c].created = brs[c].created
BY DEF LookedUp, Entry

\* One more command, with a mark in use.
LEMMA AppendUsed ==
    ASSUME NEW S, NEW q \in Seq(S), NEW c \in S, Used(q), c.mark <= last_commit_mark
    PROVE  Used(Append(q, c))
<1>1. /\ Len(Append(q, c)) = Len(q) + 1 /\ Len(q) \in Nat
      /\ \A i \in 1 .. Len(q) : Append(q, c)[i] = q[i]
      /\ Append(q, c)[Len(q) + 1] = c
  BY AppendFacts
<1> DEFINE n == Append(q, c)
<1> HIDE DEF n
<1>2. \A i \in 1 .. Len(n) : i \in 1 .. Len(q) \/ i = Len(q) + 1
  BY <1>1 DEF n
<1>3. \A i \in 1 .. Len(n) : n[i].mark <= last_commit_mark
  BY <1>1, <1>2 DEF Used, n
<1>4. QED BY <1>3 DEF Used, n

\* Nothing is queued and no branch has marks.
LEMMA NothingUsed ==
    /\ \A b \in Branch : Len(InitialBranches[b].marks) = 0
    /\ Len(<<>>) = 0
BY DEF InitialBranches, EmptyBranch

\* resetBranch.
LEMMA ResetUsed ==
    ASSUME IInv, IInv', UsedMarks, phase = "prepare", UNCHANGED <<queue, last_commit_mark>>,
           NEW b \in Branch, NEW mark \in Mark, mark <= last_commit_mark,
           NEW to \in Branch \cup {Null}, NEW brs \in [Branch -> Entry],
           \A c \in Branch : brs[c].marks = branches[c].marks,
           ResetBranch(b, mark, to, brs)
    PROVE  UsedMarks'
<1> DEFINE cmd == [branch |-> b, rev |-> rev, mark |-> mark, to |-> to,
                   backup |-> NeedsBackup(brs[b])]
<1>1. /\ branches' = [brs EXCEPT ![b] = Extended(brs[b], rev, mark, rev)]
      /\ \/ deletedBranches' = Append(deletedBranches, cmd) /\ resetBranches' = resetBranches
         \/ resetBranches' = Append(resetBranches, cmd) /\ deletedBranches' = deletedBranches
  BY DEF ResetBranch
<1>2. rev \in Nat
  BY Bounds DEF IInv, DriverOK
<1>3. \A c \in Branch : \A i \in 1 .. Len(brs[c].marks) : brs[c].marks[i] <= last_commit_mark
  BY DEF UsedMarks
<1>4. \A c \in Branch : \A i \in 1 .. Len(branches'[c].marks) :
          branches'[c].marks[i] <= last_commit_mark
  BY <1>1, <1>2, <1>3, ExtendUsed
<1>5. cmd \in Command(rev)
  BY <1>2 DEF Command, NeedsBackup, HasTip
<1>6. cmd.mark = mark
  OBVIOUS
<1> HIDE DEF cmd
<1>7. /\ Used(Append(deletedBranches, cmd)) /\ Used(Append(resetBranches, cmd))
      /\ Used(deletedBranches) /\ Used(resetBranches) /\ Used(queue)
  BY <1>5, <1>6, AppendUsed DEF UsedMarks, IInv, QueuesOK
<1>8. QED BY <1>1, <1>4, <1>7 DEF UsedMarks, Used

\* Every step of the converter keeps UsedMarks: marks are handed out in order by
\* Transaction::commit, and everything else uses marks that were handed out.
LEMMA UsedStep ==
    ASSUME IInv, IInv', UsedMarks, [Next]_vars
    PROVE  UsedMarks'
<1>1. last_commit_mark \in Mark /\ last_commit_mark' \in Mark /\ branches \in [Branch -> Entry]
      /\ rev \in Nat /\ Mark \subseteq Nat
  BY Bounds DEF IInv, MemoryOK, DriverOK, Mark
<1>2. CASE RestoreLine
  <2> DEFINE line == log[pos + 1]
             br   == branches[line.branch]
             made == IF ~ HasTip(br) \/ line.mark = 0 THEN line.rev ELSE br.created
  <2>1. /\ phase = "down" /\ pos < Len(log)
        /\ branches' = [branches EXCEPT ![line.branch] = Restored(br, line)]
        /\ last_commit_mark' = HighestMark(line.mark)
        /\ UNCHANGED <<deletedBranches, resetBranches, queue>>
    BY <1>2 DEF RestoreLine, driver
  <2>2. line \in Line
    BY <2>1 DEF IInv, LogOK
  <2>3. line.branch \in Branch /\ line.mark \in Mark /\ line.rev \in Nat
    BY <2>2 DEF Line
  <2>4. br \in Entry /\ made \in Nat
    BY <1>1, <2>3 DEF Entry
  <2>5. Restored(br, line) = Extended(br, line.rev, line.mark, made)
    BY DEF Restored
  <2> HIDE DEF line, made
  <2>6. last_commit_mark <= last_commit_mark' /\ line.mark <= last_commit_mark'
    <3>1. line.mark \in Nat /\ last_commit_mark \in Nat
      BY <1>1, <2>3
    <3>2. CASE last_commit_mark < line.mark
      BY <2>1, <3>1, <3>2 DEF HighestMark
    <3>3. CASE ~ (last_commit_mark < line.mark)
      BY <2>1, <3>1, <3>3 DEF HighestMark
    <3>4. QED BY <3>2, <3>3
  <2>7. \A c \in Branch : \A i \in 1 .. Len(branches[c].marks) :
            branches[c].marks[i] <= last_commit_mark'
    <3> SUFFICES ASSUME NEW c \in Branch, NEW i \in 1 .. Len(branches[c].marks)
                 PROVE  branches[c].marks[i] <= last_commit_mark'
      OBVIOUS
    <3>1. branches[c].marks[i] <= last_commit_mark
      BY DEF UsedMarks
    <3>2. branches[c].marks[i] \in Mark
      <4>1. branches[c].marks \in Seq(Mark)
        BY <1>1 DEF Entry
      <4>2. QED BY <4>1
    <3>3. branches[c].marks[i] \in Nat
      BY <3>2, Bounds DEF Mark
    <3>4. QED BY ONLY <1>1, <2>6, <3>1, <3>3
  <2>8. \A c \in Branch : \A i \in 1 .. Len(branches'[c].marks) :
            branches'[c].marks[i] <= last_commit_mark'
    <3>1. branches' = [branches EXCEPT ![line.branch] = Extended(branches[line.branch], line.rev, line.mark, made)]
      BY <2>1, <2>5
    <3> HIDE DEF br
    <3>2. QED BY <1>1, <2>3, <2>4, <2>6, <2>7, <3>1, ExtendUsed
  <2>9. queue' = <<>> /\ deletedBranches' = <<>> /\ resetBranches' = <<>>
    BY <2>1 DEF IInv, QueuesOK
  <2>10. QED BY <2>8, <2>9, NothingUsed DEF UsedMarks, Used
<1>3. CASE /\ UNCHANGED <<last_commit_mark, branches>>
           /\ queue' \in {queue, <<>>} \/ (queue # <<>> /\ queue' = Tail(queue))
           /\ deletedBranches' \in {deletedBranches, <<>>}
           /\ resetBranches' \in {resetBranches, <<>>}
  <2>1. queue # <<>> => Used(Tail(queue))
    <3> SUFFICES ASSUME queue # <<>> PROVE Used(Tail(queue))
      OBVIOUS
    <3>1. queue \in Seq(Command(rev))
      BY DEF IInv, QueuesOK
    <3>2. /\ Len(Tail(queue)) = Len(queue) - 1 /\ Len(queue) \in Nat
          /\ \A i \in 1 .. Len(queue) - 1 : Tail(queue)[i] = queue[i + 1]
      BY <3>1
    <3>3. QED BY <3>2 DEF Used, UsedMarks
  <2>2. QED BY <1>3, <2>1, NothingUsed DEF UsedMarks, Used
<1>4. CASE CreateBranch
  <2> DEFINE op   == Head(todo)
             mark == MarkFrom(branches, op.from, op.at)
             brs  == LookedUp(branches, op.from)
  <2>1. /\ phase = "prepare" /\ op \in Operation /\ op.kind = "copy"
        /\ UNCHANGED <<queue, last_commit_mark>>
    BY <1>4, NextOperation DEF CreateBranch, NextIs, marking
  <2>2. op.branch \in Branch /\ op.from \in Branch
    BY <2>1 DEF Operation, Op
  <2>3. /\ mark \in Mark \cup {-1} /\ mark <= last_commit_mark
        /\ brs \in [Branch -> Entry] /\ \A c \in Branch : brs[c].marks = branches[c].marks
    BY <1>1, <2>2, MarkFromType, MarkFromUsed, LookedUpType, LookedUpMarks
  <2>4. CASE mark = -1
    <3>1. branches' = brs /\ UNCHANGED <<resetBranches, deletedBranches>>
      BY <1>4, <2>4 DEF CreateBranch
    <3>2. QED BY <2>1, <2>3, <3>1 DEF UsedMarks, Used
  <2>5. CASE mark # -1
    <3>1. ResetBranch(op.branch, mark, op.from, brs) /\ mark \in Mark
      BY <1>4, <2>3, <2>5 DEF CreateBranch
    <3> HIDE DEF mark, brs
    <3>2. QED BY <2>1, <2>2, <2>3, <3>1, ResetUsed
  <2>6. QED BY <2>4, <2>5
<1>5. CASE DeleteBranch
  <2> DEFINE b == Head(todo).branch
  <2>1. /\ phase = "prepare" /\ b \in Branch /\ ResetBranch(b, 0, Null, branches)
        /\ UNCHANGED <<queue, last_commit_mark>>
    BY <1>5, NextOperation DEF DeleteBranch, NextIs, Operation, Op, marking
  <2>2. 0 \in Mark /\ 0 <= last_commit_mark
    BY <1>1, Bounds
  <2>3. QED BY <1>1, <2>1, <2>2, ResetUsed
<1>6. CASE ChangeFile
  <2> DEFINE op == Head(todo)
  <2>1. /\ branches' = branches \/ branches' = LookedUp(branches, op.from)
        /\ UNCHANGED <<queue, deletedBranches, resetBranches, last_commit_mark>>
    BY <1>6 DEF ChangeFile
  <2>2. \A c \in Branch : branches'[c].marks = branches[c].marks
    BY <1>1, <2>1, LookedUpMarks
  <2>3. QED BY <2>1, <2>2 DEF UsedMarks, Used
<1>7. CASE Flush
  <2>1. /\ queue' = deletedBranches \o resetBranches
        /\ deletedBranches' = <<>> /\ resetBranches' = <<>>
        /\ UNCHANGED <<branches, last_commit_mark>>
    BY <1>7 DEF Flush, marking
  <2> DEFINE d == deletedBranches
             r == resetBranches
  <2>2. /\ d \in Seq(Command(rev)) /\ r \in Seq(Command(rev))
    BY DEF IInv, QueuesOK
  <2>3. /\ Len(d \o r) = Len(d) + Len(r) /\ Len(d) \in Nat /\ Len(r) \in Nat
        /\ \A i \in 1 .. Len(d) : (d \o r)[i] = d[i]
        /\ \A i \in Len(d) + 1 .. Len(d) + Len(r) : (d \o r)[i] = r[i - Len(d)]
    BY <2>2, ConcatProperties
  <2>4. \A i \in 1 .. Len(d) + Len(r) : (d \o r)[i].mark <= last_commit_mark
    <3> SUFFICES ASSUME NEW i \in 1 .. Len(d) + Len(r)
                 PROVE  (d \o r)[i].mark <= last_commit_mark
      OBVIOUS
    <3>1. CASE i <= Len(d)
      BY <2>3, <3>1 DEF UsedMarks, Used
    <3>2. CASE ~ (i <= Len(d))
      <4>1. i - Len(d) \in 1 .. Len(r) /\ (d \o r)[i] = r[i - Len(d)]
        BY <2>3, <3>2
      <4>2. QED BY <4>1 DEF UsedMarks, Used
    <3>3. QED BY <3>1, <3>2
  <2>5. QED BY <2>1, <2>3, <2>4, NothingUsed DEF UsedMarks, Used
<1>8. ASSUME NEW txn \in transactions, CommitTransaction(txn)
      PROVE  UsedMarks'
  <2> DEFINE b       == txn.branch
             br      == branches[b]
             mark    == last_commit_mark + 1
             created == IF HasTip(br) THEN br.created ELSE rev
  <2>1. b \in Branch /\ br \in Entry
    BY <1>1 DEF IInv, TransactionsOK, Transaction
  <2>2. CASE InConflict(b)
    <3>1. UNCHANGED <<branches, last_commit_mark, queue, deletedBranches, resetBranches>>
      BY <1>8, <2>2 DEF CommitTransaction, marking
    <3>2. QED BY <3>1 DEF UsedMarks, Used
  <2>3. CASE ~ InConflict(b)
    <3>1. /\ mark \in CommitMark /\ last_commit_mark' = mark
          /\ branches' = [branches EXCEPT ![b] = Extended(branches[b], rev, mark, created)]
          /\ UNCHANGED <<queue, deletedBranches, resetBranches>> /\ phase = "commit"
          /\ queue = <<>>
      BY <1>8, <2>3 DEF CommitTransaction
    <3>2. deletedBranches = <<>> /\ resetBranches = <<>>
      BY <3>1 DEF IInv, QueuesOK
    <3>3. created \in Nat /\ mark \in Mark /\ mark <= last_commit_mark'
      BY <1>1, <2>1, <3>1, Bounds DEF Entry, Mark, CommitMark
    <3>4. \A c \in Branch : \A i \in 1 .. Len(branches[c].marks) :
              branches[c].marks[i] <= last_commit_mark'
      <4> SUFFICES ASSUME NEW c \in Branch, NEW i \in 1 .. Len(branches[c].marks)
                   PROVE  branches[c].marks[i] <= last_commit_mark'
        OBVIOUS
      <4>1. branches[c].marks[i] <= last_commit_mark
        BY DEF UsedMarks
      <4>2. branches[c].marks[i] \in Mark
        <5>1. branches[c].marks \in Seq(Mark)
          BY <1>1 DEF Entry
        <5>2. QED BY <5>1
      <4>3. QED BY <1>1, <3>1, <4>1, <4>2
    <3> HIDE DEF created, mark, br, b
    <3>5. \A c \in Branch : \A i \in 1 .. Len(branches'[c].marks) :
              branches'[c].marks[i] <= last_commit_mark'
      <4>1. branches' = [branches EXCEPT ![b] = Extended(branches[b], rev, mark, created)]
        BY <3>1
      <4> DEFINE n == last_commit_mark'
                 next == branches'
      <4>2. /\ branches \in [Branch -> Entry] /\ b \in Branch /\ rev \in Nat
            /\ mark \in Mark /\ created \in Nat /\ mark <= n
            /\ next = [branches EXCEPT ![b] = Extended(branches[b], rev, mark, created)]
            /\ \A c \in Branch : \A i \in 1 .. Len(branches[c].marks) :
                  branches[c].marks[i] <= n
        BY <1>1, <2>1, <3>3, <3>4, <4>1
      <4> HIDE DEF n, next
      <4>3. \A c \in Branch : \A i \in 1 .. Len(next[c].marks) : next[c].marks[i] <= n
        BY ONLY <4>2, ExtendUsed
      <4>4. QED BY <4>3 DEF n, next
    <3>6. QED BY <3>1, <3>2, <3>5, NothingUsed DEF UsedMarks, Used
  <2>4. QED BY <2>2, <2>3
<1>9. ASSUME Gone PROVE UsedMarks'
  BY <1>9, NothingUsed DEF Gone, UsedMarks, Used
<1>10. CASE \E kind \in CrashKinds : Crash(kind)
  BY <1>9, <1>10 DEF Crash
<1>11. CASE Finish
  <2>1. Gone \/ UNCHANGED <<memory, queue>>
    BY <1>11 DEF Finish
  <2>2. QED BY <1>3, <1>9, <2>1 DEF memory
<1>12. CASE StartExport \/ BeginRevision \/ WriteReset \/ EndRevision \/ Evict \/ UNCHANGED vars
  BY <1>3, <1>12 DEF StartExport, BeginRevision, WriteReset, EndRevision, Evict, vars, memory,
                     marking, driver
<1>13. QED BY <1>2, <1>4, <1>5, <1>6, <1>7, <1>8, <1>10, <1>11, <1>12 DEF Next

-----------------------------------------------------------------------------
(* Histories *)

\* The types of the process, the disk and the open transactions, and when there is no process.
StoreOK ==
    /\ fi \in Process /\ disk \in Disk
    /\ \A t \in transactions : t.merges \subseteq CommitMark /\ t.files \subseteq FileMark
    /\ phase # "commit" => queue = <<>>
    /\ queue # <<>> => processHasStarted
    /\ phase = "down" => ~ processHasStarted
    /\ ~ processHasStarted => fi = Git!Started(Git!EmptyDisk)

\* A history in the order of revisions, without repetition; one from before r; a mark
\* table without gaps.
Rising(h)    == \A i, j \in DOMAIN h : i < j => h[i].rev < h[j].rev
Before(h, r) == \A i \in DOMAIN h : h[i].rev < r
Gapless(t)   == \A m \in CommitMark : t[m] # Null => \A k \in 1 .. m : t[k] # Null

\* The histories that are on disk, and those that are there or in the process.
OnDisk == On(disk) \ {Null}
Known  == (Live(fi) \cup On(disk)) \ {Null}

\* A line of the log for each commit.
HasLine(h) == \A i \in DOMAIN h : \E j \in 1 .. Len(log) : log[j].rev = h[i].rev

\* No history there is has a revision twice, and each of its commits was logged.
OneLine == \A h \in Known : Rising(h) /\ HasLine(h)

\* What the revision being exported can still commit is not there yet: before its commits
\* nothing of it is, and no open transaction finds its own commit on its branch.
FutureOK ==
    /\ phase \in {"idle", "prepare"} => \A h \in Known : Before(h, rev)
    /\ phase = "failed" /\ transactions = {} => \A h \in Known : Before(h, rev)
    /\ phase = "commit" =>
          /\ \A h \in Known : Before(h, rev + 1)
          /\ queue # <<>> => \A h \in Known : Before(h, rev)
          /\ \A h \in OnDisk : Before(h, rev)
          /\ \A t \in transactions :
                fi.tab[t.branch] # Null => Before(fi.tab[t.branch], rev)

\* How much of the log the converter has read.
LinesRead == IF phase = "down" THEN pos ELSE Len(log)

\* The marks in use are in the table, the tables have no gaps, and a line of the log whose
\* mark never reached the disk is later than all that did: an interrupt loses a suffix.
MarksKept ==
    /\ \A j \in 1 .. LinesRead : log[j].mark <= last_commit_mark
    /\ \A m \in 1 .. last_commit_mark : MarkTable[m] # Null
    /\ Gapless(disk.mark) /\ Gapless(fi.mark)
    /\ \A j \in 1 .. Len(log) : log[j].mark # 0 /\ disk.mark[log[j].mark] = Null
          => \A h \in OnDisk : Before(h, log[j].rev)

\* The inductive invariant of NoCommitTwice.
OnceInv == /\ StoreOK /\ OneLine
           /\ fi.dead \/ (FutureOK /\ MarksKept)

\* The history of an unborn branch.
LEMMA EmptyHistory == Rising(<<>>) /\ HasLine(<<>>) /\ \A r : Before(<<>>, r)
BY DEF Rising, HasLine, Before

\* A commit of a later revision on top of a history.
LEMMA RisingAppend ==
    ASSUME NEW h \in History, NEW c \in Commitment, Rising(h), Before(h, c.rev)
    PROVE  Rising(Append(h, c)) /\ Before(Append(h, c), c.rev + 1)
<1> DEFINE n == Append(h, c)
<1>1. /\ DOMAIN n = 1 .. Len(h) + 1 /\ DOMAIN h = 1 .. Len(h) /\ Len(h) \in Nat
      /\ \A i \in 1 .. Len(h) : n[i] = h[i]
      /\ n[Len(h) + 1] = c
  BY AppendFacts DEF History
<1>2. c.rev \in Nat /\ \A i \in 1 .. Len(h) : h[i].rev \in Nat
  <2>1. \A i \in 1 .. Len(h) : h[i] \in Commitment
    BY DEF History
  <2>2. QED BY <2>1 DEF Commitment
<1> HIDE DEF n
<1>3. Before(n, c.rev + 1)
  BY <1>1, <1>2 DEF Before
<1>4. Rising(n)
  <2> SUFFICES ASSUME NEW i \in 1 .. Len(h) + 1, NEW j \in 1 .. Len(h) + 1, i < j
               PROVE  n[i].rev < n[j].rev
    BY <1>1 DEF Rising
  <2>1. i \in 1 .. Len(h)
    BY <1>1
  <2>2. CASE j = Len(h) + 1
    BY <1>1, <2>1, <2>2 DEF Before
  <2>3. CASE j # Len(h) + 1
    BY <1>1, <2>1, <2>3 DEF Rising
  <2>4. QED BY <2>2, <2>3
<1>5. QED BY <1>3, <1>4 DEF n

\* The last commit of a history has a branch and a revision.
LEMMA HeadOfType ==
    ASSUME NEW h \in History, h # <<>>
    PROVE  HeadOf(h) \in Branch \X Nat
<1>1. Len(h) \in DOMAIN h
  BY DEF History
<1>2. h[Len(h)] \in Commitment
  BY <1>1 DEF History
<1>3. QED BY <1>2 DEF HeadOf, Commitment

\* Nothing is running: nothing is known but what is on disk.
LEMMA NothingRunning ==
    LET p == Git!Started(Git!EmptyDisk)
    IN  /\ p \in Process /\ Live(p) \subseteq {Null} /\ ~ p.dead
        /\ \A m \in CommitMark : p.mark[m] = Null
        /\ \A b \in Branch : p.tab[b] = Null
<1>1. Git!EmptyDisk \in Disk /\ \A m \in CommitMark : Git!EmptyDisk.mark[m] = Null
  BY EmptyDiskType DEF Git!EmptyDisk
<1>2. QED BY <1>1, StartedFacts DEF Live

\* The marks gaplessly known.
LEMMA LastValidRange ==
    ASSUME NEW d \in Disk
    PROVE  LET L == LastValidMark(d)
           IN  /\ L \in 0 .. MaxCommitMark
               /\ \A k \in 1 .. L : d.mark[k] # Null
               /\ L < MaxCommitMark => d.mark[L + 1] = Null
<1> DEFINE good(n) == (\A k \in 1 .. n : d.mark[k] # Null)
           lost    == {k \in 1 .. MaxCommitMark : d.mark[k] = Null}
           L       == LastValidMark(d)
<1>1. MaxCommitMark \in Nat
  BY Bounds
<1>2. \E x \in 0 .. MaxCommitMark : good(x) /\ (x < MaxCommitMark => d.mark[x + 1] = Null)
  <2>1. CASE lost = {}
    <3>1. good(MaxCommitMark)
      BY <2>1
    <3>2. QED BY <1>1, <3>1
  <2>2. CASE lost # {}
    <3>1. \E i \in lost : \A j \in lost : i <= j
      <4>1. lost \subseteq Nat
        BY <1>1
      <4> HIDE DEF lost
      <4>2. QED BY <2>2, <4>1, Least
    <3>2. PICK i \in lost : \A j \in lost : i <= j
      BY <3>1
    <3>3. i - 1 \in 0 .. MaxCommitMark /\ d.mark[(i - 1) + 1] = Null
      BY <1>1, <3>2
    <3>4. good(i - 1)
      BY <1>1, <3>2
    <3>5. QED BY <3>3, <3>4
  <2>3. QED BY <2>1, <2>2
<1>3. QED BY <1>2 DEF LastValidMark

\* lastValidMark, for a table without gaps: the marks up to it are those in the table.
LEMMA LastValid ==
    ASSUME NEW d \in Disk, Gapless(d.mark), NEW m \in CommitMark
    PROVE  m <= LastValidMark(d) <=> d.mark[m] # Null
<1> DEFINE L == LastValidMark(d)
<1>1. MaxCommitMark \in Nat
  BY Bounds
<1>7. /\ L \in 0 .. MaxCommitMark
      /\ \A k \in 1 .. L : d.mark[k] # Null
      /\ L < MaxCommitMark => d.mark[L + 1] = Null
  BY LastValidRange
<1> HIDE DEF L
<1>8. m \in 1 .. MaxCommitMark
  BY DEF CommitMark
<1>9. ASSUME m <= L PROVE d.mark[m] # Null
  BY <1>1, <1>7, <1>8, <1>9
<1>10. ASSUME d.mark[m] # Null PROVE m <= L
  <2> SUFFICES ASSUME ~ (m <= L) PROVE FALSE
    OBVIOUS
  <2>1. L < MaxCommitMark /\ L + 1 \in 1 .. m
    BY <1>1, <1>7, <1>8
  <2>2. \A k \in 1 .. m : d.mark[k] # Null
    BY <1>10 DEF Gapless
  <2>3. QED BY <1>7, <2>1, <2>2
<1>11. QED BY <1>9, <1>10 DEF L

\* No new history but the empty one, no line of the log less.
LEMMA KnownStep ==
    ASSUME OneLine, Known' \subseteq Known \cup {<<>>},
           Len(log) <= Len(log'), \A j \in 1 .. Len(log) : log'[j] = log[j],
           Len(log) \in Nat, Len(log') \in Nat
    PROVE  OneLine'
<1> SUFFICES ASSUME NEW h \in Known' PROVE Rising(h) /\ HasLine(h)'
  BY DEF OneLine
<1>1. CASE h \in Known
  <2>1. Rising(h) /\ HasLine(h)
    BY <1>1 DEF OneLine
  <2>2. HasLine(h)'
    <3> SUFFICES ASSUME NEW i \in DOMAIN h
                 PROVE  \E j \in 1 .. Len(log') : log'[j].rev = h[i].rev
      BY DEF HasLine
    <3>1. PICK j \in 1 .. Len(log) : log[j].rev = h[i].rev
      BY <2>1 DEF HasLine
    <3>2. j \in 1 .. Len(log') /\ log'[j] = log[j]
      OBVIOUS
    <3>3. QED BY <3>1, <3>2
  <2>3. QED BY <2>1, <2>2
<1>2. CASE h = <<>>
  BY <1>2, EmptyHistory DEF HasLine
<1>3. QED BY <1>1, <1>2

\* The log as a sequence.
LEMMA LogFacts ==
    ASSUME IInv
    PROVE  /\ Len(log) \in Nat /\ \A j \in 1 .. Len(log) : log[j] \in Line
           /\ pos \in 0 .. Len(log)
           /\ \A i, j \in 1 .. Len(log) : i < j => log[i].rev <= log[j].rev
           /\ phase # "down" => pos = 0 /\ \A i \in 1 .. Len(log) : log[i].rev <= rev
<1>1. log \in Seq(Line)
  BY DEF IInv, LogOK
<1>2. QED BY <1>1 DEF IInv, LogOK, LogMonotonic

\* A step between two steps of a run that leaves the stores and the log alone.
LEMMA QuietStep ==
    ASSUME IInv, OnceInv, UNCHANGED <<fi, disk, processHasStarted, log, transactions,
                                      last_commit_mark, queue>>,
           \/ phase = "idle" /\ phase' = "prepare" /\ rev' = rev
           \/ phase = "prepare" /\ phase' \in {"prepare", "failed"} /\ rev' = rev
           \/ phase = "commit" /\ phase' = "idle" /\ rev' = rev + 1 /\ queue = <<>>
    PROVE  OnceInv'
<1>1. StoreOK'
  BY DEF OnceInv, StoreOK
<1>2. OneLine'
  BY DEF OnceInv, OneLine, Known, HasLine
<1>3. ASSUME ~ fi.dead PROVE FutureOK'
  <2>1. Known' = Known /\ OnDisk' = OnDisk
    BY DEF Known, OnDisk
  <2>2. FutureOK
    BY <1>3 DEF OnceInv
  <2> HIDE DEF Known, OnDisk
  <2>3. QED BY <2>1, <2>2 DEF FutureOK
<1>4. ASSUME ~ fi.dead PROVE MarksKept'
  <2>1. OnDisk' = OnDisk /\ MarkTable' = MarkTable /\ LinesRead' = LinesRead
    BY DEF OnDisk, MarkTable, LinesRead
  <2>2. MarksKept
    BY <1>4 DEF OnceInv
  <2>3. QED BY <2>1, <2>2 DEF MarksKept
<1>5. QED BY <1>1, <1>2, <1>3, <1>4 DEF OnceInv

\* The steps between two revisions or two operations that write nothing.
LEMMA OnceQuiet ==
    ASSUME IInv, OnceInv, BeginRevision \/ CreateBranch \/ DeleteBranch \/ EndRevision
    PROVE  OnceInv'
<1>1. CASE BeginRevision
  BY <1>1, QuietStep DEF BeginRevision, memory, stored
<1>2. CASE CreateBranch
  <2>1. /\ phase = "prepare"
        /\ UNCHANGED <<fi, disk, processHasStarted, log, transactions, last_commit_mark,
                       queue, rev>>
    BY <1>2 DEF CreateBranch, NextIs, stored, marking
  <2>2. phase' \in {"prepare", "failed"}
    BY <1>2, <2>1 DEF CreateBranch
  <2>3. QED BY <2>1, <2>2, QuietStep
<1>3. CASE DeleteBranch
  BY <1>3, QuietStep DEF DeleteBranch, NextIs, stored, marking
<1>4. CASE EndRevision
  BY <1>4, QuietStep DEF EndRevision, memory, stored
<1>5. QED BY <1>1, <1>2, <1>3, <1>4

\* setupIncremental reads one more line of the log.
LEMMA OnceRestoreLine ==
    ASSUME IInv, OnceInv, RestoreLine
    PROVE  OnceInv'
<1> DEFINE line == log[pos + 1]
<1>1. /\ phase = "down" /\ phase' = "down" /\ pos' = pos + 1 /\ pos < Len(log)
      /\ ~ Unknown(line) /\ last_commit_mark' = HighestMark(line.mark)
      /\ UNCHANGED <<fi, disk, processHasStarted, log, transactions, queue, rev>>
  BY DEF RestoreLine, driver, stored
<1>2. line \in Line /\ pos + 1 \in 1 .. Len(log) /\ pos \in Nat
  BY <1>1, LogFacts
<1>3. StoreOK'
  BY <1>1 DEF OnceInv, StoreOK
<1>4. OneLine'
  BY <1>1 DEF OnceInv, OneLine, Known, HasLine
<1>5. FutureOK'
  BY <1>1 DEF FutureOK
<1>6. ASSUME ~ fi.dead, ~ processHasStarted PROVE MarksKept'
  <2>1. OnDisk' = OnDisk /\ MarkTable' = disk.mark /\ MarkTable = disk.mark
        /\ LinesRead' = pos + 1 /\ LinesRead = pos
    BY <1>1, <1>6 DEF OnDisk, MarkTable, LinesRead
  <2>2. MarksKept /\ disk \in Disk
    BY <1>6 DEF OnceInv, StoreOK
  <2>3. line.mark \in Mark /\ last_commit_mark \in Mark
    BY <1>2 DEF Line, IInv, MemoryOK
  <2>4. /\ last_commit_mark' \in {last_commit_mark, line.mark}
        /\ last_commit_mark <= last_commit_mark' /\ line.mark <= last_commit_mark'
    BY <1>1, <2>3, Bounds DEF HighestMark, Mark
  <2>5. \A m \in 1 .. line.mark : disk.mark[m] # Null
    <3>1. CASE line.mark = 0
      BY <3>1
    <3>2. CASE line.mark # 0
      <4>1. line.mark \in CommitMark
        BY <2>3, <3>2, Bounds DEF Mark, CommitMark
      <4>2. line.mark <= LastValidMark(disk)
        <5>1. LastValidMark(disk) \in Int
          BY <2>2, LastValidRange
        <5>2. QED BY <1>1, <2>3, <5>1, Bounds DEF Unknown, Mark
      <4>3. disk.mark[line.mark] # Null
        BY <2>2, <4>1, <4>2, LastValid DEF MarksKept
      <4>4. QED BY <2>2, <4>1, <4>3 DEF MarksKept, Gapless
    <3>3. QED BY <3>1, <3>2
  <2> HIDE DEF line
  <2>6. \A m \in 1 .. last_commit_mark' : disk.mark[m] # Null
    BY <2>1, <2>2, <2>4, <2>5 DEF MarksKept
  <2>7. \A j \in 1 .. pos + 1 : log[j].mark <= last_commit_mark'
    <3> SUFFICES ASSUME NEW j \in 1 .. pos + 1 PROVE log[j].mark <= last_commit_mark'
      OBVIOUS
    <3>1. CASE j = pos + 1
      BY <2>4, <3>1 DEF line
    <3>2. CASE j # pos + 1
      <4>1. j \in 1 .. pos /\ log[j] \in Line
        BY <1>1, <1>2, <3>2, LogFacts
      <4>2. log[j].mark \in Mark /\ log[j].mark <= last_commit_mark
        BY <2>1, <2>2, <4>1 DEF MarksKept, Line
      <4>3. QED BY <2>3, <2>4, <4>2, Bounds DEF Mark
    <3>3. QED BY <3>1, <3>2
  <2>8. QED BY <1>1, <2>1, <2>2, <2>6, <2>7 DEF MarksKept
<1>7. ~ processHasStarted
  BY <1>1 DEF OnceInv, StoreOK
<1>8. QED BY <1>1, <1>3, <1>4, <1>5, <1>6, <1>7 DEF OnceInv

\* setupIncremental is at the end of the log, or at a mark it does not know.
LEMMA OnceStartExport ==
    ASSUME IInv, OnceInv, StartExport
    PROVE  OnceInv'
<1>1. /\ phase = "down" /\ phase' = "idle" /\ pos' = 0
      /\ pos < Len(log) => Unknown(log[pos + 1])
      /\ log' = Truncated(log, pos) /\ rev' = ResumeRevision(log, pos)
      /\ UNCHANGED <<fi, disk, processHasStarted, transactions, queue, last_commit_mark>>
  BY DEF StartExport, marking
<1>2. /\ Len(log) \in Nat /\ pos \in 0 .. Len(log)
      /\ \A j \in 1 .. Len(log) : log[j] \in Line /\ log[j].rev \in Nat
      /\ \A i, j \in 1 .. Len(log) : i < j => log[i].rev <= log[j].rev
  BY LogFacts, Bounds DEF Line
<1>3. Len(log') = pos /\ \A j \in 1 .. pos : log'[j] = log[j]
  <2>1. log' = SubSeq(log, 1, pos) /\ log \in Seq(Line)
    BY <1>1 DEF Truncated, IInv, LogOK
  <2>2. QED BY <1>2, <2>1, SubSeqProperties
<1>4. ~ processHasStarted /\ ~ fi.dead /\ fi \in Process /\ disk \in Disk
      /\ Live(fi) \subseteq {Null}
  BY <1>1, NothingRunning DEF OnceInv, StoreOK
<1>5. OneLine /\ MarksKept
  BY <1>4 DEF OnceInv
<1>6. /\ Known = OnDisk /\ Known' = Known /\ OnDisk' = OnDisk
      /\ MarkTable' = disk.mark /\ MarkTable = disk.mark
  BY <1>1, <1>4 DEF Known, OnDisk, MarkTable
<1>7. ASSUME NEW h \in Known, NEW i \in DOMAIN h
      PROVE  h[i].rev < rev' /\ \E j \in 1 .. pos : log[j].rev = h[i].rev
  <2>1. PICK j \in 1 .. Len(log) : log[j].rev = h[i].rev
    BY <1>5 DEF OneLine, HasLine
  <2>2. CASE pos < Len(log)
    <3> DEFINE line == log[pos + 1]
    <3>1. pos + 1 \in 1 .. Len(log) /\ line \in Line /\ Unknown(line)
      BY <1>1, <1>2, <2>2
    <3>2. rev' = line.rev
      BY <1>1, <2>2 DEF ResumeRevision
    <3>3. line.mark # 0 /\ disk.mark[line.mark] = Null
      <4>1. LastValidMark(disk) \in 0 .. MaxCommitMark
        BY <1>4, <1>5, LastValidRange DEF MarksKept
      <4>2. line.mark \in Mark /\ line.mark > LastValidMark(disk)
        BY <3>1 DEF Line, Unknown
      <4>3. line.mark \in CommitMark
        BY <4>1, <4>2, Bounds DEF Mark, CommitMark
      <4>4. ~ (line.mark <= LastValidMark(disk))
        BY <4>1, <4>2, Bounds DEF Mark
      <4>5. disk.mark[line.mark] = Null
        BY <1>4, <1>5, <4>3, <4>4, LastValid DEF MarksKept
      <4>6. QED BY <4>3, <4>5, Bounds DEF CommitMark
    <3>4. Before(h, line.rev)
      BY <1>5, <1>6, <3>1, <3>3 DEF MarksKept
    <3>5. h[i].rev < rev'
      BY <3>2, <3>4 DEF Before
    <3> HIDE DEF line
    <3>6. j <= pos
      <4> SUFFICES ASSUME pos + 1 <= j PROVE FALSE
        BY <1>2
      <4>1. log[pos + 1].rev <= log[j].rev
        BY <1>2, <3>1
      <4>2. log[pos + 1].rev \in Nat /\ log[j].rev \in Nat
        BY <1>2, <3>1
      <4>3. QED BY <2>1, <3>2, <3>5, <4>1, <4>2 DEF line
    <3>7. QED BY <1>2, <2>1, <3>5, <3>6
  <2>3. CASE pos = Len(log)
    <3>1. log # <<>>
      BY <2>1, <1>2
    <3>2. rev' = log[pos].rev + 1
      BY <1>1, <1>2, <2>3, <3>1 DEF ResumeRevision
    <3>3. log[j].rev <= log[pos].rev /\ log[j].rev \in Nat /\ log[pos].rev \in Nat
      BY <1>2, <2>1, <2>3
    <3>4. QED BY <2>1, <2>3, <3>2, <3>3
  <2>4. QED BY <1>2, <2>2, <2>3
<1>8. StoreOK'
  BY <1>1, <1>4 DEF OnceInv, StoreOK
<1>9. OneLine'
  <2> SUFFICES ASSUME NEW h \in Known PROVE Rising(h) /\ HasLine(h)'
    BY <1>6 DEF OneLine
  <2>1. Rising(h)
    BY <1>5 DEF OneLine
  <2>2. HasLine(h)'
    <3> SUFFICES ASSUME NEW i \in DOMAIN h
                 PROVE  \E j \in 1 .. Len(log') : log'[j].rev = h[i].rev
      BY DEF HasLine
    <3>1. PICK j \in 1 .. pos : log[j].rev = h[i].rev
      BY <1>7
    <3>2. QED BY <1>3, <3>1
  <2>3. QED BY <2>1, <2>2
<1>10. FutureOK'
  BY <1>1, <1>6, <1>7 DEF FutureOK, Before
<1>11. MarksKept'
  <2>1. LinesRead = pos /\ LinesRead' = pos
    BY <1>1, <1>3 DEF LinesRead
  <2>2. \A j \in 1 .. pos : log'[j].mark <= last_commit_mark
    BY <1>2, <1>3, <1>5, <2>1 DEF MarksKept
  <2>3. \A m \in 1 .. last_commit_mark : disk.mark[m] # Null
    BY <1>5, <1>6 DEF MarksKept
  <2>4. \A j \in 1 .. pos : log'[j].mark # 0 => disk.mark[log'[j].mark] # Null
    <3> SUFFICES ASSUME NEW j \in 1 .. pos, log'[j].mark # 0
                 PROVE  disk.mark[log'[j].mark] # Null
      OBVIOUS
    <3>1. log'[j].mark \in Mark /\ last_commit_mark \in Mark
      BY <1>2, <1>3 DEF Line, IInv, MemoryOK
    <3>2. log'[j].mark \in 1 .. last_commit_mark
      BY <2>2, <3>1, Bounds DEF Mark
    <3>3. QED BY <2>3, <3>2
  <2>5. QED BY <1>1, <1>3, <1>5, <1>6, <2>1, <2>2, <2>3, <2>4 DEF MarksKept
<1>12. QED BY <1>1, <1>8, <1>9, <1>10, <1>11 DEF OnceInv

\* What is known are histories.
LEMMA KnownType ==
    ASSUME StoreOK
    PROVE  /\ Known \subseteq History /\ OnDisk \subseteq Known
           /\ \A h \in Known : \A i \in DOMAIN h : h[i].rev \in Nat
<1>1. Known \subseteq History /\ OnDisk \subseteq Known
  BY LiveFacts, OnFacts DEF StoreOK, Known, OnDisk, Tip
<1>2. \A h \in History : \A i \in DOMAIN h : h[i] \in Commitment
  BY DEF History
<1>3. QED BY <1>1, <1>2 DEF Commitment

\* What is older than one revision is older than the next.
LEMMA BeforeNext ==
    ASSUME NEW h, \A i \in DOMAIN h : h[i].rev \in Nat, NEW r \in Nat, Before(h, r)
    PROVE  Before(h, r + 1)
<1>1. ASSUME NEW i \in DOMAIN h PROVE h[i].rev < r + 1
  <2>1. h[i].rev \in Nat /\ h[i].rev < r
    BY DEF Before
  <2>2. QED BY <2>1
<1>2. QED BY <1>1 DEF Before

\* What the log names stays known when the process is started, closed or gone.
LEMMA MarksStep ==
    ASSUME IInv, StoreOK, MarksKept, phase # "down", log' = log,
           \/ /\ last_commit_mark' = last_commit_mark /\ phase' # "down"
              /\ MarkTable' = MarkTable
           \/ last_commit_mark' = 0 /\ phase' = "down" /\ pos' = 0,
           disk' = disk \/ disk'.mark = MarkTable,
           Gapless(fi'.mark) \/ fi'.mark \in {fi.mark, MarkTable}
    PROVE  MarksKept'
<1>1. Gapless(MarkTable) /\ Gapless(disk'.mark) /\ Gapless(fi'.mark)
  BY DEF MarkTable, MarksKept
<1>2. LinesRead = Len(log) /\ LinesRead' \in {0, Len(log)} /\ Len(log) \in Nat
  BY LogFacts DEF LinesRead
<1>3. \A j \in 1 .. Len(log) : log[j].mark # 0 => MarkTable[log[j].mark] # Null
  <2> SUFFICES ASSUME NEW j \in 1 .. Len(log), log[j].mark # 0
               PROVE  MarkTable[log[j].mark] # Null
    OBVIOUS
  <2>1. log[j].mark \in Mark /\ last_commit_mark \in Mark
    BY LogFacts DEF Line, IInv, MemoryOK
  <2>2. log[j].mark \in 1 .. last_commit_mark
    BY <1>2, <2>1, Bounds DEF Mark, MarksKept
  <2>3. QED BY <2>2 DEF MarksKept
<1>4. \A j \in 1 .. LinesRead' : log[j].mark <= last_commit_mark'
  BY <1>2 DEF MarksKept, LinesRead
<1>5. \A m \in 1 .. last_commit_mark' : MarkTable'[m] # Null
  BY DEF MarksKept
<1>6. CASE disk'.mark = MarkTable
  BY <1>1, <1>3, <1>4, <1>5, <1>6 DEF MarksKept
<1>7. CASE disk' = disk
  <2>1. OnDisk' = OnDisk
    BY <1>7 DEF OnDisk
  <2>2. QED BY <1>1, <1>4, <1>5, <1>7, <2>1 DEF MarksKept
<1>8. QED BY <1>6, <1>7

\* Before the commits of a revision the process may be started, closed and made to write
\* what it knows: all of it is from earlier revisions, and the log has no mark it lacks.
LEMMA StoreStep ==
    ASSUME IInv, IInv', OnceInv, phase \in {"idle", "prepare"},
           phase' \in {"idle", "prepare", "commit"},
           UNCHANGED <<rev, log, last_commit_mark>>,
           fi' \in Process, disk' \in Disk, ~ fi.dead,
           Live(fi') \cup On(disk') \subseteq Live(fi) \cup On(disk) \cup {Null},
           MarkTable' = MarkTable, disk' = disk \/ disk'.mark = MarkTable,
           Gapless(fi'.mark) \/ fi'.mark \in {fi.mark, MarkTable}
    PROVE  (OneLine /\ FutureOK /\ MarksKept)'
<1>1. /\ Known' \subseteq Known /\ OnDisk' \subseteq Known'
  BY DEF Known, OnDisk
<1>2. StoreOK /\ OneLine /\ FutureOK /\ MarksKept
  BY DEF OnceInv
<1>3. Len(log) \in Nat /\ rev \in Nat
  BY LogFacts, Bounds DEF IInv, DriverOK
<1>4. OneLine'
  BY <1>1, <1>2, <1>3, KnownStep
<1>5. \A h \in Known' : Before(h, rev) /\ Before(h, rev + 1)
  <2>1. ASSUME NEW h \in Known' PROVE Before(h, rev)
    BY <1>1, <1>2 DEF FutureOK
  <2>2. \A h \in Known' : \A i \in DOMAIN h : h[i].rev \in Nat
    BY <1>1, <1>2, KnownType
  <2>3. QED BY <1>3, <2>1, <2>2, BeforeNext
<1>6. FutureOK'
  <2>1. \A t \in transactions' : fi'.tab[t.branch] # Null => Before(fi'.tab[t.branch], rev)
    <3> SUFFICES ASSUME NEW t \in transactions', fi'.tab[t.branch] # Null
                 PROVE  Before(fi'.tab[t.branch], rev)
      OBVIOUS
    <3>1. t.branch \in Branch
      <4>1. transactions' \subseteq Transaction
        BY DEF IInv, TransactionsOK
      <4>2. QED BY <4>1 DEF Transaction
    <3>2. fi'.tab[t.branch] \in Known'
      BY <3>1 DEF Known, Live
    <3>3. QED BY <1>5, <3>2
  <2> HIDE DEF Known, OnDisk
  <2>2. QED BY <1>1, <1>5, <2>1 DEF FutureOK
<1>7. MarksKept'
  BY <1>2, MarksStep
<1>8. QED BY <1>4, <1>6, <1>7

\* A started or a running process and the marks.
LEMMA RunningMarks ==
    ASSUME StoreOK, NEW brs \in [Branch -> Entry]
    PROVE  LET p == Running(brs)
           IN  /\ p \in Process /\ p.mark = MarkTable
               /\ Live(p) \subseteq Live(fi) \cup On(disk) \cup {Null}
               /\ fi.dead => p.dead
<1>1. fi.dead => processHasStarted
  BY NothingRunning DEF StoreOK
<1>2. QED BY <1>1, RunningFacts DEF StoreOK, MarkTable

\* A file is changed: a transaction opens, a checkpoint and a blob may be written.
LEMMA OnceChangeFile ==
    ASSUME IInv, IInv', OnceInv, ChangeFile
    PROVE  OnceInv'
<1> DEFINE op    == Head(todo)
           b     == op.branch
           txn   == TransactionOf(b)
           isNew == txn \notin transactions
           flush == isNew /\ (commitCount + 1) % CommitInterval = 0
           noted == op.from # Null
           mark  == IF noted THEN MarkFrom(branches, op.from, op.at) ELSE 0
           blob  == op.kind = "change"
           file  == next_file_mark
           new   == [txn EXCEPT !.merges = IF mark > 0 THEN @ \cup {mark} ELSE @,
                                !.files  = IF blob THEN @ \cup {file} ELSE @]
           f     == Running(branches)
<1>1. /\ phase = "prepare" /\ phase' = "prepare"
      /\ transactions' = (transactions \ {txn}) \cup {new}
      /\ processHasStarted' = (processHasStarted \/ flush \/ blob)
      /\ disk' = IF flush /\ ~ f.dead THEN Git!Dump(f, disk) ELSE disk
      /\ blob => file \in FileMark /\ fi' = Git!Blob(f, file, <<b, rev>>)
      /\ ~ blob => fi' = IF flush THEN f ELSE fi
      /\ UNCHANGED <<rev, log, last_commit_mark, queue>>
      /\ processHasStarted \in BOOLEAN /\ processHasStarted' \in BOOLEAN
  BY DEF ChangeFile, NextIs, IInv, MemoryOK
<1>2. b \in Branch /\ op.from \in Branch \cup {Null} /\ rev \in Nat
  <2>1. op \in Operation
    BY NextOperation DEF ChangeFile, NextIs
  <2>2. op.branch \in Branch /\ op.from \in Branch \cup {Null}
    BY <2>1 DEF Operation, Op
  <2>3. rev \in 1 .. MaxRev + 1 /\ MaxRev \in Nat
    BY Bounds DEF IInv, DriverOK
  <2>4. QED BY <2>2, <2>3
<1>3. StoreOK /\ branches \in [Branch -> Entry]
  BY DEF OnceInv, IInv, MemoryOK
<1>4. /\ f \in Process /\ f.mark = MarkTable /\ (fi.dead => f.dead)
      /\ Live(f) \subseteq Live(fi) \cup On(disk) \cup {Null}
      /\ processHasStarted => f = fi
  BY <1>3, RunningMarks, RunningFacts DEF StoreOK
<1>5. \A t \in transactions' : t.merges \subseteq CommitMark /\ t.files \subseteq FileMark
  <2>1. mark \in Mark \cup {-1, 0}
    BY <1>2, <1>3, MarkFromType
  <2>2. mark > 0 => mark \in CommitMark
    BY <2>1, Bounds DEF Mark, CommitMark
  <2>3. txn \in transactions \/ txn = [branch |-> b, merges |-> {}, files |-> {}]
    BY DEF TransactionOf
  <2>4. \A t \in transactions :
            t \in Transaction /\ t.merges \subseteq CommitMark /\ t.files \subseteq FileMark
    BY <1>3 DEF StoreOK, IInv, TransactionsOK
  <2>5. /\ txn \in Transaction /\ txn.merges \subseteq CommitMark
        /\ txn.files \subseteq FileMark
    BY <1>2, <2>3, <2>4 DEF Transaction
  <2> HIDE DEF txn, mark, blob
  <2>6. new.merges \subseteq CommitMark /\ new.files \subseteq FileMark
    BY <1>1, <2>2, <2>5 DEF Transaction
  <2>7. QED BY <1>1, <2>4, <2>6
<1> HIDE DEF f, flush, blob, new, txn
<1>6. <<b, rev>> \in Content
  BY <1>2 DEF Content
<1>7. /\ fi' \in Process
      /\ processHasStarted' => fi'.mark = f.mark
      /\ processHasStarted' => Live(fi') = Live(f)
      /\ ~ processHasStarted' => fi' = fi /\ disk' = disk
      /\ processHasStarted => processHasStarted'
      /\ f.dead => fi'.dead \/ fi' = fi
  <2>1. CASE blob
    <3>1. processHasStarted'
      BY <1>1, <2>1 DEF blob
    <3>2. file \in FileMark /\ fi' = Git!Blob(f, file, <<b, rev>>)
      BY <1>1, <2>1
    <3>3. /\ fi' \in Process /\ fi'.mark = f.mark /\ Live(fi') = Live(f)
          /\ fi'.dead = f.dead
      BY <1>4, <1>6, <3>2, BlobFacts
    <3>4. QED BY <3>1, <3>3
  <2>2. CASE ~ blob /\ flush
    BY <1>1, <1>4, <2>2
  <2>3. CASE ~ blob /\ ~ flush
    <3>1. fi' = fi /\ disk' = disk
      BY <1>1, <2>3
    <3>2. processHasStarted' = processHasStarted
      BY <1>1, <2>3 DEF IInv, MemoryOK
    <3>3. QED BY <1>3, <1>4, <3>1, <3>2 DEF StoreOK
  <2>4. QED BY <2>1, <2>2, <2>3
<1>8. /\ disk' \in Disk
      /\ disk' = disk \/ disk'.mark = MarkTable
      /\ On(disk') \subseteq Live(fi) \cup On(disk) \cup {Null}
  <2>1. CASE disk' = disk
    BY <1>3, <2>1 DEF StoreOK
  <2>2. CASE disk' = Git!Dump(f, disk)
    <3>1. disk' \in Disk /\ disk'.mark = f.mark /\ On(disk') \subseteq Live(f) \cup On(disk) \cup {Null}
      BY <1>3, <1>4, <2>2, DumpFacts, DumpKeeps DEF StoreOK
    <3>2. QED BY <1>4, <3>1
  <2>3. QED BY <1>1, <2>1, <2>2
<1>9. Live(fi') \subseteq Live(fi) \cup On(disk) \cup {Null}
  BY <1>4, <1>7
<1>10. MarkTable' = MarkTable /\ (fi'.mark = fi.mark \/ fi'.mark = MarkTable)
  BY <1>4, <1>7 DEF MarkTable
<1>11. StoreOK'
  <2>1. queue' = queue /\ queue = <<>>
    BY <1>1, <1>3 DEF StoreOK
  <2>2. QED BY <1>1, <1>3, <1>5, <1>7, <1>8, <2>1 DEF StoreOK
<1>12. fi.dead => fi'.dead
  <2>1. fi.dead => f.dead
    BY <1>4
  <2>2. QED BY <1>7, <2>1
<1>13. CASE ~ fi.dead
  BY <1>1, <1>3, <1>7, <1>8, <1>9, <1>10, <1>11, <1>13, StoreStep DEF OnceInv
<1>14. CASE fi.dead
  <2>1. Known' \subseteq Known /\ Len(log) \in Nat
    BY <1>8, <1>9, LogFacts DEF Known
  <2>2. OneLine'
    BY <1>1, <2>1, KnownStep DEF OnceInv
  <2>3. QED BY <1>11, <1>12, <1>14, <2>2 DEF OnceInv
<1>15. QED BY <1>13, <1>14

\* The queued commands of a revision are about to be written.
LEMMA OnceFlush ==
    ASSUME IInv, IInv', OnceInv, Flush
    PROVE  OnceInv'
<1> DEFINE f == Running(branches)
<1>1. /\ phase = "prepare" /\ phase' = "commit"
      /\ IF queue' = <<>> THEN fi' = fi /\ processHasStarted' = processHasStarted
         ELSE fi' = f /\ processHasStarted' = TRUE
      /\ UNCHANGED <<rev, log, last_commit_mark, disk, transactions>>
  BY DEF Flush, marking, stored
<1>2. StoreOK /\ branches \in [Branch -> Entry] /\ processHasStarted \in BOOLEAN
  BY DEF OnceInv, IInv, MemoryOK
<1>3. /\ f \in Process /\ f.mark = MarkTable /\ (fi.dead => f.dead)
      /\ Live(f) \subseteq Live(fi) \cup On(disk) \cup {Null}
  BY <1>2, RunningMarks
<1> HIDE DEF f
<1>4. /\ fi' \in Process /\ MarkTable' = MarkTable /\ (fi.dead => fi'.dead)
      /\ Live(fi') \subseteq Live(fi) \cup On(disk) \cup {Null}
      /\ fi'.mark \in {fi.mark, MarkTable}
      /\ queue' # <<>> => processHasStarted'
      /\ ~ processHasStarted' => fi' = fi /\ ~ processHasStarted
  <2>1. CASE queue' = <<>>
    BY <1>1, <1>2, <2>1 DEF StoreOK, MarkTable
  <2>2. CASE queue' # <<>>
    BY <1>1, <1>3, <2>2 DEF MarkTable
  <2>3. QED BY <2>1, <2>2
<1>5. StoreOK'
  BY <1>1, <1>2, <1>4 DEF StoreOK
<1>6. CASE ~ fi.dead
  <2>1. disk' \in Disk /\ disk' = disk
        /\ Live(fi') \cup On(disk') \subseteq Live(fi) \cup On(disk) \cup {Null}
    BY <1>1, <1>2, <1>4 DEF StoreOK
  <2>2. (OneLine /\ FutureOK /\ MarksKept)'
    BY <1>1, <1>4, <1>6, <2>1, StoreStep
  <2>3. QED BY <1>5, <2>2 DEF OnceInv
<1>7. CASE fi.dead
  <2>1. Known' \subseteq Known /\ Len(log) \in Nat
    BY <1>1, <1>4, LogFacts DEF Known
  <2>2. OneLine'
    BY <1>1, <2>1, KnownStep DEF OnceInv
  <2>3. QED BY <1>4, <1>5, <1>7, <2>2 DEF OnceInv
<1>8. QED BY <1>6, <1>7

\* closeFastImport leaves on disk what the process and the disk had.
LEMMA ClosedFacts ==
    ASSUME NEW f \in Process, NEW d \in Disk, NEW started \in BOOLEAN
    PROVE  LET n == Closed(f, started)
           IN  disk = d => /\ n \in Disk
                           /\ n = disk \/ n.mark = f.mark
                           /\ started => n.mark = f.mark
                           /\ ~ started => n = disk
                           /\ On(n) \subseteq Live(f) \cup On(d) \cup {Null}
BY DumpFacts, DumpKeeps DEF Closed

\* The process cache closes the process between revisions or operations.
LEMMA OnceEvict ==
    ASSUME IInv, IInv', OnceInv, Evict, "commit" \notin EvictPhases
    PROVE  OnceInv'
<1>1. /\ phase \in {"idle", "prepare"} /\ processHasStarted /\ ~ fi.dead /\ queue = <<>>
      /\ disk' = Closed(fi, TRUE) /\ processHasStarted' = FALSE
      /\ fi' = Git!Started(Git!EmptyDisk)
      /\ UNCHANGED <<phase, rev, log, last_commit_mark, transactions, queue>>
  BY RepositoryAssumption DEF Evict, memory, driver
<1>2. StoreOK /\ MarksKept
  BY <1>1 DEF OnceInv
<1>3. /\ disk' \in Disk /\ disk'.mark = fi.mark
      /\ On(disk') \subseteq Live(fi) \cup On(disk) \cup {Null}
  BY <1>1, <1>2, ClosedFacts DEF StoreOK
<1>4. /\ fi' \in Process /\ Live(fi') \subseteq {Null} /\ ~ fi'.dead
      /\ Gapless(fi'.mark)
  BY <1>1, NothingRunning DEF Gapless
<1>5. MarkTable' = MarkTable /\ disk'.mark = MarkTable
  BY <1>1, <1>3 DEF MarkTable
<1>6. StoreOK'
  BY <1>1, <1>2, <1>3, <1>4 DEF StoreOK
<1>7. Live(fi') \cup On(disk') \subseteq Live(fi) \cup On(disk) \cup {Null}
  BY <1>3, <1>4
<1>8. (OneLine /\ FutureOK /\ MarksKept)'
  BY <1>1, <1>3, <1>4, <1>5, <1>7, StoreStep
<1>9. QED BY <1>6, <1>8 DEF OnceInv

\* Nothing of the converter is left.
LEMMA OnceGone ==
    ASSUME IInv, OnceInv, Gone, phase # "down", ~ fi.dead, UNCHANGED <<pos, log>>,
           disk' \in Disk, disk' = disk \/ disk'.mark = MarkTable,
           On(disk') \subseteq Live(fi) \cup On(disk) \cup {Null}
    PROVE  OnceInv'
<1>1. /\ phase' = "down" /\ last_commit_mark' = 0 /\ transactions' = {} /\ queue' = <<>>
      /\ processHasStarted' = FALSE /\ fi' = Git!Started(Git!EmptyDisk)
  BY DEF Gone
<1>2. /\ fi' \in Process /\ Live(fi') \subseteq {Null} /\ ~ fi'.dead
      /\ Gapless(fi'.mark)
  BY <1>1, NothingRunning DEF Gapless
<1>3. StoreOK /\ MarksKept /\ OneLine
  BY DEF OnceInv
<1>4. pos' = 0 /\ Len(log) \in Nat
  BY LogFacts
<1>5. StoreOK'
  BY <1>1, <1>2 DEF StoreOK
<1>6. Known' \subseteq Known
  BY <1>2 DEF Known
<1>7. OneLine'
  BY <1>3, <1>4, <1>6, KnownStep
<1>8. FutureOK'
  BY <1>1 DEF FutureOK
<1>9. MarksKept'
  BY <1>1, <1>2, <1>3, <1>4, MarksStep
<1>10. QED BY <1>5, <1>7, <1>8, <1>9 DEF OnceInv

\* The converter is killed or interrupted.
LEMMA OnceCrash ==
    ASSUME IInv, OnceInv, NEW kind, Crash(kind)
    PROVE  OnceInv'
<1>1. /\ Gone /\ phase # "down" /\ ~ fi.dead /\ UNCHANGED <<pos, log>>
      /\ disk' = disk \/ disk' = Closed(fi, processHasStarted)
  BY DEF Crash
<1>2. StoreOK /\ processHasStarted \in BOOLEAN
  BY DEF OnceInv, IInv, MemoryOK
<1>3. /\ disk' \in Disk
      /\ disk' = disk \/ disk'.mark = MarkTable
      /\ On(disk') \subseteq Live(fi) \cup On(disk) \cup {Null}
  <2>1. CASE disk' = disk
    BY <1>2, <2>1 DEF StoreOK
  <2>2. CASE disk' = Closed(fi, processHasStarted)
    BY <1>2, <2>2, ClosedFacts DEF StoreOK, MarkTable
  <2>3. QED BY <1>1, <2>1, <2>2
<1>4. QED BY <1>1, <1>3, OnceGone

\* A run ends: annotated tags, and the last checkpoint.
LEMMA OnceFinish ==
    ASSUME IInv, OnceInv, Finish
    PROVE  OnceInv'
<1> DEFINE f == IF annotatedTags = {} THEN fi
                ELSE Git!Tag(Running(branches), disk, annotatedTags)
           started == processHasStarted \/ annotatedTags # {}
<1>1. /\ phase \in {"idle", "failed"} /\ ~ fi.dead /\ UNCHANGED <<pos, log>>
      /\ IF f.dead
         THEN /\ fi' = f /\ phase' = "dead" /\ processHasStarted' = started
              /\ UNCHANGED <<memory, rev, todo, queue, disk>>
         ELSE /\ disk' = Closed(f, started)
              /\ \/ Gone
                 \/ /\ phase' = "asserted" /\ processHasStarted' = FALSE
                    /\ fi' = Git!Started(Git!EmptyDisk)
                    /\ UNCHANGED <<memory, rev, todo, queue>>
  BY DEF Finish
<1>2. /\ StoreOK /\ MarksKept /\ OneLine /\ branches \in [Branch -> Entry]
      /\ processHasStarted \in BOOLEAN /\ Len(log) \in Nat
  BY <1>1, LogFacts DEF OnceInv, IInv, MemoryOK
<1>3. /\ f \in Process
      /\ f.mark = MarkTable \/ (annotatedTags = {} /\ f = fi)
      /\ Live(f) \subseteq Live(fi) \cup On(disk) \cup {Null}
  <2> DEFINE r == Running(branches)
  <2>1. /\ r \in Process /\ r.mark = MarkTable
        /\ Live(r) \subseteq Live(fi) \cup On(disk) \cup {Null}
    BY <1>2, RunningMarks
  <2> HIDE DEF r
  <2>2. CASE annotatedTags = {}
    BY <1>2, <2>2 DEF StoreOK
  <2>3. CASE annotatedTags # {}
    <3>1. f = Git!Tag(r, disk, annotatedTags)
      BY <2>3 DEF r
    <3>2. /\ f \in Process /\ f.mark = r.mark /\ Live(f) = Live(r)
      BY <1>2, <2>1, <3>1, TagFacts DEF StoreOK
    <3>3. QED BY <2>1, <3>2
  <2>4. QED BY <2>2, <2>3
<1>4. started \in BOOLEAN /\ (f.dead => started) /\ (f.dead => annotatedTags # {})
  BY <1>1, <1>2
<1>5. CASE f.dead
  <2>1. /\ fi' = f /\ phase' = "dead" /\ processHasStarted' = TRUE
        /\ UNCHANGED <<transactions, queue, disk>>
    BY <1>1, <1>4, <1>5 DEF memory
  <2>2. queue = <<>> /\ f \in Process
    BY <1>1, <1>2, <1>3 DEF StoreOK
  <2>3. StoreOK'
    BY <1>2, <2>1, <2>2 DEF StoreOK
  <2>4. Known' \subseteq Known
    BY <1>3, <2>1 DEF Known
  <2>5. OneLine'
    BY <1>1, <1>2, <2>4, KnownStep
  <2>6. QED BY <1>5, <2>1, <2>3, <2>5 DEF OnceInv
<1>6. CASE ~ f.dead
  <2> DEFINE n == Closed(f, started)
  <2>1. disk' = n
    BY <1>1, <1>6
  <2>2. f \in Process /\ disk \in Disk
    BY <1>2, <1>3 DEF StoreOK
  <2>3. /\ n \in Disk
        /\ n = disk \/ n.mark = f.mark
        /\ started => n.mark = f.mark
        /\ ~ started => n = disk
        /\ On(n) \subseteq Live(f) \cup On(disk) \cup {Null}
    BY <1>4, <2>2, ClosedFacts
  <2>4. /\ started => f.mark = MarkTable
        /\ ~ started => MarkTable = disk.mark
    <3>1. CASE annotatedTags = {}
      BY <3>1 DEF MarkTable
    <3>2. CASE annotatedTags # {}
      BY <1>3, <3>2
    <3>3. QED BY <3>1, <3>2
  <2> HIDE DEF n, f, started
  <2>5. /\ disk' \in Disk
        /\ disk'.mark = MarkTable
        /\ disk' = disk \/ disk'.mark = MarkTable
        /\ On(disk') \subseteq Live(fi) \cup On(disk) \cup {Null}
    BY <1>3, <1>4, <2>1, <2>3, <2>4
  <2>6. CASE Gone
    BY <1>1, <2>5, <2>6, OnceGone
  <2>7. CASE /\ phase' = "asserted" /\ processHasStarted' = FALSE
             /\ fi' = Git!Started(Git!EmptyDisk)
             /\ UNCHANGED <<memory, rev, todo, queue>>
    <3>1. /\ fi' \in Process /\ Live(fi') \subseteq {Null} /\ ~ fi'.dead
          /\ Gapless(fi'.mark)
      BY <2>7, NothingRunning DEF Gapless
    <3>2. StoreOK'
      BY <1>1, <1>2, <2>5, <2>7, <3>1 DEF StoreOK, memory
    <3>3. Known' \subseteq Known
      BY <2>5, <3>1 DEF Known
    <3>4. OneLine'
      BY <1>1, <1>2, <3>3, KnownStep
    <3>5. FutureOK'
      BY <2>7 DEF FutureOK
    <3>6. MarkTable' = MarkTable /\ last_commit_mark' = last_commit_mark
      BY <2>5, <2>7 DEF MarkTable, memory
    <3>7. MarksKept'
      BY <1>1, <1>2, <2>5, <2>7, <3>1, <3>6, MarksStep
    <3>8. QED BY <3>2, <3>4, <3>5, <3>7 DEF OnceInv
  <2>8. QED BY <1>1, <1>6, <2>6, <2>7
<1>7. QED BY <1>5, <1>6

\* A backup and a reset are written, and a line is logged.
LEMMA OnceWriteReset ==
    ASSUME IInv, IInv', UsedMarks, OnceInv, WriteReset
    PROVE  OnceInv'
<1> DEFINE cmd  == Head(queue)
           b    == cmd.branch
           f    == IF cmd.backup THEN Git!Backup(fi, disk, b, cmd.rev) ELSE fi
           line == [rev |-> cmd.rev, branch |-> b, mark |-> cmd.mark]
<1>1. /\ phase = "commit" /\ phase' = "commit" /\ queue # <<>> /\ ~ fi.dead
      /\ queue' = Tail(queue)
      /\ fi' = CASE f.dead -> f
                 [] ~ f.dead /\ cmd.to = Null -> Git!ResetToNull(f, b)
                 [] ~ f.dead /\ cmd.to # Null /\ cmd.mark # 0 ->
                        Git!ResetToMark(f, b, cmd.mark)
                 [] OTHER -> Git!ResetToRef(f, disk, b, cmd.to)
      /\ log' = IF fi'.dead THEN log ELSE Append(log, line)
      /\ UNCHANGED <<rev, last_commit_mark, disk, transactions, processHasStarted>>
  BY DEF WriteReset, memory
<1>2. /\ StoreOK /\ OneLine /\ FutureOK /\ MarksKept /\ processHasStarted
      /\ processHasStarted' /\ fi \in Process /\ disk \in Disk
  BY <1>1 DEF OnceInv, StoreOK
<1>3. /\ cmd \in Command(rev) /\ rev \in Nat /\ Len(log) \in Nat
      /\ log \in Seq(Line)
  <2>1. queue \in Seq(Command(rev)) /\ log \in Seq(Line) /\ rev \in Nat
    BY Bounds DEF IInv, QueuesOK, DriverOK, LogOK
  <2>2. cmd \in Command(rev)
    BY <1>1, <2>1
  <2>3. QED BY <2>1, <2>2
<1>4. /\ b \in Branch /\ cmd.rev = rev /\ cmd.mark \in Mark /\ cmd.to \in Branch \cup {Null}
      /\ cmd.backup \in BOOLEAN
      /\ cmd.mark # 0 => cmd.mark \in CommitMark
  <2>1. /\ b \in Branch /\ cmd.rev = rev /\ cmd.mark \in Mark /\ cmd.to \in Branch \cup {Null}
        /\ cmd.backup \in BOOLEAN
    BY <1>3 DEF Command
  <2>2. QED BY <2>1, Bounds DEF Mark, CommitMark
<1>5. line \in Line
  BY <1>1, <1>4 DEF Line, IInv, DriverOK
<1> HIDE DEF cmd, line
<1>6. f \in Process /\ f.mark = fi.mark /\ Live(f) \subseteq Live(fi)
  <2>1. CASE cmd.backup
    BY <1>2, <1>3, <1>4, <2>1, ResetFacts
  <2>2. CASE ~ cmd.backup
    BY <1>2, <2>2
  <2>3. QED BY <2>1, <2>2
<1> HIDE DEF f
<1>7. /\ fi' \in Process /\ fi'.mark = fi.mark
      /\ Live(fi') \subseteq Live(fi) \cup On(disk) \cup {<<>>}
  <2>1. CASE f.dead
    <3>1. fi' = f
      BY <1>1, <2>1
    <3>2. QED BY <1>6, <3>1
  <2>2. CASE ~ f.dead /\ cmd.to = Null
    <3>1. fi' = Git!ResetToNull(f, b)
      BY <1>1, <2>2
    <3>2. QED BY <1>2, <1>4, <1>6, <3>1, ResetFacts
  <2>3. CASE ~ f.dead /\ cmd.to # Null /\ cmd.mark # 0
    <3>1. fi' = Git!ResetToMark(f, b, cmd.mark)
      BY <1>1, <2>3
    <3>2. QED BY <1>2, <1>4, <1>6, <2>3, <3>1, ResetFacts
  <2>4. CASE ~ f.dead /\ cmd.to # Null /\ ~ (cmd.mark # 0)
    <3>1. fi' = Git!ResetToRef(f, disk, b, cmd.to)
      BY <1>1, <2>4
    <3>2. QED BY <1>2, <1>4, <1>6, <2>4, <3>1, ResetFacts
  <2>5. QED BY <2>1, <2>2, <2>3, <2>4
<1>8. StoreOK'
  BY <1>1, <1>2, <1>7 DEF StoreOK
<1>9. /\ Len(log') \in Nat /\ Len(log) <= Len(log')
      /\ \A j \in 1 .. Len(log) : log'[j] = log[j]
      /\ \A j \in 1 .. Len(log') : j \in 1 .. Len(log) \/ log'[j] = line
  BY <1>1, <1>3, <1>5, AppendFacts
<1>10. Known' \subseteq Known \cup {<<>>} /\ OnDisk' = OnDisk
  BY <1>1, <1>7 DEF Known, OnDisk
<1>11. OneLine'
  BY <1>2, <1>3, <1>9, <1>10, KnownStep
<1>12. \A h \in Known' : Before(h, rev) /\ Before(h, rev + 1)
  <2>1. \A h \in Known : Before(h, rev)
    BY <1>1, <1>2 DEF FutureOK
  <2>2. \A h \in Known' : Before(h, rev)
    BY <1>10, <2>1, EmptyHistory
  <2>3. \A h \in Known' : \A i \in DOMAIN h : h[i].rev \in Nat
    <3>1. \A h \in Known : \A i \in DOMAIN h : h[i].rev \in Nat
      BY <1>2, KnownType
    <3>2. QED BY <1>10, <3>1
  <2>4. QED BY <1>3, <2>2, <2>3, BeforeNext
<1>13. FutureOK'
  <2>1. \A t \in transactions' : fi'.tab[t.branch] # Null => Before(fi'.tab[t.branch], rev)
    <3> SUFFICES ASSUME NEW t \in transactions', fi'.tab[t.branch] # Null
                 PROVE  Before(fi'.tab[t.branch], rev)
      OBVIOUS
    <3>1. t.branch \in Branch
      BY DEF IInv, TransactionsOK, Transaction
    <3>2. fi'.tab[t.branch] \in Known'
      BY <3>1 DEF Known, Live
    <3>3. QED BY <1>12, <3>2
  <2>2. OnDisk' \subseteq Known'
    BY DEF OnDisk, Known
  <2> HIDE DEF Known, OnDisk
  <2>3. QED BY <1>1, <1>12, <2>1, <2>2 DEF FutureOK
<1>14. MarksKept'
  <2>1. LinesRead = Len(log) /\ LinesRead' = Len(log') /\ MarkTable = fi.mark
        /\ MarkTable' = fi.mark
    BY <1>1, <1>2, <1>7 DEF LinesRead, MarkTable
  <2>2. cmd.mark <= last_commit_mark
    <3>1. queue \in Seq(Command(rev))
      BY DEF IInv, QueuesOK
    <3>2. 1 \in 1 .. Len(queue) /\ cmd = queue[1]
      BY <1>1, <3>1 DEF cmd
    <3>3. QED BY <3>2 DEF UsedMarks, Used
  <2>3. \A h \in OnDisk : Before(h, rev)
    BY <1>1, <1>2 DEF FutureOK
  <2>4. line.mark = cmd.mark /\ line.rev = rev
    BY <1>4 DEF line
  <2>5. \A j \in 1 .. Len(log') : log'[j].mark <= last_commit_mark
    BY <1>2, <1>9, <2>1, <2>2, <2>4 DEF MarksKept
  <2>6. \A j \in 1 .. Len(log') : log'[j].mark # 0 /\ disk.mark[log'[j].mark] = Null
            => \A h \in OnDisk : Before(h, log'[j].rev)
    BY <1>2, <1>9, <2>3, <2>4 DEF MarksKept
  <2>7. QED BY <1>1, <1>2, <1>7, <1>10, <2>1, <2>5, <2>6 DEF MarksKept
<1>15. QED BY <1>8, <1>11, <1>13, <1>14 DEF OnceInv

\* A commit is written, and a line is logged.
LEMMA OnceCommitTransaction ==
    ASSUME NullIsNoHistory, IInv, IInv', OnceInv, NEW txn \in transactions,
           CommitTransaction(txn)
    PROVE  OnceInv'
<1> DEFINE b       == txn.branch
           mark    == last_commit_mark + 1
           f       == Running(branches)
           merges  == txn.merges \ {IF HasTip(branches[b]) THEN LastOf(branches[b].marks) ELSE 0}
           lost    == {m \in merges : f.mark[m] = Null}
           commit  == [branch |-> b, rev |-> rev,
                       files  |-> {f.blob[m] : m \in txn.files},
                       merges |-> {HeadOf(f.mark[m]) : m \in merges \ lost}]
           line    == [rev |-> rev, branch |-> b, mark |-> mark]
           parent  == IF f.tab[b] = Null THEN <<>> ELSE f.tab[b]
           next    == Append(parent, commit)
<1>1. /\ phase = "commit" /\ queue = <<>> /\ ~ fi.dead
      /\ UNCHANGED <<rev, queue, disk>>
  BY DEF CommitTransaction
<1>2. /\ StoreOK /\ OneLine /\ FutureOK /\ MarksKept /\ fi \in Process /\ disk \in Disk
      /\ branches \in [Branch -> Entry] /\ rev \in Nat /\ last_commit_mark \in Nat
      /\ b \in Branch /\ log \in Seq(Line) /\ Len(log) \in Nat
      /\ processHasStarted \in BOOLEAN
      /\ txn.merges \subseteq CommitMark /\ txn.files \subseteq FileMark
  <2>1. last_commit_mark \in Nat /\ rev \in Nat
    BY Bounds DEF IInv, MemoryOK, DriverOK, Mark
  <2>2. b \in Branch
    BY DEF IInv, TransactionsOK, Transaction
  <2>3. log \in Seq(Line) /\ Len(log) \in Nat
    BY LogFacts DEF IInv, LogOK
  <2>4. QED BY <1>1, <2>1, <2>2, <2>3 DEF OnceInv, StoreOK, IInv, MemoryOK
<1>3. CASE InConflict(b)
  <2>1. /\ phase' = "failed"
        /\ UNCHANGED <<fi, log, transactions, processHasStarted, last_commit_mark>>
    BY <1>3 DEF CommitTransaction, marking
  <2>2. StoreOK'
    BY <1>1, <1>2, <2>1 DEF StoreOK
  <2>3. OneLine'
    BY <1>1, <1>2, <2>1 DEF OneLine, Known, HasLine
  <2>4. FutureOK'
    BY <2>1 DEF FutureOK
  <2>5. OnDisk' = OnDisk /\ MarkTable' = MarkTable /\ LinesRead' = LinesRead
    BY <1>1, <2>1 DEF OnDisk, MarkTable, LinesRead
  <2>6. MarksKept'
    BY <1>1, <1>2, <2>1, <2>5 DEF MarksKept
  <2>7. QED BY <2>2, <2>3, <2>4, <2>6 DEF OnceInv
<1>4. CASE ~ InConflict(b)
  <2> DEFINE g == IF f.dead \/ lost # {} THEN Git!Die(f) ELSE Git!Commit(f, b, mark, commit)
  <2>1. /\ phase' = "commit" /\ mark \in CommitMark /\ last_commit_mark' = mark
        /\ fi' = g /\ processHasStarted' = TRUE
        /\ log' = IF g.dead THEN log ELSE Append(log, line)
        /\ transactions' = transactions \ {txn}
    BY <1>1, <1>4 DEF CommitTransaction
  <2>2. /\ f \in Process /\ f.mark = MarkTable
        /\ Live(f) \subseteq Live(fi) \cup On(disk) \cup {Null}
        /\ processHasStarted => f = fi
        /\ ~ processHasStarted => Live(f) \subseteq On(disk) \cup {Null}
    BY <1>2, RunningMarks, RunningFacts
  <2> HIDE DEF f
  <2>3. commit \in Commitment /\ commit.rev = rev
    <3>1. \A m \in txn.files : f.blob[m] \in Content
      BY <1>2, <2>2 DEF Process
    <3>2. \A m \in merges \ lost : HeadOf(f.mark[m]) \in Branch \X Nat
      <4> SUFFICES ASSUME NEW m \in merges \ lost PROVE HeadOf(f.mark[m]) \in Branch \X Nat
        OBVIOUS
      <4>1. f.mark[m] \in Exported /\ f.mark[m] # Null
        BY <1>2, <2>2 DEF Process
      <4>2. f.mark[m] \in History /\ f.mark[m] # <<>>
        BY <4>1 DEF Exported
      <4>3. QED BY <4>2, HeadOfType
    <3> HIDE DEF merges, lost, b
    <3>3. QED BY <1>2, <3>1, <3>2 DEF Commitment
  <2> HIDE DEF commit, merges, lost
  <2>4. transactions' \subseteq transactions
    BY <2>1
  <2>5. CASE f.dead \/ lost # {}
    <3>1. /\ g \in Process /\ g.dead /\ g.mark = f.mark /\ g.tab = f.tab
      BY <2>2, <2>5, DieFacts
    <3> HIDE DEF g
    <3>2. log' = log
      BY <2>1, <3>1
    <3>3. StoreOK'
      BY <1>1, <1>2, <2>1, <2>4, <3>1 DEF StoreOK
    <3>4. Known' \subseteq Known
      BY <1>1, <2>1, <2>2, <3>1 DEF Known, Live
    <3>5. OneLine'
      BY <1>2, <3>2, <3>4, KnownStep
    <3>6. QED BY <2>1, <3>1, <3>3, <3>5 DEF OnceInv
  <2>6. CASE ~ (f.dead \/ lost # {})
    <3> PICK new : new = next
      OBVIOUS
    <3>1. /\ g \in Process /\ ~ g.dead /\ parent \in History /\ new # Null /\ new # <<>>
          /\ \A n \in CommitMark : g.mark[n] = IF n = mark THEN new ELSE f.mark[n]
          /\ \A a \in Branch : g.tab[a] = IF a = b THEN new ELSE f.tab[a]
          /\ Live(g) \subseteq Live(f) \cup {new}
      <4>1. g = Git!Commit(f, b, mark, commit) /\ ~ f.dead
        BY <2>6
      <4> HIDE DEF mark, b, g
      <4>2. f \in Process /\ b \in Branch /\ mark \in CommitMark /\ commit \in Commitment
        BY <1>2, <2>1, <2>2, <2>3
      <4>3. LET p == Git!Commit(f, b, mark, commit)
            IN  /\ p \in Process /\ p.blob = f.blob /\ p.dead = f.dead
                /\ parent \in History /\ next \in Exported \ {Null} /\ next # <<>>
                /\ \A n \in CommitMark : p.mark[n] = IF n = mark THEN next ELSE f.mark[n]
                /\ \A a \in Branch : p.tab[a] = IF a = b THEN next ELSE f.tab[a]
                /\ Live(p) \subseteq Live(f) \cup {next}
        BY ONLY <4>2, NullIsNoHistory, CommitFacts
      <4> HIDE DEF next, parent
      <4>4. QED BY <4>1, <4>3
    <3>2. line \in Line /\ line.rev = rev /\ line.mark = mark
      BY <1>1, <1>2, <2>1, Bounds DEF Line, IInv, DriverOK, Mark, CommitMark
    <3> HIDE DEF g, line
    <3>3. /\ log' = Append(log, line) /\ Len(log') = Len(log) + 1 /\ Len(log') \in Nat
          /\ \A j \in 1 .. Len(log) : log'[j] = log[j]
          /\ log'[Len(log) + 1] = line
      <4>1. log' = Append(log, line)
        BY <2>1, <3>1
      <4>2. log \in Seq(Line) /\ line \in Line
        BY <1>2, <3>2
      <4>3. QED BY ONLY <4>1, <4>2, AppendFacts
    <3>4. f.tab[b] # Null => f.tab[b] \in Known /\ Before(f.tab[b], rev)
      <4>1. f.tab[b] # Null => f.tab[b] \in Known
        BY <1>2, <2>2, LiveFacts DEF Known
      <4>2. processHasStarted /\ f.tab[b] # Null => Before(f.tab[b], rev)
        BY <1>1, <1>2, <2>2 DEF FutureOK
      <4>3. ~ processHasStarted /\ f.tab[b] # Null => f.tab[b] \in OnDisk
        BY <1>2, <2>2, LiveFacts DEF OnDisk
      <4> HIDE DEF Known, OnDisk
      <4>4. QED BY <1>1, <1>2, <4>1, <4>2, <4>3 DEF FutureOK
    <3>5. Rising(parent) /\ HasLine(parent) /\ Before(parent, rev)
      BY <1>2, <3>4, EmptyHistory DEF OneLine
    <3>6. Rising(new) /\ Before(new, rev + 1)
      BY <2>3, <3>1, <3>5, RisingAppend
    <3>7. HasLine(new)'
      <4>1. /\ Len(parent) \in Nat /\ DOMAIN new = 1 .. Len(parent) + 1
            /\ DOMAIN parent = 1 .. Len(parent)
            /\ \A i \in 1 .. Len(parent) : new[i] = parent[i]
            /\ new[Len(parent) + 1] = commit
        <5>1. new = Append(parent, commit)
          OBVIOUS
        <5>2. parent \in Seq(Commitment) /\ commit \in Commitment
          BY <2>3, <3>1 DEF History
        <5> HIDE DEF parent
        <5>3. QED BY ONLY <5>1, <5>2, AppendFacts
      <4> HIDE DEF parent
      <4>2. ASSUME NEW i \in DOMAIN new
            PROVE  \E j \in 1 .. Len(log') : log'[j].rev = new[i].rev
        <5>1. CASE i = Len(parent) + 1
          <6>1. Len(log) + 1 \in 1 .. Len(log')
            BY <1>2, <3>3
          <6>2. QED BY <2>3, <3>2, <3>3, <4>1, <5>1, <6>1
        <5>2. CASE i # Len(parent) + 1
          <6>1. i \in 1 .. Len(parent) /\ new[i] = parent[i]
            BY <4>1, <5>2
          <6>2. PICK j \in 1 .. Len(log) : log[j].rev = parent[i].rev
            BY <3>5, <4>1, <6>1 DEF HasLine
          <6>3. j \in 1 .. Len(log') /\ log'[j] = log[j]
            BY <1>2, <3>3
          <6>4. QED BY <6>1, <6>2, <6>3
        <5>3. QED BY <5>1, <5>2
      <4>3. QED BY <4>2 DEF HasLine
    <3> HIDE DEF next, parent
    <3>8. Known' \subseteq Known \cup {new} /\ OnDisk' = OnDisk
      BY <1>1, <2>1, <2>2, <3>1 DEF Known, OnDisk
    <3>9. StoreOK'
      BY <1>1, <1>2, <2>1, <2>4, <3>1 DEF StoreOK
    <3>10. OneLine'
      <4> SUFFICES ASSUME NEW h \in Known' PROVE Rising(h) /\ HasLine(h)'
        BY DEF OneLine
      <4>1. CASE h = new
        BY <3>6, <3>7, <4>1
      <4>2. CASE h # new
        <5>1. Rising(h) /\ HasLine(h)
          BY <1>2, <3>8, <4>2 DEF OneLine
        <5>2. \A j \in 1 .. Len(log) : j \in 1 .. Len(log') /\ log'[j] = log[j]
          BY <1>2, <3>3
        <5>3. HasLine(h)'
          BY <5>1, <5>2 DEF HasLine
        <5>4. QED BY <5>1, <5>3
      <4>3. QED BY <4>1, <4>2
    <3>11. FutureOK'
      <4>1. \A h \in Known' : Before(h, rev + 1)
        BY <1>1, <1>2, <3>6, <3>8 DEF FutureOK
      <4>2. \A h \in OnDisk : Before(h, rev)
        BY <1>1, <1>2 DEF FutureOK
      <4>3. \A t \in transactions' : fi'.tab[t.branch] # Null => Before(fi'.tab[t.branch], rev)
        <5> SUFFICES ASSUME NEW t \in transactions', fi'.tab[t.branch] # Null
                     PROVE  Before(fi'.tab[t.branch], rev)
          OBVIOUS
        <5>1. t \in transactions /\ t # txn /\ t.branch \in Branch
          BY <2>1 DEF IInv, TransactionsOK, Transaction
        <5>2. t.branch # b
          BY <5>1 DEF IInv, TransactionsOK, OutstandingExact
        <5>3. fi'.tab[t.branch] = f.tab[t.branch]
          BY <2>1, <3>1, <5>1, <5>2
        <5>4. CASE processHasStarted
          BY <1>1, <1>2, <2>2, <5>1, <5>3, <5>4 DEF FutureOK
        <5>5. CASE ~ processHasStarted
          <6>1. f.tab[t.branch] \in OnDisk
            BY <2>2, <5>1, <5>3, <5>5, LiveFacts DEF OnDisk
          <6>2. QED BY <4>2, <5>3, <6>1
        <5>6. QED BY <1>2, <5>4, <5>5
      <4> HIDE DEF Known, OnDisk
      <4>4. QED BY <1>1, <2>1, <3>8, <4>1, <4>2, <4>3 DEF FutureOK
    <3>12. MarksKept'
      <4>1. LinesRead = Len(log) /\ LinesRead' = Len(log') /\ MarkTable' = g.mark
        BY <1>1, <2>1 DEF LinesRead, MarkTable
      <4>2. \A j \in 1 .. Len(log') : j \in 1 .. Len(log) \/ log'[j] = line
        BY <1>2, <3>3
      <4>3. \A j \in 1 .. Len(log') : log'[j].mark <= mark
        <5> SUFFICES ASSUME NEW j \in 1 .. Len(log') PROVE log'[j].mark <= mark
          OBVIOUS
        <5>1. CASE log'[j] = line
          BY <1>2, <3>2, <5>1
        <5>2. CASE j \in 1 .. Len(log)
          <6>1. log[j].mark \in Int /\ log[j].mark <= last_commit_mark
            BY <1>2, <4>1, <5>2, LogFacts DEF MarksKept, Line, Mark
          <6>2. QED BY <1>2, <3>3, <5>2, <6>1
        <5>3. QED BY <4>2, <5>1, <5>2
      <4>4. 1 .. mark \subseteq CommitMark
        BY <1>2, <2>1, Bounds DEF CommitMark
      <4>5. \A m \in 1 .. mark : g.mark[m] # Null
        <5> SUFFICES ASSUME NEW m \in 1 .. mark, m # mark PROVE g.mark[m] # Null
          BY <2>1, <3>1
        <5>1. m \in 1 .. last_commit_mark
          BY <1>2
        <5>2. f.mark[m] # Null
          BY <1>2, <2>2, <5>1 DEF MarksKept
        <5>3. QED BY <3>1, <4>4, <5>2
      <4>6. Gapless(f.mark)
        BY <1>2, <2>2 DEF MarksKept, MarkTable
      <4>7. Gapless(g.mark)
        <5> SUFFICES ASSUME NEW m \in CommitMark, g.mark[m] # Null, NEW k \in 1 .. m
                     PROVE  g.mark[k] # Null
          BY DEF Gapless
        <5>1. k \in CommitMark
          BY Bounds DEF CommitMark
        <5>2. CASE m = mark
          BY <4>5, <5>2
        <5>3. CASE m # mark
          <6>1. f.mark[k] # Null
            BY <3>1, <4>6, <5>3 DEF Gapless
          <6>2. QED BY <3>1, <5>1, <6>1
        <5>4. QED BY <5>2, <5>3
      <4>8. \A j \in 1 .. Len(log') : log'[j].mark # 0 /\ disk.mark[log'[j].mark] = Null
                => \A h \in OnDisk : Before(h, log'[j].rev)
        <5>1. \A h \in OnDisk : Before(h, rev)
          BY <1>1, <1>2 DEF FutureOK
        <5>2. QED BY <1>2, <3>2, <3>3, <4>2, <5>1 DEF MarksKept
      <4>9. QED BY <1>1, <1>2, <2>1, <3>8, <4>1, <4>3, <4>5, <4>7, <4>8 DEF MarksKept
    <3>13. QED BY <3>9, <3>10, <3>11, <3>12 DEF OnceInv
  <2>7. QED BY <2>5, <2>6
<1>5. QED BY <1>3, <1>4

\* The empty repository satisfies the invariant.
LEMMA OnceInit == Init => OnceInv /\ UsedMarks
<1> SUFFICES ASSUME Init PROVE OnceInv /\ UsedMarks
  OBVIOUS
<1>1. /\ fi = Git!Started(Git!EmptyDisk) /\ disk = Git!EmptyDisk /\ transactions = {}
      /\ queue = <<>> /\ phase = "idle" /\ processHasStarted = FALSE /\ log = <<>>
      /\ last_commit_mark = 0 /\ branches = InitialBranches
      /\ deletedBranches = <<>> /\ resetBranches = <<>>
  BY DEF Init
<1>2. /\ fi \in Process /\ Live(fi) \subseteq {Null} /\ ~ fi.dead /\ Gapless(fi.mark)
  BY <1>1, NothingRunning DEF Gapless
<1>3. /\ disk \in Disk /\ On(disk) \subseteq {Null} /\ Gapless(disk.mark)
  BY <1>1, EmptyDiskType DEF Git!EmptyDisk, On, Gapless
<1>4. Known = {} /\ OnDisk = {}
  BY <1>2, <1>3 DEF Known, OnDisk
<1>5. StoreOK
  BY <1>1, <1>2, <1>3 DEF StoreOK
<1>6. OneLine
  BY <1>4 DEF OneLine
<1>7. FutureOK
  BY <1>1, <1>4 DEF FutureOK
<1>8. MarksKept
  BY <1>1, <1>2, <1>3, NothingUsed DEF MarksKept, LinesRead
<1>9. UsedMarks
  BY <1>1, NothingUsed DEF UsedMarks, Used
<1>10. QED BY <1>5, <1>6, <1>7, <1>8, <1>9 DEF OnceInv

\* Every step of the converter keeps it.
LEMMA OnceStep ==
    ASSUME NullIsNoHistory, "commit" \notin EvictPhases, IInv, IInv', UsedMarks, OnceInv,
           [Next]_vars
    PROVE  OnceInv'
<1>1. CASE UNCHANGED vars
  <2>1. UNCHANGED <<fi, disk, log, transactions, phase, queue, processHasStarted, rev, pos,
                    last_commit_mark>>
    BY <1>1 DEF vars, memory, driver, stored
  <2>2. Known' = Known /\ OnDisk' = OnDisk /\ MarkTable' = MarkTable /\ LinesRead' = LinesRead
    BY <2>1 DEF Known, OnDisk, MarkTable, LinesRead
  <2>3. StoreOK' /\ OneLine'
    BY <2>1, <2>2 DEF OnceInv, StoreOK, OneLine, HasLine
  <2> HIDE DEF Known, OnDisk
  <2>4. ~ fi.dead => FutureOK' /\ MarksKept'
    BY <2>1, <2>2 DEF OnceInv, FutureOK, MarksKept
  <2>5. QED BY <2>1, <2>3, <2>4 DEF OnceInv
<1>2. CASE Next
  <2>1. CASE BeginRevision \/ CreateBranch \/ DeleteBranch \/ EndRevision
    BY <2>1, OnceQuiet
  <2>2. CASE RestoreLine
    BY <2>2, OnceRestoreLine
  <2>3. CASE StartExport
    BY <2>3, OnceStartExport
  <2>4. CASE ChangeFile
    BY <2>4, OnceChangeFile
  <2>5. CASE Flush
    BY <2>5, OnceFlush
  <2>6. CASE WriteReset
    BY <2>6, OnceWriteReset
  <2>7. CASE \E txn \in transactions : CommitTransaction(txn)
    BY <2>7, OnceCommitTransaction
  <2>8. CASE Evict
    BY <2>8, OnceEvict
  <2>9. CASE \E kind \in CrashKinds : Crash(kind)
    BY <2>9, OnceCrash
  <2>10. CASE Finish
    BY <2>10, OnceFinish
  <2>11. QED
    BY <1>2, <2>1, <2>2, <2>3, <2>4, <2>5, <2>6, <2>7, <2>8, <2>9, <2>10 DEF Next
<1>3. QED BY <1>1, <1>2

\* It says what NoCommitTwice says, of every history there is.
LEMMA TipsRise == OnceInv => NoCommitTwice
<1> SUFFICES ASSUME OnceInv, NEW b \in Branch PROVE Rising(GitTip(b))
  BY DEF NoCommitTwice, Rising
<1>1. /\ fi \in Process /\ disk \in Disk /\ OneLine
  BY DEF OnceInv, StoreOK
<1> DEFINE tip == IF processHasStarted THEN Git!RefTip(fi, disk, b) ELSE disk.ref[b]
<1>2. tip \in Live(fi) \cup On(disk)
  BY <1>1, RefTipFacts, OnFacts
<1>3. GitTip(b) = IF tip = Null THEN <<>> ELSE tip
  BY DEF GitTip
<1> HIDE DEF tip
<1>4. tip # Null => tip \in Known
  BY <1>2 DEF Known
<1>5. QED BY <1>1, <1>3, <1>4, EmptyHistory DEF OneLine

\* NoCommitTwice: no revision is committed twice on one line of history, whatever evictions,
\* interrupts and restarts come between, so long as the process cache closes the process
\* only between revisions or operations (never between the commits of one revision, where
\* an interrupt that follows would repeat a commit that is on disk already).
THEOREM CommittedOnce ==
    ASSUME NullIsNoHistory, "commit" \notin EvictPhases
    PROVE  Spec => []NoCommitTwice
<1>1. Init => IInv /\ UsedMarks /\ OnceInv
  BY InitIInv, OnceInit
<1>2. IInv /\ UsedMarks /\ OnceInv /\ [Next]_vars => (IInv /\ UsedMarks /\ OnceInv)'
  BY StepIInv, UsedStep, OnceStep
<1>3. IInv /\ UsedMarks /\ OnceInv => NoCommitTwice
  BY TipsRise
<1>4. QED BY <1>1, <1>2, <1>3, PTL DEF Spec
=============================================================================
