---------------------------- MODULE ProcessCache ----------------------------
(***************************************************************************)
(* The converter keeps at most maxSimultaneousProcesses fast-import        *)
(* processes: ProcessCache, startFastImport and closeFastImport of         *)
(* src/src/repository.cpp, seen from all repositories at once.  Every      *)
(* operation that writes to a repository touches the cache first, and the  *)
(* process unused for longest is closed when there is no room.             *)
(*                                                                         *)
(* What is written is left to module Repository, whose Evict is Close here *)
(* as one repository sees it.                                              *)
(***************************************************************************)
EXTENDS Naturals, Sequences, SequencesExt, FiniteSets

CONSTANTS
    Repo,                      \* the repositories of the rules
    maxSimultaneousProcesses,  \* 100 in the code
    MaxCrash                   \* bound: repositories whose process ends on its own

ASSUME ProcessCacheAssumption ==
    /\ IsFiniteSet(Repo)
    /\ maxSimultaneousProcesses \in Nat \ {0}
    /\ MaxCrash \in Nat

VARIABLES
    cache,              \* QLinkedList: the repositories in order of their last use
    state,              \* state[r]: QProcess::state of r's process
    processHasStarted,  \* processHasStarted[r]
    aborted,            \* qFatal has ended the converter
    deleted,            \* the repositories main has destroyed at the end
    crashed,            \* the repositories whose process has ended on its own
    used                \* all repositories ever used, in order of their last use; kept
                        \* for the properties, the code has nothing like it

vars == <<cache, state, processHasStarted, aborted, deleted, crashed, used>>

Init ==
    /\ cache = <<>>
    /\ state = [r \in Repo |-> "NotRunning"]
    /\ processHasStarted = [r \in Repo |-> FALSE]
    /\ aborted = FALSE
    /\ deleted = {}
    /\ crashed = {}
    /\ used = <<>>

\* Mutant: the repository stays where it was in the list.
WithoutNothing(list, r) == list

\* ProcessCache::remove: removeOne, the first occurrence.
Without(list, r) == RemoveFirst(list, r)

\* Mutant: `size() > max` in touch.
RoomForOneLess(list) ==
    IF Len(list) <= maxSimultaneousProcesses THEN list
    ELSE SubSeq(list, Len(list) - maxSimultaneousProcesses + 1, Len(list))

\* ProcessCache::touch makes room, from the front, before it appends.
Room(list) ==
    IF Len(list) < maxSimultaneousProcesses THEN list
    ELSE SubSeq(list, Len(list) - maxSimultaneousProcesses + 2, Len(list))

\* Mutant: first come, first served; a repository in the list keeps its place.
TouchedOnce(r) == IF r \in Range(cache) THEN cache ELSE Append(Room(cache), r)

Touched(r) == Append(Room(Without(cache, r)), r)

\* The repositories whose process touch closes.
Victims(r) == Range(Without(cache, r)) \ Range(Room(Without(cache, r)))

\* Mutant: closeFastImport forgets to note that the process is gone.
HasStartedForever(closed) == processHasStarted

\* closeFastImport, for all of them: a process that still runs is waited for.
HasStartedAfterClosing(closed) ==
    [r \in Repo |-> r \notin closed /\ processHasStarted[r]]

\* startFastImport of r; what it writes next (reloadBranches) finds r in the cache.
\* A process that has been started and is not running has crashed: qFatal.
StartFastImport(r) ==
    LET closed   == Victims(r)
        died     == state[r] = "NotRunning" /\ processHasStarted[r]
    IN  /\ ~ aborted
        /\ r \notin deleted
        /\ cache' = Touched(r)
        /\ aborted' = died
        /\ processHasStarted' = [HasStartedAfterClosing(closed) EXCEPT ![r] = TRUE]
        /\ state' = [s \in Repo |->
               IF s \in closed THEN "NotRunning"
               ELSE IF s = r /\ ~ died THEN "Running" ELSE state[s]]
        /\ used' = Append(Without(used, r), r)
        /\ UNCHANGED <<deleted, crashed>>

\* The destructor, at the end of main.
Delete(r) ==
    /\ ~ aborted
    /\ r \notin deleted
    /\ deleted' = deleted \cup {r}
    /\ cache' = Without(cache, r)
    /\ state' = [state EXCEPT ![r] = "NotRunning"]
    /\ processHasStarted' = HasStartedAfterClosing({r})
    /\ UNCHANGED <<aborted, crashed, used>>

\* A fast-import process ends on its own (a command it rejects, a full disk).
ProcessCrash(r) ==
    /\ ~ aborted
    /\ state[r] = "Running"
    /\ Cardinality(crashed) < MaxCrash
    /\ crashed' = crashed \cup {r}
    /\ state' = [state EXCEPT ![r] = "NotRunning"]
    /\ UNCHANGED <<cache, processHasStarted, aborted, deleted, used>>

Next ==
    \E r \in Repo : StartFastImport(r) \/ Delete(r) \/ ProcessCrash(r)

Spec == Init /\ [][Next]_vars

-----------------------------------------------------------------------------
(* Properties *)

RunningProcesses == {r \in Repo : state[r] = "Running"}

TypeOK ==
    /\ cache \in Seq(Repo) /\ Len(cache) <= maxSimultaneousProcesses
    /\ state \in [Repo -> {"NotRunning", "Running"}]
    /\ processHasStarted \in [Repo -> BOOLEAN]
    /\ aborted \in BOOLEAN
    /\ deleted \subseteq Repo
    /\ crashed \subseteq Repo
    /\ used \in Seq(Repo)

\* The limit holds: at no time do more processes run than the cache has places
\* (ProcessCache::touch).
ProcessLimit == Cardinality(RunningProcesses) <= maxSimultaneousProcesses

\* No process escapes the cache: one that was started and not closed is in the list,
\* so that it can be closed to make room, and it is there once.
CacheIsExact ==
    /\ \A r \in Repo : processHasStarted[r] <=> r \in Range(cache)
    /\ \A i, j \in DOMAIN cache : cache[i] = cache[j] => i = j
    /\ RunningProcesses \subseteq Range(cache)

\* Being closed to make room is not taken for a crash: the converter aborts in
\* startFastImport only for a repository whose process has really ended on its own.
AbortsOnlyAfterCrash == aborted => used # <<>> /\ used[Len(used)] \in crashed

\* "git-fast-import has been started once and crashed?": a repository whose process has
\* ended on its own never gets another one (startFastImport).
CrashIsNoticed == \A r \in crashed : state[r] = "NotRunning"

\* It is the process unused for longest that goes: whatever is still in the cache was
\* used after everything that was closed to make room.
LeastRecentlyUsedGoes ==
    \A i, j \in DOMAIN used :
        (used[i] \in Range(cache) /\ used[j] \notin Range(cache) \cup deleted) => j < i
=============================================================================
