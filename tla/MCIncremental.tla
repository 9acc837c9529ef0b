--------------------------- MODULE MCIncremental ---------------------------
(* Incremental with constants for TLC. *)
EXTENDS Incremental, FiniteSets

CONSTANT MaxLines

\* The marks of a log with n lines: commits are numbered, other lines have mark 0.
Marks(commits, n) ==
    [i \in 1 .. n |-> IF i \in commits THEN Cardinality(commits \cap (1 .. i)) ELSE 0]

\* All logs of up to MaxLines lines.
SmallLogs ==
    UNION {{[i \in 1 .. n |-> [rev |-> revs[i], mark |-> Marks(commits, n)[i]]] :
               revs \in {f \in [1 .. n -> 1 .. MaxRev] :
                             \A i, j \in 1 .. n : i < j => f[i] <= f[j]},
               commits \in SUBSET (1 .. n)} : n \in 0 .. MaxLines}
=============================================================================
