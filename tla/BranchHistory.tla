--------------------------- MODULE BranchHistory ---------------------------
(***************************************************************************)
(* What the converter promises of one git repository: revision after       *)
(* revision, all branches move at once to the histories the revision calls *)
(* for.  There are no processes, marks, logs or restarts here.             *)
(***************************************************************************)
EXTENDS SvnHistory

VARIABLES
    seen,  \* seen[r]: the tips revision r calls for
    git    \* the tips of the git repository

vars == <<seen, git>>

Init == seen = <<>> /\ git = NoTips

Export(ops) ==
    /\ seen' = Append(seen, TipsAfter(seen, ops))
    /\ git' = TipsAfter(seen, ops)

Next == Len(seen') = Len(seen) + 1 /\ \E ops \in Revisions(seen) : Export(ops)

Spec == Init /\ [][Next]_vars
=============================================================================
