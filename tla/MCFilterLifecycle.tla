------------------------- MODULE MCFilterLifecycle -------------------------
(* Instances of FilterLifecycle for TLC: two filters, f1 with a copy in the *)
(* package, both of one group.                                             *)
EXTENDS FilterLifecycle, TLC

CONSTANTS f1, f2, g1, t1, t2

MCFilters == {f1, f2}
MCOneFilter == {f1}
MCGroups == {g1}
MCGroupOf == [f \in Filters |-> g1]
MCTasks == {t1, t2}
MCOneTask == {t1}

\* Tasks are interchangeable slots (used by the runs without liveness).
TaskSymmetry == Permutations(MCTasks)
=============================================================================
