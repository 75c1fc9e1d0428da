--------------------------- MODULE MCTaskScheduler ---------------------------
(***************************************************************************)
(* Instances of TaskScheduler: a chain of commits, and jobs at its end and *)
(* in its middle.                                                          *)
(***************************************************************************)
EXTENDS TaskScheduler

MCCommits == 1 .. 3
MCParents == [c \in MCCommits |-> {c - 1} \intersect MCCommits]

Regular(c) == [rev |-> c, forced |-> FALSE]
Forced(c) == [rev |-> c, forced |-> TRUE]

BackfillKinds == {Forced(3), Regular(2)}
==============================================================================
