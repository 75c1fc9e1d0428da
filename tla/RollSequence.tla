---------------------------- MODULE RollSequence ----------------------------
(***************************************************************************)
(* A sequence of rolls under the three strategies: revisions land in the   *)
(* child, UpdateRepos chooses the next one to roll, and the roll lands.    *)
(***************************************************************************)
EXTENDS Strategies

CONSTANTS MaxRev,     \* bound on the revisions
          Strategy    \* the strategies which the roller's config allows

ASSUME MaxRevAssumption == MaxRev \in Nat
ASSUME StrategyAssumption == Strategy \subseteq ValidStrategies

VARIABLES strategy, tip,
          parent,  \* the revision which the parent repo is at
          known    \* the revisions which UpdateRepos stored last

revs == <<strategy, tip, parent, known>>

Init ==
  /\ strategy \in Strategy
  /\ tip = 0 /\ parent = 0
  /\ known = [last |-> 0, tip |-> 0, next |-> 0]

NewRevision ==
  /\ tip < MaxRev
  /\ tip' = tip + 1
  /\ UNCHANGED <<strategy, parent, known>>

SetStrategy ==
  /\ strategy' \in Strategy \ {strategy}
  /\ UNCHANGED <<tip, parent, known>>

\* UpdateRepos when the parent is at last; its sanity checks may fail.
Sync(last) ==
  LET next == GetNextRollRev(strategy, last, tip)
  IN  /\ SaneRevs(next, last, tip)
      /\ known' = [last |-> last, tip |-> tip, next |-> next]

UpdateRepos == Sync(parent) /\ UNCHANGED <<strategy, tip, parent>>

\* Mutant: the roller syncs to the revision from before the roll.
RollLandsUnseen ==
  /\ known.next # known.last
  /\ Sync(known.last)
  /\ UNCHANGED <<strategy, tip, parent>>

\* The roll to the chosen revision lands, and the roller syncs.
RollLands ==
  /\ known.next # known.last
  /\ parent' = known.next
  /\ Sync(known.next)
  /\ UNCHANGED <<strategy, tip>>

(***************************************************************************)
(* Properties.                                                             *)
(***************************************************************************)

\* What NextRollStrategy promises, wherever rolls and manual rolls have taken
\* the parent: the revision to roll is a valid one which is not yet rolled, and
\* nil, for which UpdateRepos takes the last rolled revision, means that there
\* is none.
NextRollIsRight ==
  LET candidates == Valid(NotRolled(known.last, tip))
      next == GetNextRollRev(strategy, known.last, tip)
  IN  IF candidates = {} THEN next = known.last ELSE next \in candidates

\* The roller rolls whatever there is to roll, also after a manual roll has
\* taken the parent back or to an invalid revision.
CatchesUp == []<>(Valid(NotRolled(known.last, tip)) = {})
=============================================================================
