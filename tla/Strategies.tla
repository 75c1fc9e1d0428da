----------------------------- MODULE Strategies -----------------------------
(***************************************************************************)
(* Which revision of the child to roll next                                *)
(* (autoroll/go/strategy/strategies.go, autoroll/go/roller/autoroller.go). *)
(*                                                                         *)
(* Revisions of the child are the naturals, in the order in which they     *)
(* landed; the revisions which are not yet rolled are the interval after   *)
(* the last rolled one.  Invalid is the set of revisions which the repo    *)
(* manager marks with an InvalidReason.                                    *)
(***************************************************************************)
EXTENDS Naturals

CONSTANTS
  Invalid,        \* revisions which are not roll candidates
  N_REVISIONS     \* the size of an n_batch roll (20 in the code)

ASSUME InvalidAssumption == Invalid \subseteq Nat
ASSUME BatchSizeAssumption == N_REVISIONS \in Nat \ {0}

ROLL_STRATEGY_BATCH == "batch"
ROLL_STRATEGY_N_BATCH == "n_batch"
ROLL_STRATEGY_SINGLE == "single"
ValidStrategies ==
  {ROLL_STRATEGY_BATCH, ROLL_STRATEGY_N_BATCH, ROLL_STRATEGY_SINGLE}

NotRolled(last, tip) == last + 1 .. tip

\* What rev.InvalidReason == "" keeps of a list of revisions.
Valid(revs) == revs \ Invalid

\* notRolled[idx:]: the list is in reverse order, so its tail is the oldest
\* N_REVISIONS revisions.
OldestBatch(last, tip) ==
  {r \in NotRolled(last, tip) : r <= last + N_REVISIONS}

\* The newest and the oldest of a set of revisions, or nil if it is empty.
Newest(revs, nil) ==
  IF \E r \in revs : \A q \in revs : q <= r
  THEN CHOOSE r \in revs : \A q \in revs : q <= r
  ELSE nil

Oldest(revs, nil) ==
  IF \E r \in revs : \A q \in revs : r <= q
  THEN CHOOSE r \in revs : \A q \in revs : r <= q
  ELSE nil

\* Mutant: only the newest revision is considered.
GetNextRollRevTipOnly(strategy, last, tip) ==
  Newest(Valid({tip} \cap NotRolled(last, tip)), last)

(***************************************************************************)
(* GetNextRollRev of the three strategies.  Every caller replaces a nil    *)
(* result by the last rolled revision.                                     *)
(***************************************************************************)
GetNextRollRev(strategy, last, tip) ==
  CASE strategy = ROLL_STRATEGY_BATCH ->
         Newest(Valid(NotRolled(last, tip)), last)
    [] strategy = ROLL_STRATEGY_N_BATCH ->
         Newest(Valid(OldestBatch(last, tip)), last)
    [] strategy = ROLL_STRATEGY_SINGLE ->
         Oldest(Valid(NotRolled(last, tip)), last)

(***************************************************************************)
(* The sanity checks of UpdateRepos which these revisions can fail: the    *)
(* revision is neither rolled nor to be rolled, or there is a candidate    *)
(* and the strategy has not found one.                                     *)
(***************************************************************************)
SaneRevs(next, last, tip) ==
  /\ next \in NotRolled(last, tip) \cup {last}
  /\ next = last => Valid(NotRolled(last, tip)) = {}

\* Mutant: a revision which is the last rolled one is not past.
RolledPastStrictly(rev, known) ==
  /\ rev # known.next
  /\ rev # known.tip
  /\ rev \notin NotRolled(known.last, known.tip)

(***************************************************************************)
(* RolledPast, as a function of the revisions UpdateRepos stored.          *)
(***************************************************************************)
RolledPast(rev, known) ==
  \/ rev = known.last
  \/ /\ rev # known.next
     /\ rev # known.tip
     /\ rev \notin NotRolled(known.last, known.tip)
=============================================================================
