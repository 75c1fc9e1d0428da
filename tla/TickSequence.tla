---------------------------- MODULE TickSequence ----------------------------
(***************************************************************************)
(* NextTransitionSequence over the whole table: from every state and every *)
(* consistent view of the roller, the chain of transitions of one tick.    *)
(* The mode, the roll and the revisions are those the tick began with; the *)
(* throttle which GetNext increments may thereby be reached.               *)
(*                                                                         *)
(* The transition functions are taken to succeed, and to leave the view as *)
(* it is: what they change is the subject of AutoRoll.                     *)
(***************************************************************************)
EXTENDS RollerStates, Naturals

VARIABLES s,     \* the current state
          v,     \* the view of the roller
          hops   \* transitions made in this tick; Done when it has ended

Done == MAX_NOOP_TRANSITIONS + 2

\* Without a roll, nothing is said about one; a success is finished; the two
\* kinds of results exclude each other (AutoRollIssue.Validate).
Consistent(w) ==
  /\ ~w.hasRoll => ~(w.closed \/ w.finished \/ w.dryFinished \/ w.wanted)
  /\ w.success => w.finished
  /\ w.drySuccess => w.dryFinished
  /\ ~(w.finished /\ w.dryFinished)

Init ==
  /\ s \in States
  /\ v \in {w \in Views : Consistent(w)}
  /\ hops = 0

\* The view with which GetNext decides.
Decided(reached) ==
  [v EXCEPT !.throttled = [t \in Throttles |-> @[t] \/ t \in reached]]

Chosen(w) == GetTransitionName(s, GetNext(s, w))

NextTransition ==
  /\ hops <= MAX_NOOP_TRANSITIONS
  /\ \E reached \in SUBSET IncrementedBy(s, v) :
       LET w == Decided(reached)
       IN  /\ hops = 0 \/ Chosen(w) = F_NOOP
           /\ v' = w
           /\ s' = GetNext(s, w)
  /\ hops' = hops + 1

EndOfSequence ==
  /\ hops > 0
  /\ hops # Done
  /\ \/ hops > MAX_NOOP_TRANSITIONS
     \/ \E reached \in SUBSET IncrementedBy(s, v) :
          Chosen(Decided(reached)) # F_NOOP
  /\ hops' = Done
  /\ UNCHANGED <<s, v>>

Next == NextTransition \/ EndOfSequence

Spec == Init /\ [][Next]_<<s, v, hops>>

(***************************************************************************)
(* Properties.                                                             *)
(***************************************************************************)

\* Every variable has its type.
TypeOK ==
  /\ s \in States
  /\ v \in Views
  /\ hops \in 0 .. Done

\* Whatever GetNext answers, New() has registered a transition for it:
\* GetTransitionName and Transition never fail for want of one.
TransitionIsDefined ==
  \A reached \in SUBSET IncrementedBy(s, v) :
    Chosen(Decided(reached)) # NoTransition

\* GetNext never asks for a function which needs an active roll when there
\* is none: the states which lead to one check for it.
RollIsThere ==
  \A reached \in SUBSET IncrementedBy(s, v) :
    Chosen(Decided(reached)) \in NeedsRoll => v.hasRoll

\* A tick makes at most three no-op transitions after its first one, so the
\* bound which guards against a loop is never reached.
NoNoopLoop == hops \in 0 .. 4 \cup {Done}
=============================================================================
