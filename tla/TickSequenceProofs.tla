------------------------- MODULE TickSequenceProofs -------------------------
(***************************************************************************)
(* Proofs about TickSequence.                                              *)
(***************************************************************************)
EXTENDS TickSequence, RollerStatesProofs

\* The throttles which GetNext may find reached leave the rest of the view.
LEMMA DecidedType ==
  ASSUME v \in Views, NEW reached
  PROVE  Decided(reached) \in Views /\ Decided(reached).mode \in ValidModes
           /\ Decided(reached).hasRoll = v.hasRoll
<1>1. [t \in Throttles |-> v.throttled[t] \/ t \in reached]
        \in [Throttles -> BOOLEAN]
  OBVIOUS
<1> QED BY <1>1 DEF Decided, Views

\* The initial state and the view have their types.
LEMMA InitType == Init => TypeOK
  BY DEF Init, TypeOK, Done, MAX_NOOP_TRANSITIONS

\* Every transition leads to a state of the table.
LEMMA NextType == TypeOK /\ [Next]_<<s, v, hops>> => TypeOK'
<1> SUFFICES ASSUME TypeOK, [Next]_<<s, v, hops>> PROVE TypeOK'
  OBVIOUS
<1>1. CASE NextTransition
  <2>1. PICK reached \in SUBSET IncrementedBy(s, v) :
          v' = Decided(reached) /\ s' = GetNext(s, Decided(reached))
    BY <1>1 DEF NextTransition
  <2>2. v' \in Views /\ s' \in States
    BY <2>1, DecidedType, NextTransitionType DEF TypeOK
  <2> QED
    BY <1>1, <2>2 DEF NextTransition, TypeOK, Done, MAX_NOOP_TRANSITIONS
<1>2. CASE EndOfSequence
  BY <1>2 DEF EndOfSequence, TypeOK, Done, MAX_NOOP_TRANSITIONS
<1>3. CASE UNCHANGED <<s, v, hops>>
  BY <1>3 DEF TypeOK
<1> QED BY <1>1, <1>2, <1>3 DEF Next

\* In every state, with every view and whatever throttle is reached, the
\* transition which GetNext asks for is registered.
THEOREM NextIsAlwaysDefined == Spec => []TransitionIsDefined
<1>1. TypeOK => TransitionIsDefined
  <2> SUFFICES ASSUME TypeOK, NEW reached \in SUBSET IncrementedBy(s, v)
               PROVE  Chosen(Decided(reached)) # NoTransition
    BY DEF TransitionIsDefined
  <2>1. Chosen(Decided(reached)) \in Funcs
    BY DecidedType, NextTransitionType DEF TypeOK, Chosen
  <2> QED BY <2>1, NoTransitionIsNoFunc
<1> QED BY <1>1, InitType, NextType, PTL DEF Spec

\* In every state and with every view, a function which needs the active
\* roll is asked for only when there is one.
THEOREM RollIsAlwaysThere == Spec => []RollIsThere
<1>1. TypeOK => RollIsThere
  <2> SUFFICES ASSUME TypeOK, NEW reached \in SUBSET IncrementedBy(s, v),
                      Chosen(Decided(reached)) \in NeedsRoll
               PROVE  v.hasRoll
    BY DEF RollIsThere
  <2> QED
    BY DecidedType, NextHasItsRoll DEF TypeOK, Chosen
<1> QED BY <1>1, InitType, NextType, PTL DEF Spec

\* How many no-op transitions can still follow in state st with the view w.
NoopsLeft(st, w) ==
  IF IsLast(st, w) THEN 0
  ELSE IF st \in OneFromLast THEN 1
  ELSE IF st \in ThreeFromLast THEN 3
  ELSE 2

LEMMA NoopsLeftType ==
  ASSUME NEW st, NEW w
  PROVE  NoopsLeft(st, w) \in 0 .. 3
  BY DEF NoopsLeft

\* A throttle which is reached takes none of them back.
LEMMA ReachedKeepsLast ==
  ASSUME v \in Views, NEW reached
  PROVE  NoopsLeft(s, Decided(reached)) <= NoopsLeft(s, v)
<1>1. /\ Decided(reached).mode = v.mode
      /\ Decided(reached).inWindow = v.inWindow
      /\ v.throttled["success"] => Decided(reached).throttled["success"]
  BY DEF Decided, Views, Throttles
<1>2. IsLast(s, v) => IsLast(s, Decided(reached))
  BY <1>1 DEF IsLast
<1> QED BY <1>2 DEF NoopsLeft

\* Once a transition has been made, those made and those which can follow are
\* at most four.
HopsInv ==
  hops \in 1 .. MAX_NOOP_TRANSITIONS + 1 => hops + NoopsLeft(s, v) <= 4

\* The first transition starts the count, a no-op takes one away from what is
\* left.
LEMMA NextHops ==
  TypeOK /\ HopsInv /\ [Next]_<<s, v, hops>> => HopsInv'
<1> SUFFICES ASSUME TypeOK, HopsInv, [Next]_<<s, v, hops>> PROVE HopsInv'
  OBVIOUS
<1> USE DEF HopsInv, TypeOK, Done, MAX_NOOP_TRANSITIONS
<1>1. CASE NextTransition
  <2>1. PICK reached \in SUBSET IncrementedBy(s, v) :
          /\ hops = 0 \/ Chosen(Decided(reached)) = F_NOOP
          /\ v' = Decided(reached)
          /\ s' = GetNext(s, v')
    BY <1>1 DEF NextTransition
  <2>2. hops' = hops + 1 /\ hops <= MAX_NOOP_TRANSITIONS
    BY <1>1 DEF NextTransition
  <2>3. v' \in Views /\ v'.mode \in ValidModes
    BY <2>1, DecidedType
  <2>4. NoopsLeft(s', v') \in 0 .. 3 /\ NoopsLeft(s, v) \in 0 .. 3
          /\ NoopsLeft(s, v') \in 0 .. 3
    BY NoopsLeftType
  <2>5. CASE hops = 0
    BY <2>2, <2>4, <2>5
  <2>6. CASE hops # 0
    <3>1. <<s, s', F_NOOP>> \in Transitions
      BY <2>1, <2>3, <2>6, NextTransitionType DEF Chosen
    <3>2. NoopsLeft(s', v') < NoopsLeft(s, v')
      BY <2>1, <2>3, <3>1, NoopsEnd DEF NoopsLeft
    <3>3. NoopsLeft(s, v') <= NoopsLeft(s, v)
      BY <2>1, ReachedKeepsLast
    <3> QED BY <2>2, <2>4, <2>6, <3>2, <3>3
  <2> QED BY <2>5, <2>6
<1>2. CASE EndOfSequence
  BY <1>2 DEF EndOfSequence
<1>3. CASE UNCHANGED <<s, v, hops>>
  BY <1>3
<1> QED BY <1>1, <1>2, <1>3 DEF Next

\* From every state, with every view and whatever throttle is reached on the
\* way, a tick makes at most three no-op transitions after its first one: the
\* table has no cycle of no-ops which one view can go round, and the limit of
\* NextTransitionSequence never cuts a chain short.
THEOREM NoopChainsEnd == Spec => []NoNoopLoop
<1>1. Init => HopsInv
  BY DEF Init, HopsInv
<1>2. TypeOK /\ HopsInv => NoNoopLoop
  <2>1. NoopsLeft(s, v) \in 0 .. 3
    BY NoopsLeftType
  <2> QED
    BY <2>1 DEF TypeOK, HopsInv, NoNoopLoop, Done, MAX_NOOP_TRANSITIONS
<1> QED
  BY <1>1, <1>2, InitType, NextType, NextHops, PTL DEF Spec
=============================================================================
