------------------------- MODULE RollerStatesProofs -------------------------
(***************************************************************************)
(* Facts about the transition table and GetNext, for every state and every *)
(* view of the roller: GetNext and the table agree, and an open roll is    *)
(* looked after or closed.                                                 *)
(***************************************************************************)
EXTENDS RollerStates, TLAPS

\* The states in which a roll CL may be open between two transitions: those
\* which look after a roll, except the one in which it has landed.
LiveStates == RollStates \ {S_NORMAL_SUCCESS}

\* GetTransitionName finds a registered transition, if there is one.
LEMMA NameIsRegistered ==
  ASSUME NEW from, NEW to, NEW f \in Funcs, <<from, to, f>> \in Transitions
  PROVE  /\ GetTransitionName(from, to) \in Funcs
         /\ <<from, to, GetTransitionName(from, to)>> \in Transitions
  BY DEF GetTransitionName

\* The states to which GetNext leads from s.
LeadsTo(s, d) ==
  \/ s = S_NORMAL_IDLE /\ d \in
        {S_STOPPED, S_NORMAL_IDLE, S_DRY_RUN_IDLE, S_NORMAL_SAFETY_THROTTLED,
         S_NORMAL_SUCCESS_THROTTLED, S_NORMAL_ACTIVE, S_NORMAL_WAIT_FOR_WINDOW}
  \/ s = S_NORMAL_ACTIVE /\ d \in
        {S_NORMAL_ACTIVE, S_DRY_RUN_ACTIVE, S_NORMAL_SUCCESS, S_NORMAL_FAILURE,
         S_STOPPED, S_CURRENT_ROLL_MISSING}
  \/ s = S_NORMAL_SUCCESS /\ d \in
        {S_NORMAL_IDLE, S_NORMAL_SUCCESS_THROTTLED, S_CURRENT_ROLL_MISSING}
  \/ s = S_NORMAL_SUCCESS_THROTTLED /\ d \in
        {S_NORMAL_SUCCESS_THROTTLED, S_NORMAL_IDLE, S_DRY_RUN_IDLE, S_STOPPED}
  \/ s = S_NORMAL_FAILURE /\ d \in
        {S_NORMAL_IDLE, S_NORMAL_FAILURE_THROTTLED, S_CURRENT_ROLL_MISSING}
  \/ s = S_NORMAL_FAILURE_THROTTLED /\ d \in
        {S_NORMAL_FAILURE_THROTTLED, S_NORMAL_SUCCESS, S_NORMAL_FAILURE,
         S_NORMAL_ACTIVE, S_DRY_RUN_ACTIVE, S_NORMAL_IDLE, S_STOPPED,
         S_CURRENT_ROLL_MISSING}
  \/ s = S_NORMAL_SAFETY_THROTTLED /\ d \in
        {S_NORMAL_IDLE, S_NORMAL_SAFETY_THROTTLED}
  \/ s = S_NORMAL_WAIT_FOR_WINDOW /\ d \in
        {S_NORMAL_WAIT_FOR_WINDOW, S_NORMAL_IDLE}
  \/ s = S_DRY_RUN_IDLE /\ d \in
        {S_STOPPED, S_DRY_RUN_IDLE, S_NORMAL_IDLE, S_NORMAL_SUCCESS_THROTTLED,
         S_DRY_RUN_SAFETY_THROTTLED, S_DRY_RUN_ACTIVE}
  \/ s = S_DRY_RUN_ACTIVE /\ d \in
        {S_DRY_RUN_ACTIVE, S_NORMAL_ACTIVE, S_DRY_RUN_SUCCESS, S_DRY_RUN_FAILURE,
         S_STOPPED, S_NORMAL_SUCCESS, S_NORMAL_FAILURE, S_CURRENT_ROLL_MISSING}
  \/ s = S_DRY_RUN_SUCCESS /\ d \in
        {S_DRY_RUN_IDLE, S_DRY_RUN_SUCCESS_LEAVING_OPEN, S_CURRENT_ROLL_MISSING}
  \/ s = S_DRY_RUN_SUCCESS_LEAVING_OPEN /\ d \in
        {S_DRY_RUN_SUCCESS_LEAVING_OPEN, S_NORMAL_ACTIVE, S_STOPPED,
         S_DRY_RUN_IDLE, S_CURRENT_ROLL_MISSING}
  \/ s = S_DRY_RUN_FAILURE /\ d \in
        {S_DRY_RUN_IDLE, S_DRY_RUN_FAILURE_THROTTLED, S_CURRENT_ROLL_MISSING}
  \/ s = S_DRY_RUN_FAILURE_THROTTLED /\ d \in
        {S_DRY_RUN_FAILURE_THROTTLED, S_DRY_RUN_IDLE, S_DRY_RUN_ACTIVE,
         S_DRY_RUN_FAILURE, S_NORMAL_ACTIVE, S_STOPPED, S_CURRENT_ROLL_MISSING}
  \/ s = S_DRY_RUN_SAFETY_THROTTLED /\ d \in
        {S_DRY_RUN_IDLE, S_DRY_RUN_SAFETY_THROTTLED}
  \/ s = S_STOPPED /\ d \in {S_STOPPED, S_NORMAL_IDLE, S_DRY_RUN_IDLE}
  \/ s = S_CURRENT_ROLL_MISSING /\ d = S_NORMAL_IDLE

\* All of them are registered.
LEMMA LeadsToRegistered ==
  ASSUME NEW s, NEW d, LeadsTo(s, d)
  PROVE  \E f \in Funcs : <<s, d, f>> \in Transitions
  BY DEF LeadsTo, Funcs, NeedsRoll, CloseFuncs, CqFuncs, DryRunFuncs,
    UploadFuncs, QuietFuncs, Transitions, StoppedTransitions,
    NormalTransitions, DryRunTransitions

USE DEF
  S_NORMAL_IDLE, S_NORMAL_ACTIVE, S_NORMAL_SUCCESS,
  S_NORMAL_SUCCESS_THROTTLED, S_NORMAL_FAILURE, S_NORMAL_FAILURE_THROTTLED,
  S_NORMAL_SAFETY_THROTTLED, S_NORMAL_WAIT_FOR_WINDOW, S_DRY_RUN_IDLE,
  S_DRY_RUN_ACTIVE, S_DRY_RUN_SUCCESS, S_DRY_RUN_SUCCESS_LEAVING_OPEN,
  S_DRY_RUN_FAILURE, S_DRY_RUN_FAILURE_THROTTLED,
  S_DRY_RUN_SAFETY_THROTTLED, S_STOPPED, S_CURRENT_ROLL_MISSING, F_NOOP,
  F_UPDATE_REPOS, F_UPLOAD_ROLL, F_UPLOAD_DRY_RUN, F_UPDATE_ROLL,
  F_SWITCH_TO_DRY_RUN, F_SWITCH_TO_NORMAL, F_CLOSE_FAILED, F_CLOSE_STOPPED,
  F_CLOSE_DRY_RUN_FAILED, F_CLOSE_DRY_RUN_OUTDATED, F_WAIT_FOR_LAND,
  F_RETRY_FAILED_NORMAL, F_RETRY_FAILED_DRY_RUN, F_NOTIFY_FAILURE_THROTTLE,
  F_NOTIFY_SAFETY_THROTTLE, F_ERROR_CURRENT_ROLL_MISSING, ModeRunning,
  ModeStopped, ModeDryRun

\* The error of GetTransitionName is not the name of a function.
LEMMA NoTransitionIsNoFunc == NoTransition \notin Funcs
  BY DEF NoTransition, Funcs, NeedsRoll, CloseFuncs, CqFuncs, DryRunFuncs,
    UploadFuncs, QuietFuncs

\* The functions which change nothing are neither uploads nor do they close
\* the roll; the functions which update something are neither, too.
LEMMA QuietFuncsDoNothing ==
  /\ QuietFuncs \cap (CloseFuncs \cup UploadFuncs) = {}
  /\ {F_UPDATE_ROLL, F_UPDATE_REPOS, F_WAIT_FOR_LAND}
       \cap (CloseFuncs \cup UploadFuncs) = {}
  /\ (CloseFuncs \cup CqFuncs \cup DryRunFuncs) \cap UploadFuncs = {}
  BY DEF QuietFuncs, CloseFuncs, UploadFuncs, CqFuncs, DryRunFuncs

\* Only the two idle states upload a roll.
LEMMA IdleUploadsInTable ==
  ASSUME NEW s, NEW d, NEW f \in UploadFuncs, <<s, d, f>> \in Transitions
  PROVE  \/ s = S_NORMAL_IDLE /\ d = S_NORMAL_ACTIVE
         \/ s = S_DRY_RUN_IDLE /\ d = S_DRY_RUN_ACTIVE
<1>1. CASE <<s, d, f>> \in NormalTransitions
  BY <1>1 DEF NormalTransitions, UploadFuncs
<1>2. CASE <<s, d, f>> \in DryRunTransitions
  BY <1>2 DEF DryRunTransitions, UploadFuncs
<1>3. CASE <<s, d, f>> \notin NormalTransitions \cup DryRunTransitions
  BY <1>3 DEF Transitions, StoppedTransitions, UploadFuncs
<1> QED BY <1>1, <1>2, <1>3

\* An upload leads to a live state from one which is not live.
LEMMA UploadsInTable ==
  ASSUME NEW s, NEW d, NEW f \in UploadFuncs, <<s, d, f>> \in Transitions
  PROVE  s \notin LiveStates /\ d \in LiveStates
  BY IdleUploadsInTable DEF LiveStates, RollStates

\* Without an upload, a state which is not live leads to no live state.
LEMMA QuietInTable ==
  ASSUME NEW s, NEW d, NEW f, <<s, d, f>> \in Transitions,
         s \notin LiveStates, d \in LiveStates
  PROVE  f \in UploadFuncs
<1>1. CASE <<s, d, f>> \in NormalTransitions
  BY <1>1 DEF NormalTransitions, UploadFuncs, LiveStates, RollStates
<1>2. CASE <<s, d, f>> \in DryRunTransitions
  BY <1>2 DEF DryRunTransitions, UploadFuncs, LiveStates, RollStates
<1>3. CASE <<s, d, f>> \notin NormalTransitions \cup DryRunTransitions
  BY <1>3
  DEF Transitions, StoppedTransitions, UploadFuncs, LiveStates, RollStates
<1> QED BY <1>1, <1>2, <1>3

\* The destinations are states.
LEMMA StatesInTable ==
  ASSUME NEW s, NEW d, NEW f, <<s, d, f>> \in Transitions
  PROVE  d \in States
<1>1. CASE <<s, d, f>> \in NormalTransitions
  BY <1>1 DEF NormalTransitions, States
<1>2. CASE <<s, d, f>> \in DryRunTransitions
  BY <1>2 DEF DryRunTransitions, States
<1>3. CASE <<s, d, f>> \notin NormalTransitions \cup DryRunTransitions
  BY <1>3 DEF Transitions, StoppedTransitions, States
<1> QED BY <1>1, <1>2, <1>3

\* F_WAIT_FOR_LAND belongs to S_NORMAL_SUCCESS.
LEMMA WaitsInTable ==
  ASSUME NEW s, NEW d, <<s, d, F_WAIT_FOR_LAND>> \in Transitions
  PROVE  s = S_NORMAL_SUCCESS
  BY DEF Transitions, StoppedTransitions, NormalTransitions,
    DryRunTransitions

\* A live state is left with a function which closes the roll, unless the
\* roll has landed, is missing, or is a failed dry run which is closed.
LEMMA LeavingInTable ==
  ASSUME NEW s \in LiveStates, NEW d, NEW f, <<s, d, f>> \in Transitions
  PROVE  \/ d \in LiveStates
         \/ f \in CloseFuncs
         \/ d \in {S_NORMAL_SUCCESS, S_CURRENT_ROLL_MISSING}
         \/ s = S_DRY_RUN_FAILURE_THROTTLED /\ d = S_DRY_RUN_IDLE
<1>1. CASE <<s, d, f>> \in NormalTransitions
  BY <1>1 DEF NormalTransitions, CloseFuncs, LiveStates, RollStates
<1>2. CASE <<s, d, f>> \in DryRunTransitions
  BY <1>2 DEF DryRunTransitions, CloseFuncs, LiveStates, RollStates
<1>3. CASE <<s, d, f>> \notin NormalTransitions \cup DryRunTransitions
  BY <1>3
  DEF Transitions, StoppedTransitions, CloseFuncs, LiveStates, RollStates
<1> QED BY <1>1, <1>2, <1>3

\* A function which needs a roll is registered for the states which check
\* for one only.
LEMMA NeedsRollInTable ==
  ASSUME NEW s, NEW d, NEW f \in NeedsRoll, <<s, d, f>> \in Transitions
  PROVE  s \in RollStates /\ d # S_CURRENT_ROLL_MISSING
<1> USE DEF NeedsRoll, CloseFuncs, CqFuncs, DryRunFuncs
<1>1. CASE <<s, d, f>> \in NormalTransitions
  BY <1>1 DEF NormalTransitions, RollStates
<1>2. CASE <<s, d, f>> \in DryRunTransitions
  BY <1>2 DEF DryRunTransitions, RollStates
<1>3. CASE <<s, d, f>> \notin NormalTransitions \cup DryRunTransitions
  BY <1>3 DEF Transitions, StoppedTransitions, RollStates
<1> QED BY <1>1, <1>2, <1>3

\* GetNext leads to one of these states, in every valid mode.
LEMMA NextIsListed ==
  ASSUME NEW s \in States, NEW v, v.mode \in ValidModes
  PROVE  LeadsTo(s, GetNext(s, v))
<1>1. CASE s = S_NORMAL_IDLE
  <2>1. GetNext(s, v) \in {NextFromNormalIdle(v)}
    BY <1>1 DEF GetNext, RollStates
  <2> QED
    BY <1>1, <2>1
    DEF LeadsTo, ValidModes, NextFromNormalIdle, IdleStateFor
<1>2. CASE s = S_NORMAL_ACTIVE
  <2>1. GetNext(s, v) \in {NextFromNormalActive(v), S_CURRENT_ROLL_MISSING}
    BY <1>2 DEF GetNext, RollStates
  <2> QED
    BY <1>2, <2>1
    DEF LeadsTo, ValidModes, NextFromNormalActive, NormalOutcome,
      ActiveStateFor
<1>3. CASE s = S_NORMAL_SUCCESS
  <2>1. GetNext(s, v) \in {NextFromNormalSuccess(v), S_CURRENT_ROLL_MISSING}
    BY <1>3 DEF GetNext, RollStates
  <2> QED
    BY <1>3, <2>1
    DEF LeadsTo, ValidModes, NextFromNormalSuccess
<1>4. CASE s = S_NORMAL_SUCCESS_THROTTLED
  <2>1. GetNext(s, v) \in {NextFromNormalSuccessThrottled(v)}
    BY <1>4 DEF GetNext, RollStates
  <2> QED
    BY <1>4, <2>1
    DEF LeadsTo, ValidModes, NextFromNormalSuccessThrottled, IdleStateFor
<1>5. CASE s = S_NORMAL_FAILURE
  <2>1. GetNext(s, v) \in {NextFromNormalFailure(v), S_CURRENT_ROLL_MISSING}
    BY <1>5 DEF GetNext, RollStates
  <2> QED
    BY <1>5, <2>1
    DEF LeadsTo, ValidModes, NextFromNormalFailure
<1>6. CASE s = S_NORMAL_FAILURE_THROTTLED
  <2>1. GetNext(s, v) \in
          {NextFromNormalFailureThrottled(v), S_CURRENT_ROLL_MISSING}
    BY <1>6 DEF GetNext, RollStates
  <2> QED
    BY <1>6, <2>1
    DEF LeadsTo, ValidModes, NextFromNormalFailureThrottled, NormalOutcome
<1>7. CASE s = S_NORMAL_SAFETY_THROTTLED
  <2>1. GetNext(s, v) \in {S_NORMAL_SAFETY_THROTTLED, S_NORMAL_IDLE}
    BY <1>7 DEF GetNext, RollStates
  <2> QED
    BY <1>7, <2>1
    DEF LeadsTo, ValidModes
<1>8. CASE s = S_NORMAL_WAIT_FOR_WINDOW
  <2>1. GetNext(s, v) \in {S_NORMAL_IDLE, S_NORMAL_WAIT_FOR_WINDOW}
    BY <1>8 DEF GetNext, RollStates
  <2> QED
    BY <1>8, <2>1
    DEF LeadsTo, ValidModes
<1>9. CASE s = S_DRY_RUN_IDLE
  <2>1. GetNext(s, v) \in {NextFromDryRunIdle(v)}
    BY <1>9 DEF GetNext, RollStates
  <2> QED
    BY <1>9, <2>1
    DEF LeadsTo, ValidModes, NextFromDryRunIdle
<1>10. CASE s = S_DRY_RUN_ACTIVE
  <2>1. GetNext(s, v) \in {NextFromDryRunActive(v), S_CURRENT_ROLL_MISSING}
    BY <1>10 DEF GetNext, RollStates
  <2> QED
    BY <1>10, <2>1
    DEF LeadsTo, ValidModes, NextFromDryRunActive, NormalOutcome,
      DryRunOutcome, ActiveStateFor
<1>11. CASE s = S_DRY_RUN_SUCCESS
  <2>1. GetNext(s, v) \in {NextFromDryRunSuccess(v), S_CURRENT_ROLL_MISSING}
    BY <1>11 DEF GetNext, RollStates
  <2> QED
    BY <1>11, <2>1
    DEF LeadsTo, ValidModes, NextFromDryRunSuccess
<1>12. CASE s = S_DRY_RUN_SUCCESS_LEAVING_OPEN
  <2>1. GetNext(s, v) \in {NextFromLeavingOpen(v), S_CURRENT_ROLL_MISSING}
    BY <1>12 DEF GetNext, RollStates
  <2> QED
    BY <1>12, <2>1
    DEF LeadsTo, ValidModes, NextFromLeavingOpen, NextFromDryRunSuccess
<1>13. CASE s = S_DRY_RUN_FAILURE
  <2>1. GetNext(s, v) \in {NextFromDryRunFailure(v), S_CURRENT_ROLL_MISSING}
    BY <1>13 DEF GetNext, RollStates
  <2> QED
    BY <1>13, <2>1
    DEF LeadsTo, ValidModes, NextFromDryRunFailure
<1>14. CASE s = S_DRY_RUN_FAILURE_THROTTLED
  <2>1. GetNext(s, v) \in
          {NextFromDryRunFailureThrottled(v), S_CURRENT_ROLL_MISSING}
    BY <1>14 DEF GetNext, RollStates
  <2> QED
    BY <1>14, <2>1
    DEF LeadsTo, ValidModes, NextFromDryRunFailureThrottled
<1>15. CASE s = S_DRY_RUN_SAFETY_THROTTLED
  <2>1. GetNext(s, v) \in {S_DRY_RUN_SAFETY_THROTTLED, S_DRY_RUN_IDLE}
    BY <1>15 DEF GetNext, RollStates
  <2> QED
    BY <1>15, <2>1
    DEF LeadsTo, ValidModes
<1>16. CASE s = S_STOPPED
  <2>1. GetNext(s, v) \in {IdleStateFor(v.mode)}
    BY <1>16 DEF GetNext, RollStates
  <2> QED
    BY <1>16, <2>1
    DEF LeadsTo, ValidModes, IdleStateFor
<1>17. CASE s = S_CURRENT_ROLL_MISSING
  <2>1. GetNext(s, v) \in {S_NORMAL_IDLE}
    BY <1>17 DEF GetNext, RollStates
  <2> QED
    BY <1>17, <2>1
    DEF LeadsTo, ValidModes
<1> QED
  BY <1>1, <1>2, <1>3, <1>4, <1>5, <1>6, <1>7, <1>8, <1>9, <1>10, <1>11,
     <1>12, <1>13, <1>14, <1>15, <1>16, <1>17
  DEF States

\* Whatever GetNext answers in a valid mode is registered.
LEMMA NextIsRegistered ==
  ASSUME NEW s \in States, NEW v, v.mode \in ValidModes
  PROVE  \E f \in Funcs : <<s, GetNext(s, v), f>> \in Transitions
  BY NextIsListed, LeadsToRegistered

\* The destination and the function of a transition, for every valid mode.
LEMMA NextTransitionType ==
  ASSUME NEW s \in States, NEW v, v.mode \in ValidModes
  PROVE  /\ GetNext(s, v) \in States
         /\ GetTransitionName(s, GetNext(s, v)) \in Funcs
         /\ <<s, GetNext(s, v), GetTransitionName(s, GetNext(s, v))>>
              \in Transitions
<1>1. PICK f \in Funcs : <<s, GetNext(s, v), f>> \in Transitions
  BY NextIsRegistered
<1> QED BY <1>1, StatesInTable, NameIsRegistered

\* Without a roll, GetNext asks for no function which needs one.
LEMMA NextHasItsRoll ==
  ASSUME NEW s \in States, NEW v, v.mode \in ValidModes,
         GetTransitionName(s, GetNext(s, v)) \in NeedsRoll
  PROVE  v.hasRoll
<1>1. s \in RollStates /\ GetNext(s, v) # S_CURRENT_ROLL_MISSING
  BY NextTransitionType, NeedsRollInTable
<1>2. s \in RollStates /\ ~v.hasRoll => GetNext(s, v) = S_CURRENT_ROLL_MISSING
  BY DEF GetNext
<1> QED BY <1>1, <1>2

\* A roll which the roller does not see closed or landed is not let go of:
\* GetNext stays in a live state, or closes the roll.
LEMMA OpenRollIsKept ==
  ASSUME NEW s \in LiveStates, NEW v, v.mode \in ValidModes,
         v.hasRoll, ~v.closed, ~v.success
  PROVE  \/ GetNext(s, v) \in LiveStates
         \/ GetTransitionName(s, GetNext(s, v)) \in CloseFuncs
<1>1. s \in States
  BY DEF LiveStates, RollStates, States
<1>2. GetNext(s, v) \notin {S_NORMAL_SUCCESS, S_CURRENT_ROLL_MISSING}
  <2> USE DEF GetNext, RollStates, ValidModes
  <2>1. CASE s = S_NORMAL_ACTIVE
    BY <2>1 DEF NextFromNormalActive, NormalOutcome, ActiveStateFor
  <2>2. CASE s = S_NORMAL_FAILURE
    BY <2>2 DEF NextFromNormalFailure
  <2>3. CASE s = S_NORMAL_FAILURE_THROTTLED
    BY <2>3 DEF NextFromNormalFailureThrottled, NormalOutcome
  <2>4. CASE s = S_DRY_RUN_ACTIVE
    BY <2>4
    DEF NextFromDryRunActive, NormalOutcome, DryRunOutcome, ActiveStateFor
  <2>5. CASE s = S_DRY_RUN_SUCCESS
    BY <2>5 DEF NextFromDryRunSuccess
  <2>6. CASE s = S_DRY_RUN_SUCCESS_LEAVING_OPEN
    BY <2>6 DEF NextFromLeavingOpen, NextFromDryRunSuccess
  <2>7. CASE s = S_DRY_RUN_FAILURE
    BY <2>7 DEF NextFromDryRunFailure
  <2>8. CASE s = S_DRY_RUN_FAILURE_THROTTLED
    BY <2>8 DEF NextFromDryRunFailureThrottled
  <2> HIDE DEF GetNext, ValidModes
  <2> QED
    BY <2>1, <2>2, <2>3, <2>4, <2>5, <2>6, <2>7, <2>8 DEF LiveStates
<1>3. s = S_DRY_RUN_FAILURE_THROTTLED => GetNext(s, v) # S_DRY_RUN_IDLE
  BY DEF GetNext, RollStates, ValidModes, NextFromDryRunFailureThrottled
<1> QED BY <1>1, <1>2, <1>3, NextTransitionType, LeavingInTable

\* A state which is not live leads to a live one by an upload only, and an
\* upload starts in such a state.
LEMMA UploadsFromQuiet ==
  ASSUME NEW s \in States, NEW v, v.mode \in ValidModes
  PROVE  LET f == GetTransitionName(s, GetNext(s, v))
         IN  /\ f \in UploadFuncs =>
                  s \notin LiveStates /\ GetNext(s, v) \in LiveStates
             /\ s \notin LiveStates /\ f \notin UploadFuncs =>
                  GetNext(s, v) \notin LiveStates
  BY NextTransitionType, UploadsInTable, QuietInTable

\* S_NORMAL_SUCCESS is entered only with a roll which is seen to have landed.
LEMMA SuccessIsSeen ==
  ASSUME NEW s \in States, NEW v, v.mode \in ValidModes,
         GetNext(s, v) = S_NORMAL_SUCCESS
  PROVE  v.hasRoll /\ v.success
<1>1. s \in {S_NORMAL_ACTIVE, S_NORMAL_FAILURE_THROTTLED, S_DRY_RUN_ACTIVE}
  <2> DEFINE d == GetNext(s, v)
  <2>1. LeadsTo(s, d)
    BY NextIsListed
  <2> HIDE DEF d
  <2>2. d = S_NORMAL_SUCCESS
    BY DEF d
  <2> QED BY <2>1, <2>2 DEF LeadsTo
<1>2. v.hasRoll
  BY <1>1 DEF GetNext, RollStates
<1>3. CASE s = S_NORMAL_ACTIVE
  <2>1. GetNext(s, v) = NextFromNormalActive(v)
    BY <1>2, <1>3 DEF GetNext
  <2> QED
    BY <1>2, <2>1
    DEF NextFromNormalActive, NormalOutcome, ActiveStateFor, ValidModes
<1>4. CASE s = S_NORMAL_FAILURE_THROTTLED
  <2>1. GetNext(s, v) = NextFromNormalFailureThrottled(v)
    BY <1>2, <1>4 DEF GetNext
  <2> QED
    BY <1>2, <2>1 DEF NextFromNormalFailureThrottled, NormalOutcome
<1>5. CASE s = S_DRY_RUN_ACTIVE
  <2>1. GetNext(s, v) = NextFromDryRunActive(v)
    BY <1>2, <1>5 DEF GetNext
  <2> QED
    BY <1>2, <2>1
    DEF NextFromDryRunActive, NormalOutcome, DryRunOutcome, ActiveStateFor,
      ValidModes
<1> QED BY <1>1, <1>3, <1>4, <1>5

\* An upload is chosen only while the safety throttle allows it.
LEMMA UploadsUnthrottled ==
  ASSUME NEW s \in States, NEW v, v.mode \in ValidModes,
         GetTransitionName(s, GetNext(s, v)) \in UploadFuncs
  PROVE  ~v.throttled["safety"]
<1>1. \/ s = S_NORMAL_IDLE /\ GetNext(s, v) = S_NORMAL_ACTIVE
      \/ s = S_DRY_RUN_IDLE /\ GetNext(s, v) = S_DRY_RUN_ACTIVE
  BY NextTransitionType, IdleUploadsInTable
<1>2. s = S_NORMAL_IDLE => GetNext(s, v) = NextFromNormalIdle(v)
  BY DEF GetNext, RollStates
<1>3. s = S_DRY_RUN_IDLE => GetNext(s, v) = NextFromDryRunIdle(v)
  BY DEF GetNext, RollStates
<1> QED
  BY <1>1, <1>2, <1>3
  DEF NextFromNormalIdle, NextFromDryRunIdle, IdleStateFor, ValidModes

\* An upload is chosen only if there is something to roll.
LEMMA UploadsRollSomething ==
  ASSUME NEW s \in States, NEW v, v.mode \in ValidModes,
         GetTransitionName(s, GetNext(s, v)) \in UploadFuncs
  PROVE  ~v.upToDate
<1>1. \/ s = S_NORMAL_IDLE /\ GetNext(s, v) = S_NORMAL_ACTIVE
      \/ s = S_DRY_RUN_IDLE /\ GetNext(s, v) = S_DRY_RUN_ACTIVE
  BY NextTransitionType, IdleUploadsInTable
<1>2. s = S_NORMAL_IDLE => GetNext(s, v) = NextFromNormalIdle(v)
  BY DEF GetNext, RollStates
<1>3. s = S_DRY_RUN_IDLE => GetNext(s, v) = NextFromDryRunIdle(v)
  BY DEF GetNext, RollStates
<1> QED
  BY <1>1, <1>2, <1>3
  DEF NextFromNormalIdle, NextFromDryRunIdle, IdleStateFor, ValidModes

(***************************************************************************)
(* The chain of no-op transitions is short.                                *)
(***************************************************************************)

\* The states which such a chain does not leave again with the view w.
IsLast(st, w) ==
  \/ st = S_CURRENT_ROLL_MISSING
  \/ st = S_STOPPED /\ w.mode = ModeStopped
  \/ st = S_DRY_RUN_IDLE /\ w.mode = ModeDryRun
  \/ st = S_NORMAL_WAIT_FOR_WINDOW /\ ~w.inWindow
  \/ /\ st = S_NORMAL_SUCCESS_THROTTLED
     /\ w.mode = ModeRunning
     /\ w.throttled["success"]

OneFromLast == {S_NORMAL_IDLE, S_NORMAL_SUCCESS, S_NORMAL_FAILURE,
                S_DRY_RUN_SUCCESS_LEAVING_OPEN, S_DRY_RUN_FAILURE}
ThreeFromLast == {S_DRY_RUN_ACTIVE, S_DRY_RUN_FAILURE_THROTTLED,
                  S_DRY_RUN_SAFETY_THROTTLED}

\* The no-op transitions of the table.
IsNoop(st, d) ==
  \/ st = S_STOPPED /\ d \in {S_NORMAL_IDLE, S_DRY_RUN_IDLE}
  \/ st = S_NORMAL_IDLE /\ d \in {S_STOPPED, S_DRY_RUN_IDLE,
       S_NORMAL_SUCCESS_THROTTLED, S_NORMAL_WAIT_FOR_WINDOW}
  \/ st \in {S_NORMAL_ACTIVE, S_NORMAL_FAILURE_THROTTLED}
       /\ d \in {S_NORMAL_SUCCESS, S_NORMAL_FAILURE}
  \/ st = S_NORMAL_SUCCESS_THROTTLED
       /\ d \in {S_NORMAL_IDLE, S_DRY_RUN_IDLE, S_STOPPED}
  \/ st \in {S_NORMAL_SAFETY_THROTTLED, S_NORMAL_WAIT_FOR_WINDOW}
       /\ d = S_NORMAL_IDLE
  \/ st = S_DRY_RUN_IDLE
       /\ d \in {S_STOPPED, S_NORMAL_IDLE, S_NORMAL_SUCCESS_THROTTLED}
  \/ st = S_DRY_RUN_ACTIVE
       /\ d \in {S_DRY_RUN_SUCCESS, S_DRY_RUN_FAILURE, S_NORMAL_SUCCESS,
                 S_NORMAL_FAILURE}
  \/ st = S_DRY_RUN_SUCCESS /\ d = S_DRY_RUN_SUCCESS_LEAVING_OPEN
  \/ st \in {S_DRY_RUN_FAILURE_THROTTLED, S_DRY_RUN_SAFETY_THROTTLED}
       /\ d = S_DRY_RUN_IDLE
  \/ st \in RollStates /\ d = S_CURRENT_ROLL_MISSING

\* These are all of them.
LEMMA NoopsInTable ==
  ASSUME NEW st, NEW d, <<st, d, F_NOOP>> \in Transitions
  PROVE  IsNoop(st, d)
<1>1. CASE <<st, d, F_NOOP>> \in NormalTransitions
  BY <1>1 DEF NormalTransitions, IsNoop, RollStates
<1>2. CASE <<st, d, F_NOOP>> \in DryRunTransitions
  BY <1>2 DEF DryRunTransitions, IsNoop, RollStates
<1>3. CASE <<st, d, F_NOOP>> \notin NormalTransitions \cup DryRunTransitions
  BY <1>3 DEF Transitions, StoppedTransitions, IsNoop, RollStates
<1> QED BY <1>1, <1>2, <1>3

\* A no-op transition which GetNext asks for leads nearer to the end of the
\* chain.
LEMMA NoopsEnd ==
  ASSUME NEW st \in States, NEW w, w.mode \in ValidModes,
         NEW d, d = GetNext(st, w), <<st, d, F_NOOP>> \in Transitions
  PROVE  /\ ~IsLast(st, w)
         /\ \/ IsLast(d, w)
            \/ d \in OneFromLast /\ st \notin OneFromLast
            \/ /\ st \in ThreeFromLast /\ st \notin OneFromLast
               /\ d \notin OneFromLast \cup ThreeFromLast
<1>0. IsNoop(st, d)
  BY NoopsInTable
<1> USE DEF IsNoop, IsLast, OneFromLast, ThreeFromLast, RollStates
<1>1. CASE st \in {S_STOPPED, S_NORMAL_SAFETY_THROTTLED,
                   S_NORMAL_WAIT_FOR_WINDOW, S_DRY_RUN_SAFETY_THROTTLED}
  <2>1. /\ st = S_STOPPED => d = IdleStateFor(w.mode)
        /\ st = S_NORMAL_WAIT_FOR_WINDOW /\ ~w.inWindow =>
             d = S_NORMAL_WAIT_FOR_WINDOW
    BY DEF GetNext
  <2> QED BY <1>0, <1>1, <2>1 DEF IdleStateFor, ValidModes
<1>2. CASE st = S_NORMAL_IDLE
  <2>1. d = NextFromNormalIdle(w)
    BY <1>2 DEF GetNext
  <2> QED
    BY <1>0, <1>2, <2>1 DEF NextFromNormalIdle, IdleStateFor, ValidModes
<1>3. CASE st = S_NORMAL_SUCCESS_THROTTLED
  <2>1. d = NextFromNormalSuccessThrottled(w)
    BY <1>3 DEF GetNext
  <2> QED
    BY <1>0, <1>3, <2>1
    DEF NextFromNormalSuccessThrottled, IdleStateFor, ValidModes
<1>4. CASE st = S_DRY_RUN_IDLE
  <2>1. d = NextFromDryRunIdle(w)
    BY <1>4 DEF GetNext
  <2> QED
    BY <1>0, <1>4, <2>1 DEF NextFromDryRunIdle, IdleStateFor, ValidModes
<1>5. CASE st \in RollStates
  BY <1>0, <1>5
<1>6. st # S_CURRENT_ROLL_MISSING
  BY <1>0
<1> QED
  BY <1>1, <1>2, <1>3, <1>4, <1>5, <1>6 DEF States
=============================================================================
