---------------------------- MODULE RollerStates ----------------------------
(***************************************************************************)
(* The AutoRoll state machine as a table and a function: the states, the   *)
(* transition functions, the transitions which New() registers with the    *)
(* builder, and GetNext(), which chooses the next state from the roller's  *)
(* local view (autoroll/go/state_machine/state_machine.go).                *)
(*                                                                         *)
(* GetNext has one side effect in the code, the increment of a throttle    *)
(* counter.  IncrementedBy names that counter; the module which uses this  *)
(* one increments it before it evaluates GetNext, as the code does.        *)
(***************************************************************************)

(***************************************************************************)
(* Modes (autoroll/go/modes/modes.go).  ModeHistory.Add refuses any other, *)
(* so the "Invalid mode" errors of GetNext cannot be reached.              *)
(***************************************************************************)
ModeRunning == "running"
ModeStopped == "stopped"
ModeDryRun == "dry run"
ValidModes == {ModeRunning, ModeStopped, ModeDryRun}

(***************************************************************************)
(* States.                                                                 *)
(***************************************************************************)
S_NORMAL_IDLE == "idle"
S_NORMAL_ACTIVE == "active"
S_NORMAL_SUCCESS == "success"
S_NORMAL_SUCCESS_THROTTLED == "success throttled"
S_NORMAL_FAILURE == "failure"
S_NORMAL_FAILURE_THROTTLED == "failure throttled"
S_NORMAL_SAFETY_THROTTLED == "safety throttled"
S_NORMAL_WAIT_FOR_WINDOW == "waiting for roll window"
S_DRY_RUN_IDLE == "dry run idle"
S_DRY_RUN_ACTIVE == "dry run active"
S_DRY_RUN_SUCCESS == "dry run success"
S_DRY_RUN_SUCCESS_LEAVING_OPEN == "dry run success; leaving open"
S_DRY_RUN_FAILURE == "dry run failure"
S_DRY_RUN_FAILURE_THROTTLED == "dry run failure throttled"
S_DRY_RUN_SAFETY_THROTTLED == "dry run safety throttled"
S_STOPPED == "stopped"
S_CURRENT_ROLL_MISSING == "current roll missing"

States ==
  {S_NORMAL_IDLE, S_NORMAL_ACTIVE, S_NORMAL_SUCCESS,
   S_NORMAL_SUCCESS_THROTTLED, S_NORMAL_FAILURE, S_NORMAL_FAILURE_THROTTLED,
   S_NORMAL_SAFETY_THROTTLED, S_NORMAL_WAIT_FOR_WINDOW, S_DRY_RUN_IDLE,
   S_DRY_RUN_ACTIVE, S_DRY_RUN_SUCCESS, S_DRY_RUN_SUCCESS_LEAVING_OPEN,
   S_DRY_RUN_FAILURE, S_DRY_RUN_FAILURE_THROTTLED,
   S_DRY_RUN_SAFETY_THROTTLED, S_STOPPED, S_CURRENT_ROLL_MISSING}

(***************************************************************************)
(* Transition functions.                                                   *)
(***************************************************************************)
F_NOOP == "no-op"
F_UPDATE_REPOS == "update repos"
F_UPLOAD_ROLL == "upload roll"
F_UPLOAD_DRY_RUN == "upload dry run"
F_UPDATE_ROLL == "update roll"
F_SWITCH_TO_DRY_RUN == "switch roll to dry run"
F_SWITCH_TO_NORMAL == "switch roll to normal"
F_CLOSE_FAILED == "close roll (failed)"
F_CLOSE_STOPPED == "close roll (stopped)"
F_CLOSE_DRY_RUN_FAILED == "close roll (dry run failed)"
F_CLOSE_DRY_RUN_OUTDATED == "close roll (dry run outdated)"
F_WAIT_FOR_LAND == "wait for roll to land"
F_RETRY_FAILED_NORMAL == "retry failed roll"
F_RETRY_FAILED_DRY_RUN == "retry failed dry run"
F_NOTIFY_FAILURE_THROTTLE == "notify failure throttled"
F_NOTIFY_SAFETY_THROTTLE == "notify safety throttled"
F_ERROR_CURRENT_ROLL_MISSING == "error: current roll missing"

UploadFuncs == {F_UPLOAD_ROLL, F_UPLOAD_DRY_RUN}

CloseFuncs == {F_CLOSE_FAILED, F_CLOSE_STOPPED, F_CLOSE_DRY_RUN_FAILED,
               F_CLOSE_DRY_RUN_OUTDATED}

\* The functions which put the CL back into the commit queue, and whether
\* that run is a dry run.
CqFuncs == {F_SWITCH_TO_NORMAL, F_RETRY_FAILED_NORMAL}
DryRunFuncs == {F_SWITCH_TO_DRY_RUN, F_RETRY_FAILED_DRY_RUN}

\* Functions which neither fail nor touch anything the model keeps.
QuietFuncs == {F_NOOP, F_NOTIFY_FAILURE_THROTTLE, F_NOTIFY_SAFETY_THROTTLE,
               F_ERROR_CURRENT_ROLL_MISSING}

\* The functions registered through the wrapper f, which fails when there
\* is no active roll.
NeedsRoll ==
  CloseFuncs \cup CqFuncs \cup DryRunFuncs \cup
    {F_UPDATE_ROLL, F_WAIT_FOR_LAND, F_NOTIFY_FAILURE_THROTTLE}

Funcs == NeedsRoll \cup UploadFuncs \cup QuietFuncs \cup {F_UPDATE_REPOS}

(***************************************************************************)
(* Transitions, <<from, to, function>>.                                    *)
(***************************************************************************)
StoppedTransitions ==
  {<<S_STOPPED, S_STOPPED, F_UPDATE_REPOS>>,
   <<S_STOPPED, S_NORMAL_IDLE, F_NOOP>>,
   <<S_STOPPED, S_DRY_RUN_IDLE, F_NOOP>>}

NormalTransitions ==
  {<<S_NORMAL_IDLE, S_STOPPED, F_NOOP>>,
   <<S_NORMAL_IDLE, S_NORMAL_IDLE, F_UPDATE_REPOS>>,
   <<S_NORMAL_IDLE, S_DRY_RUN_IDLE, F_NOOP>>,
   <<S_NORMAL_IDLE, S_NORMAL_SAFETY_THROTTLED, F_NOTIFY_SAFETY_THROTTLE>>,
   <<S_NORMAL_IDLE, S_NORMAL_SUCCESS_THROTTLED, F_NOOP>>,
   <<S_NORMAL_IDLE, S_NORMAL_ACTIVE, F_UPLOAD_ROLL>>,
   <<S_NORMAL_IDLE, S_NORMAL_WAIT_FOR_WINDOW, F_NOOP>>,
   <<S_NORMAL_ACTIVE, S_NORMAL_ACTIVE, F_UPDATE_ROLL>>,
   <<S_NORMAL_ACTIVE, S_DRY_RUN_ACTIVE, F_SWITCH_TO_DRY_RUN>>,
   <<S_NORMAL_ACTIVE, S_NORMAL_SUCCESS, F_NOOP>>,
   <<S_NORMAL_ACTIVE, S_NORMAL_FAILURE, F_NOOP>>,
   <<S_NORMAL_ACTIVE, S_STOPPED, F_CLOSE_STOPPED>>,
   <<S_NORMAL_ACTIVE, S_CURRENT_ROLL_MISSING, F_NOOP>>,
   <<S_NORMAL_SUCCESS, S_NORMAL_IDLE, F_WAIT_FOR_LAND>>,
   <<S_NORMAL_SUCCESS, S_NORMAL_SUCCESS_THROTTLED, F_WAIT_FOR_LAND>>,
   <<S_NORMAL_SUCCESS, S_CURRENT_ROLL_MISSING, F_NOOP>>,
   <<S_NORMAL_SUCCESS_THROTTLED, S_NORMAL_SUCCESS_THROTTLED, F_UPDATE_REPOS>>,
   <<S_NORMAL_SUCCESS_THROTTLED, S_NORMAL_IDLE, F_NOOP>>,
   <<S_NORMAL_SUCCESS_THROTTLED, S_DRY_RUN_IDLE, F_NOOP>>,
   <<S_NORMAL_SUCCESS_THROTTLED, S_STOPPED, F_NOOP>>,
   <<S_NORMAL_FAILURE, S_NORMAL_IDLE, F_CLOSE_FAILED>>,
   <<S_NORMAL_FAILURE, S_NORMAL_FAILURE_THROTTLED, F_NOTIFY_FAILURE_THROTTLE>>,
   <<S_NORMAL_FAILURE, S_CURRENT_ROLL_MISSING, F_NOOP>>,
   <<S_NORMAL_FAILURE_THROTTLED, S_NORMAL_FAILURE_THROTTLED, F_UPDATE_ROLL>>,
   <<S_NORMAL_FAILURE_THROTTLED, S_NORMAL_SUCCESS, F_NOOP>>,
   <<S_NORMAL_FAILURE_THROTTLED, S_NORMAL_FAILURE, F_NOOP>>,
   <<S_NORMAL_FAILURE_THROTTLED, S_NORMAL_ACTIVE, F_RETRY_FAILED_NORMAL>>,
   <<S_NORMAL_FAILURE_THROTTLED, S_DRY_RUN_ACTIVE, F_SWITCH_TO_DRY_RUN>>,
   <<S_NORMAL_FAILURE_THROTTLED, S_NORMAL_IDLE, F_CLOSE_FAILED>>,
   <<S_NORMAL_FAILURE_THROTTLED, S_STOPPED, F_CLOSE_STOPPED>>,
   <<S_NORMAL_FAILURE_THROTTLED, S_CURRENT_ROLL_MISSING, F_NOOP>>,
   <<S_NORMAL_SAFETY_THROTTLED, S_NORMAL_IDLE, F_NOOP>>,
   <<S_NORMAL_SAFETY_THROTTLED, S_NORMAL_SAFETY_THROTTLED, F_UPDATE_REPOS>>,
   <<S_NORMAL_WAIT_FOR_WINDOW, S_NORMAL_WAIT_FOR_WINDOW, F_UPDATE_REPOS>>,
   <<S_NORMAL_WAIT_FOR_WINDOW, S_NORMAL_IDLE, F_NOOP>>}

DryRunTransitions ==
  {<<S_DRY_RUN_IDLE, S_STOPPED, F_NOOP>>,
   <<S_DRY_RUN_IDLE, S_DRY_RUN_IDLE, F_UPDATE_REPOS>>,
   <<S_DRY_RUN_IDLE, S_NORMAL_IDLE, F_NOOP>>,
   <<S_DRY_RUN_IDLE, S_NORMAL_SUCCESS_THROTTLED, F_NOOP>>,
   <<S_DRY_RUN_IDLE, S_DRY_RUN_SAFETY_THROTTLED, F_NOTIFY_SAFETY_THROTTLE>>,
   <<S_DRY_RUN_IDLE, S_DRY_RUN_ACTIVE, F_UPLOAD_DRY_RUN>>,
   <<S_DRY_RUN_ACTIVE, S_DRY_RUN_ACTIVE, F_UPDATE_ROLL>>,
   <<S_DRY_RUN_ACTIVE, S_NORMAL_ACTIVE, F_SWITCH_TO_NORMAL>>,
   <<S_DRY_RUN_ACTIVE, S_DRY_RUN_SUCCESS, F_NOOP>>,
   <<S_DRY_RUN_ACTIVE, S_DRY_RUN_FAILURE, F_NOOP>>,
   <<S_DRY_RUN_ACTIVE, S_STOPPED, F_CLOSE_STOPPED>>,
   <<S_DRY_RUN_ACTIVE, S_NORMAL_SUCCESS, F_NOOP>>,
   <<S_DRY_RUN_ACTIVE, S_NORMAL_FAILURE, F_NOOP>>,
   <<S_DRY_RUN_ACTIVE, S_CURRENT_ROLL_MISSING, F_NOOP>>,
   <<S_DRY_RUN_SUCCESS, S_DRY_RUN_IDLE, F_CLOSE_DRY_RUN_OUTDATED>>,
   <<S_DRY_RUN_SUCCESS, S_DRY_RUN_SUCCESS_LEAVING_OPEN, F_NOOP>>,
   <<S_DRY_RUN_SUCCESS, S_CURRENT_ROLL_MISSING, F_NOOP>>,
   <<S_DRY_RUN_SUCCESS_LEAVING_OPEN, S_DRY_RUN_SUCCESS_LEAVING_OPEN,
     F_UPDATE_REPOS>>,
   <<S_DRY_RUN_SUCCESS_LEAVING_OPEN, S_NORMAL_ACTIVE, F_SWITCH_TO_NORMAL>>,
   <<S_DRY_RUN_SUCCESS_LEAVING_OPEN, S_STOPPED, F_CLOSE_STOPPED>>,
   <<S_DRY_RUN_SUCCESS_LEAVING_OPEN, S_DRY_RUN_IDLE, F_CLOSE_DRY_RUN_OUTDATED>>,
   <<S_DRY_RUN_SUCCESS_LEAVING_OPEN, S_CURRENT_ROLL_MISSING, F_NOOP>>,
   <<S_DRY_RUN_FAILURE, S_DRY_RUN_IDLE, F_CLOSE_DRY_RUN_FAILED>>,
   <<S_DRY_RUN_FAILURE, S_DRY_RUN_FAILURE_THROTTLED, F_NOTIFY_FAILURE_THROTTLE>>,
   <<S_DRY_RUN_FAILURE, S_CURRENT_ROLL_MISSING, F_NOOP>>,
   <<S_DRY_RUN_FAILURE_THROTTLED, S_DRY_RUN_FAILURE_THROTTLED, F_UPDATE_ROLL>>,
   <<S_DRY_RUN_FAILURE_THROTTLED, S_DRY_RUN_IDLE, F_NOOP>>,
   <<S_DRY_RUN_FAILURE_THROTTLED, S_DRY_RUN_ACTIVE, F_RETRY_FAILED_DRY_RUN>>,
   <<S_DRY_RUN_FAILURE_THROTTLED, S_DRY_RUN_FAILURE, F_CLOSE_DRY_RUN_FAILED>>,
   <<S_DRY_RUN_FAILURE_THROTTLED, S_NORMAL_ACTIVE, F_SWITCH_TO_NORMAL>>,
   <<S_DRY_RUN_FAILURE_THROTTLED, S_STOPPED, F_CLOSE_STOPPED>>,
   <<S_DRY_RUN_FAILURE_THROTTLED, S_CURRENT_ROLL_MISSING, F_NOOP>>,
   <<S_DRY_RUN_SAFETY_THROTTLED, S_DRY_RUN_IDLE, F_NOOP>>,
   <<S_DRY_RUN_SAFETY_THROTTLED, S_DRY_RUN_SAFETY_THROTTLED, F_UPDATE_REPOS>>}

Transitions ==
  StoppedTransitions \cup NormalTransitions \cup DryRunTransitions \cup
    {<<S_CURRENT_ROLL_MISSING, S_NORMAL_IDLE, F_ERROR_CURRENT_ROLL_MISSING>>}

\* No function: the destination is not registered for the source state.
NoTransition == "no transition defined"

GetTransitionName(from, to) ==
  IF \E fn \in Funcs : <<from, to, fn>> \in Transitions
  THEN CHOOSE fn \in Funcs : <<from, to, fn>> \in Transitions
  ELSE NoTransition

(***************************************************************************)
(* What GetNext reads of the roller.  The data is reduced to the answers   *)
(* of the calls it makes:                                                  *)
(*   mode         GetMode()                                                *)
(*   hasRoll      GetActiveRoll() # nil; the next six describe that roll   *)
(*   closed, finished, success, dryFinished, drySuccess                    *)
(*                IsClosed(), IsFinished(), IsSuccess(),                   *)
(*                IsDryRunFinished(), IsDryRunSuccess()                    *)
(*   wanted       GetNextRollRev().Id = currentRoll.RollingTo().Id         *)
(*   upToDate     GetCurrentRev().Id = GetNextRollRev().Id                 *)
(*   inWindow     InRollWindow(time.Now())                                 *)
(*   throttled    IsThrottled() of the three throttles, by name            *)
(***************************************************************************)
Throttles == {"failure", "safety", "success"}

Views ==
  [mode : ValidModes, hasRoll : BOOLEAN, closed : BOOLEAN,
   finished : BOOLEAN, success : BOOLEAN, dryFinished : BOOLEAN,
   drySuccess : BOOLEAN, wanted : BOOLEAN, upToDate : BOOLEAN,
   inWindow : BOOLEAN, throttled : [Throttles -> BOOLEAN]]

(***************************************************************************)
(* The throttles GetNext increments before it decides: a set with at most  *)
(* one element.                                                            *)
(***************************************************************************)
IncrementedBy(s, v) ==
  IF ~v.hasRoll THEN {}
  ELSE IF s = S_NORMAL_SUCCESS THEN {"success"}
  ELSE IF s = S_NORMAL_FAILURE /\ ~v.closed THEN {"failure"}
  ELSE IF s = S_DRY_RUN_FAILURE THEN {"failure"}
  ELSE {}

(***************************************************************************)
(* GetNext, one operator per group of cases of its switch.                 *)
(***************************************************************************)
IdleStateFor(mode) ==
  CASE mode = ModeRunning -> S_NORMAL_IDLE
    [] mode = ModeDryRun -> S_DRY_RUN_IDLE
    [] mode = ModeStopped -> S_STOPPED

\* Mutant: the safety throttle is not looked at.
NextFromNormalIdleUnsafe(v) ==
  IF v.mode # ModeRunning THEN IdleStateFor(v.mode)
  ELSE IF ~v.inWindow THEN S_NORMAL_WAIT_FOR_WINDOW
  ELSE IF v.upToDate THEN S_NORMAL_IDLE
  ELSE IF v.throttled["success"] THEN S_NORMAL_SUCCESS_THROTTLED
  ELSE S_NORMAL_ACTIVE

\* Mutant: a roll is uploaded although there is nothing to roll.
NextFromNormalIdleEagerly(v) ==
  IF v.mode # ModeRunning THEN IdleStateFor(v.mode)
  ELSE IF ~v.inWindow THEN S_NORMAL_WAIT_FOR_WINDOW
  ELSE IF v.throttled["safety"] THEN S_NORMAL_SAFETY_THROTTLED
  ELSE IF v.throttled["success"] THEN S_NORMAL_SUCCESS_THROTTLED
  ELSE S_NORMAL_ACTIVE

NextFromNormalIdle(v) ==
  IF v.mode # ModeRunning THEN IdleStateFor(v.mode)
  ELSE IF ~v.inWindow THEN S_NORMAL_WAIT_FOR_WINDOW
  ELSE IF v.upToDate THEN S_NORMAL_IDLE
  ELSE IF v.throttled["safety"] THEN S_NORMAL_SAFETY_THROTTLED
  ELSE IF v.throttled["success"] THEN S_NORMAL_SUCCESS_THROTTLED
  ELSE S_NORMAL_ACTIVE

NextFromDryRunIdle(v) ==
  IF v.mode = ModeRunning
  THEN IF v.throttled["success"] THEN S_NORMAL_SUCCESS_THROTTLED
                                 ELSE S_NORMAL_IDLE
  ELSE IF v.mode = ModeStopped THEN S_STOPPED
  ELSE IF v.upToDate THEN S_DRY_RUN_IDLE
  ELSE IF v.throttled["safety"] THEN S_DRY_RUN_SAFETY_THROTTLED
  ELSE S_DRY_RUN_ACTIVE

\* An unfinished roll follows the mode.
ActiveStateFor(mode) ==
  CASE mode = ModeDryRun -> S_DRY_RUN_ACTIVE
    [] mode = ModeStopped -> S_STOPPED
    [] mode = ModeRunning -> S_NORMAL_ACTIVE

\* Mutant: finished is taken for landed.
NormalOutcomeFinished(v) == S_NORMAL_SUCCESS

NormalOutcome(v) == IF v.success THEN S_NORMAL_SUCCESS ELSE S_NORMAL_FAILURE

DryRunOutcome(v) ==
  IF v.drySuccess THEN S_DRY_RUN_SUCCESS ELSE S_DRY_RUN_FAILURE

NextFromNormalActive(v) ==
  IF v.finished THEN NormalOutcome(v) ELSE ActiveStateFor(v.mode)

NextFromDryRunActive(v) ==
  IF v.closed THEN NormalOutcome(v)
  ELSE IF v.dryFinished THEN DryRunOutcome(v)
  ELSE ActiveStateFor(v.mode)

\* Mutant: a change of mode is followed at once.
NextFromNormalSuccessByMode(v) ==
  IF v.throttled["success"] THEN S_NORMAL_SUCCESS_THROTTLED
                            ELSE IdleStateFor(v.mode)

NextFromNormalSuccess(v) ==
  IF v.throttled["success"] THEN S_NORMAL_SUCCESS_THROTTLED
                            ELSE S_NORMAL_IDLE

\* Mutant: the throttle is left without a look at it.
NextFromNormalSuccessUnthrottled(v) == IdleStateFor(v.mode)

NextFromNormalSuccessThrottled(v) ==
  IF v.mode # ModeRunning THEN IdleStateFor(v.mode)
  ELSE IF v.throttled["success"] THEN S_NORMAL_SUCCESS_THROTTLED
  ELSE S_NORMAL_IDLE

NextFromNormalFailure(v) ==
  IF ~v.closed /\ v.wanted /\ v.throttled["failure"]
  THEN S_NORMAL_FAILURE_THROTTLED
  ELSE S_NORMAL_IDLE

\* Mutant: the commit queue is never tried again.
NextFromNormalFailureForever(v) ==
  IF v.closed THEN NormalOutcome(v)
  ELSE IF v.mode = ModeStopped THEN S_STOPPED
  ELSE IF ~v.wanted THEN S_NORMAL_IDLE
  ELSE IF v.mode = ModeDryRun THEN S_DRY_RUN_ACTIVE
  ELSE S_NORMAL_FAILURE_THROTTLED

NextFromNormalFailureThrottled(v) ==
  IF v.closed THEN NormalOutcome(v)
  ELSE IF v.mode = ModeStopped THEN S_STOPPED
  ELSE IF ~v.wanted THEN S_NORMAL_IDLE
  ELSE IF v.mode = ModeDryRun THEN S_DRY_RUN_ACTIVE
  ELSE IF v.throttled["failure"] THEN S_NORMAL_FAILURE_THROTTLED
  ELSE S_NORMAL_ACTIVE

NextFromDryRunSuccess(v) ==
  IF v.wanted THEN S_DRY_RUN_SUCCESS_LEAVING_OPEN ELSE S_DRY_RUN_IDLE

\* Mutant: a request to stop is not looked at.
NextFromLeavingOpenUnstoppable(v) ==
  IF v.closed THEN S_DRY_RUN_IDLE
  ELSE IF v.mode = ModeRunning THEN S_NORMAL_ACTIVE
  ELSE NextFromDryRunSuccess(v)

NextFromLeavingOpen(v) ==
  IF v.closed THEN S_DRY_RUN_IDLE
  ELSE IF v.mode = ModeRunning THEN S_NORMAL_ACTIVE
  ELSE IF v.mode = ModeStopped THEN S_STOPPED
  ELSE NextFromDryRunSuccess(v)

NextFromDryRunFailure(v) ==
  IF v.wanted THEN S_DRY_RUN_FAILURE_THROTTLED ELSE S_DRY_RUN_IDLE

NextFromDryRunFailureThrottled(v) ==
  IF v.closed THEN S_DRY_RUN_IDLE
  ELSE IF v.mode = ModeStopped THEN S_STOPPED
  ELSE IF ~v.wanted THEN S_DRY_RUN_FAILURE
  ELSE IF v.mode = ModeRunning THEN S_NORMAL_ACTIVE
  ELSE IF v.throttled["failure"] THEN S_DRY_RUN_FAILURE_THROTTLED
  ELSE S_DRY_RUN_ACTIVE

\* Mutant: S_NORMAL_SUCCESS, which does not read the roll, does not check it.
RollStatesWithoutSuccess ==
  {S_NORMAL_ACTIVE, S_NORMAL_FAILURE, S_NORMAL_FAILURE_THROTTLED,
   S_DRY_RUN_ACTIVE, S_DRY_RUN_SUCCESS, S_DRY_RUN_SUCCESS_LEAVING_OPEN,
   S_DRY_RUN_FAILURE, S_DRY_RUN_FAILURE_THROTTLED}

\* The states whose case first checks for a nil currentRoll.
RollStates ==
  {S_NORMAL_ACTIVE, S_NORMAL_SUCCESS, S_NORMAL_FAILURE,
   S_NORMAL_FAILURE_THROTTLED, S_DRY_RUN_ACTIVE, S_DRY_RUN_SUCCESS,
   S_DRY_RUN_SUCCESS_LEAVING_OPEN, S_DRY_RUN_FAILURE,
   S_DRY_RUN_FAILURE_THROTTLED}

GetNext(s, v) ==
  IF s \in RollStates /\ ~v.hasRoll THEN S_CURRENT_ROLL_MISSING
  ELSE
    CASE s = S_STOPPED -> IdleStateFor(v.mode)
      [] s = S_NORMAL_IDLE -> NextFromNormalIdle(v)
      [] s = S_NORMAL_ACTIVE -> NextFromNormalActive(v)
      [] s = S_NORMAL_SUCCESS -> NextFromNormalSuccess(v)
      [] s = S_NORMAL_SUCCESS_THROTTLED -> NextFromNormalSuccessThrottled(v)
      [] s = S_NORMAL_FAILURE -> NextFromNormalFailure(v)
      [] s = S_NORMAL_FAILURE_THROTTLED -> NextFromNormalFailureThrottled(v)
      [] s = S_NORMAL_SAFETY_THROTTLED ->
           IF v.throttled["safety"] THEN S_NORMAL_SAFETY_THROTTLED
                                    ELSE S_NORMAL_IDLE
      [] s = S_NORMAL_WAIT_FOR_WINDOW ->
           IF v.inWindow THEN S_NORMAL_IDLE ELSE S_NORMAL_WAIT_FOR_WINDOW
      [] s = S_DRY_RUN_IDLE -> NextFromDryRunIdle(v)
      [] s = S_DRY_RUN_ACTIVE -> NextFromDryRunActive(v)
      [] s = S_DRY_RUN_SUCCESS -> NextFromDryRunSuccess(v)
      [] s = S_DRY_RUN_SUCCESS_LEAVING_OPEN -> NextFromLeavingOpen(v)
      [] s = S_DRY_RUN_FAILURE -> NextFromDryRunFailure(v)
      [] s = S_DRY_RUN_FAILURE_THROTTLED -> NextFromDryRunFailureThrottled(v)
      [] s = S_DRY_RUN_SAFETY_THROTTLED ->
           IF v.throttled["safety"] THEN S_DRY_RUN_SAFETY_THROTTLED
                                    ELSE S_DRY_RUN_IDLE
      [] s = S_CURRENT_ROLL_MISSING -> S_NORMAL_IDLE

\* The most no-op transitions NextTransitionSequence makes in one tick.
MAX_NOOP_TRANSITIONS == 10
=============================================================================
