----------------------------- MODULE CodeReview -----------------------------
(***************************************************************************)
(* How the roller reads a roll CL: the commit-queue predicates of a Gerrit *)
(* configuration (go/gerrit/config.go), the conversion of a Gerrit change  *)
(* or a GitHub pull request into an AutoRollIssue                          *)
(* (autoroll/go/codereview/roll.go), and the result and the validation of  *)
(* that issue (go/autoroll/autoroll.go).                                   *)
(*                                                                         *)
(* A change is reduced to what these functions read of it:                 *)
(*   status   "open", "merged" or "abandoned"                              *)
(*   labels   the set of <<label, value>> votes on it                      *)
(*   tries    the CQ trybots: none yet, running, all passed, one failed    *)
(***************************************************************************)
EXTENDS Integers

(***************************************************************************)
(* Gerrit changes and configurations.                                      *)
(***************************************************************************)
Statuses == {"open", "merged", "abandoned"}
Tries == {"none", "running", "passed", "failed"}

IsClosed(ci) == ci.status \in {"merged", "abandoned"}
IsMerged(ci) == ci.status = "merged"

\* With no CQ result at all, every one of them has succeeded.
AllTrybotsFinished(tries) == tries # "running"
AllTrybotsSucceeded(tries) == tries \in {"none", "passed"}

CqSubmit == <<"Commit-Queue", 2>>
CqDryRun == <<"Commit-Queue", 1>>
CqNone == <<"Commit-Queue", 0>>
AutosubmitNone == <<"Autosubmit", 0>>
AutosubmitSubmit == <<"Autosubmit", 1>>
ReadyEnable == <<"Presubmit-Ready", 1>>
PresubmitAccepted == <<"Presubmit-Verified", 1>>
PresubmitRejected == <<"Presubmit-Verified", -1>>
VerifiedAccepted == <<"Verified", 1>>
VerifiedRejected == <<"Verified", -1>>

Votes == {CqSubmit, CqDryRun, CqNone, AutosubmitNone, AutosubmitSubmit,
          ReadyEnable, PresubmitAccepted, PresubmitRejected,
          VerifiedAccepted, VerifiedRejected}

CONFIG_CHROMIUM ==
  [HasCq |-> TRUE, SetCqLabels |-> {CqSubmit}, SetDryRunLabels |-> {CqDryRun},
   CqActiveLabels |-> {CqSubmit}, CqSuccessLabels |-> {},
   CqFailureLabels |-> {}, CqLabelsUnsetOnCompletion |-> TRUE,
   DryRunActiveLabels |-> {CqDryRun}, DryRunSuccessLabels |-> {},
   DryRunFailureLabels |-> {}, DryRunUsesTryjobResults |-> TRUE]

\* ANGLE differs from Chromium in the self-approval label only.
CONFIG_ANGLE == CONFIG_CHROMIUM

CONFIG_CHROMIUM_NO_CQ ==
  [CONFIG_CHROMIUM EXCEPT
     !.HasCq = FALSE, !.SetCqLabels = {}, !.SetDryRunLabels = {},
     !.CqActiveLabels = {}, !.DryRunActiveLabels = {},
     !.DryRunUsesTryjobResults = FALSE]

CONFIG_ANDROID ==
  [HasCq |-> TRUE,
   SetCqLabels |-> {AutosubmitSubmit, ReadyEnable},
   SetDryRunLabels |-> {AutosubmitNone, ReadyEnable},
   CqActiveLabels |-> {AutosubmitSubmit, ReadyEnable},
   CqSuccessLabels |-> {AutosubmitSubmit, PresubmitAccepted},
   CqFailureLabels |-> {AutosubmitSubmit, PresubmitRejected},
   CqLabelsUnsetOnCompletion |-> TRUE,
   DryRunActiveLabels |-> {AutosubmitNone, ReadyEnable},
   DryRunSuccessLabels |-> {PresubmitAccepted},
   DryRunFailureLabels |-> {PresubmitRejected},
   DryRunUsesTryjobResults |-> FALSE]

CONFIG_LIBASSISTANT ==
  [CONFIG_CHROMIUM EXCEPT
     !.CqSuccessLabels = {VerifiedAccepted},
     !.CqFailureLabels = {VerifiedRejected},
     !.CqLabelsUnsetOnCompletion = FALSE,
     !.DryRunSuccessLabels = {VerifiedAccepted},
     !.DryRunFailureLabels = {VerifiedRejected},
     !.DryRunUsesTryjobResults = FALSE]

Configs == {CONFIG_CHROMIUM, CONFIG_CHROMIUM_NO_CQ, CONFIG_ANDROID,
            CONFIG_LIBASSISTANT}

\* len(labels) > 0 && all(ci, labels)
AllSet(ci, labels) == labels # {} /\ labels \subseteq ci.labels

\* Mutant: a closed change is not looked for.
CqRunningThoughClosed(c, ci) ==
  /\ c.HasCq
  /\ \/ AllSet(ci, c.CqSuccessLabels)
     \/ ~AllSet(ci, c.CqFailureLabels) /\ AllSet(ci, c.CqActiveLabels)

CqRunning(c, ci) ==
  /\ c.HasCq
  /\ ~IsClosed(ci)
  /\ \/ AllSet(ci, c.CqSuccessLabels)
     \/ ~AllSet(ci, c.CqFailureLabels) /\ AllSet(ci, c.CqActiveLabels)

CqSuccess(c, ci) == IsMerged(ci)

DryRunRunning(c, ci) ==
  /\ c.HasCq
  /\ ~IsClosed(ci)
  /\ c.DryRunActiveLabels \subseteq ci.labels
  /\ \/ c.CqLabelsUnsetOnCompletion
     \/ /\ ~AllSet(ci, c.DryRunSuccessLabels)
        /\ ~AllSet(ci, c.DryRunFailureLabels)

\* Mutant: a closed change, landed or not, is no success.
DryRunSuccessWhileOpen(c, ci, allTrybotsSucceeded) ==
  /\ ~IsClosed(ci)
  /\ ~DryRunRunning(c, ci)
  /\ \/ ~c.HasCq
     \/ AllSet(ci, c.DryRunSuccessLabels)
     \/ c.DryRunUsesTryjobResults /\ allTrybotsSucceeded

DryRunSuccess(c, ci, allTrybotsSucceeded) ==
  IF IsClosed(ci) THEN IsMerged(ci)
  ELSE IF ~c.HasCq THEN TRUE
  ELSE IF /\ c.CqLabelsUnsetOnCompletion
          /\ \/ AllSet(ci, c.CqActiveLabels)
             \/ AllSet(ci, c.DryRunActiveLabels)
       THEN FALSE
  ELSE IF AllSet(ci, c.DryRunSuccessLabels) THEN TRUE
  ELSE IF AllSet(ci, c.DryRunFailureLabels) THEN FALSE
  ELSE c.DryRunUsesTryjobResults /\ allTrybotsSucceeded

(***************************************************************************)
(* AutoRollIssue.                                                          *)
(***************************************************************************)
ROLL_RESULT_DRY_RUN_SUCCESS == "dry run succeeded"
ROLL_RESULT_DRY_RUN_FAILURE == "dry run failed"
ROLL_RESULT_DRY_RUN_IN_PROGRESS == "dry run in progress"
ROLL_RESULT_IN_PROGRESS == "in progress"
ROLL_RESULT_SUCCESS == "succeeded"
ROLL_RESULT_FAILURE == "failed"

Results ==
  {ROLL_RESULT_DRY_RUN_SUCCESS, ROLL_RESULT_DRY_RUN_FAILURE,
   ROLL_RESULT_DRY_RUN_IN_PROGRESS, ROLL_RESULT_IN_PROGRESS,
   ROLL_RESULT_SUCCESS, ROLL_RESULT_FAILURE}

\* The fields of an AutoRollIssue which are derived from the CL.
Issues ==
  [IsDryRun : BOOLEAN, Closed : BOOLEAN, Committed : BOOLEAN,
   CqFinished : BOOLEAN, CqSuccess : BOOLEAN, DryRunFinished : BOOLEAN,
   DryRunSuccess : BOOLEAN, Result : Results]

RollResult(isDryRun, cqFinished, cqSuccess, dryRunFinished, dryRunSuccess) ==
  IF isDryRun
  THEN IF ~dryRunFinished THEN ROLL_RESULT_DRY_RUN_IN_PROGRESS
       ELSE IF dryRunSuccess THEN ROLL_RESULT_DRY_RUN_SUCCESS
       ELSE ROLL_RESULT_DRY_RUN_FAILURE
  ELSE IF ~cqFinished THEN ROLL_RESULT_IN_PROGRESS
       ELSE IF cqSuccess THEN ROLL_RESULT_SUCCESS
       ELSE ROLL_RESULT_FAILURE

Validate(i) ==
  /\ i.Closed => i.Result \notin {ROLL_RESULT_DRY_RUN_IN_PROGRESS,
                                  ROLL_RESULT_IN_PROGRESS}
  /\ i.Committed => i.Closed
  /\ i.DryRunFinished => i.IsDryRun
  /\ i.CqSuccess => i.CqFinished
  /\ i.DryRunSuccess => i.DryRunFinished

IssueOf(isDryRun, ci, cqFinished, cqSuccess, dryRunFinished, dryRunSuccess) ==
  [IsDryRun |-> isDryRun, Closed |-> IsClosed(ci), Committed |-> IsMerged(ci),
   CqFinished |-> cqFinished, CqSuccess |-> cqSuccess,
   DryRunFinished |-> dryRunFinished, DryRunSuccess |-> dryRunSuccess,
   Result |-> RollResult(isDryRun, cqFinished, cqSuccess, dryRunFinished,
                         dryRunSuccess)]

updateIssueFromGerritChangeInfo(isDryRun, c, ci) ==
  IssueOf(isDryRun, ci,
          ~isDryRun /\ ~CqRunning(c, ci),
          ~isDryRun /\ CqSuccess(c, ci),
          isDryRun /\ ~DryRunRunning(c, ci),
          isDryRun /\ DryRunSuccess(c, ci,
                        c.DryRunUsesTryjobResults
                          /\ AllTrybotsSucceeded(ci.tries)))

(***************************************************************************)
(* GitHub pull requests: status and tries as above, and                    *)
(*   waiting   the "waiting for tree to go green" label is set             *)
(*   dirty     GitHub reports a merge conflict                             *)
(*   settled   older than GITHUB_PR_DURATION_FOR_CHECKS                    *)
(***************************************************************************)
updateIssueFromGitHubPullRequest(isDryRun, pr) ==
  LET dryRunFinished ==
        /\ isDryRun
        /\ pr.settled
        /\ \/ IsClosed(pr)
           \/ pr.tries # "none" /\ AllTrybotsFinished(pr.tries)
  IN  IssueOf(isDryRun, pr,
              ~isDryRun /\ (IsClosed(pr) \/ ~pr.waiting \/ pr.dirty),
              ~isDryRun /\ IsMerged(pr),
              dryRunFinished,
              /\ isDryRun /\ pr.settled
              /\ IsMerged(pr) \/ (dryRunFinished
                                    /\ AllTrybotsSucceeded(pr.tries)))
=============================================================================
