--------------------------- MODULE CodeReviewRoll ---------------------------
(***************************************************************************)
(* One roll CL, on Gerrit or on GitHub, and the gerritRoll or githubRoll   *)
(* which tracks it (autoroll/go/codereview/roll.go).                       *)
(*                                                                         *)
(* On Gerrit other users and the commit queue vote on the CL as they like, *)
(* so a label can hold several values at once.  GitHub lets the roller     *)
(* comment on, label and close a pull request which is closed already.     *)
(* The conversion of a pull request can fail Validate; by then it has      *)
(* changed the roller's issue, but the record is left as it was.           *)
(*                                                                         *)
(* A modification is two steps, the request, which the server may refuse,  *)
(* and the Update, since the CL may change in between.                     *)
(***************************************************************************)
EXTENDS CodeReview

VARIABLES
  server,     \* "gerrit" or "github"
  config,     \* the Gerrit configuration
  cl,         \* the change or the pull request, on the server
  issue,      \* the roller's AutoRollIssue
  result,     \* the result which Close has set, or NoResult
  recorded,   \* the issue in the recent rolls
  pc          \* "ready", or the Update of a modification is due: "sync"

roller == <<issue, result, recorded, pc>>
vars == <<server, config, cl, roller>>

NoResult == ""
OnGitHub == server = "github"

\* The votes which the predicates of a configuration read.
VotesOf(c) ==
  c.SetCqLabels \cup c.SetDryRunLabels \cup c.CqActiveLabels
    \cup c.CqSuccessLabels \cup c.CqFailureLabels \cup c.DryRunActiveLabels
    \cup c.DryRunSuccessLabels \cup c.DryRunFailureLabels

Convert(isDryRun) ==
  IF OnGitHub THEN updateIssueFromGitHubPullRequest(isDryRun, cl)
  ELSE updateIssueFromGerritChangeInfo(isDryRun, config, cl)

\* The roller's votes: a new value of a label replaces the old one.
Voted(votes) ==
  {w \in cl.labels : \A u \in votes : u[1] # w[1]} \cup votes

\* A new CL; the fields of the other server keep their values.
NewChange(isDryRun) ==
  [status |-> "open", tries |-> "none",
   labels |-> IF isDryRun THEN config.SetDryRunLabels ELSE config.SetCqLabels,
   waiting |-> FALSE, dirty |-> FALSE, settled |-> FALSE]

NewPullRequest(isDryRun) ==
  [status |-> "open", tries |-> "none", labels |-> {},
   waiting |-> ~isDryRun, dirty |-> FALSE, settled |-> FALSE]

\* newGerritRoll or newGithubRoll and InsertIntoDB, right after the upload.
Init ==
  /\ \/ server = "gerrit" /\ config \in Configs
     \/ server = "github" /\ config = CONFIG_CHROMIUM_NO_CQ
  /\ \E isDryRun \in BOOLEAN :
       /\ cl = IF OnGitHub THEN NewPullRequest(isDryRun) ELSE NewChange(isDryRun)
       /\ issue = Convert(isDryRun)
  /\ recorded = issue
  /\ result = NoResult
  /\ pc = "ready"

(***************************************************************************)
(* The roller.                                                             *)
(***************************************************************************)
\* Mutant: an issue which is closed is not updated again.
UpdateUntilClosed ==
  /\ LET i == Convert(issue.IsDryRun)
     IN  IF issue.Closed THEN UNCHANGED <<issue, recorded>>
         ELSE /\ issue' = i
              /\ recorded' = IF Validate(i) THEN i ELSE recorded
  /\ pc' = "ready"
  /\ UNCHANGED <<server, config, cl, result>>

\* Update, alone or as the end of withModify.
Update ==
  /\ LET i == Convert(issue.IsDryRun)
     IN  IF Validate(i)
         THEN /\ issue' = IF result = NoResult THEN i
                          ELSE [i EXCEPT !.Result = result]
              /\ recorded' = issue'
         ELSE issue' = i /\ UNCHANGED recorded
  /\ pc' = "ready"
  /\ UNCHANGED <<server, config, cl, result>>

CloseResults == {ROLL_RESULT_FAILURE, ROLL_RESULT_DRY_RUN_FAILURE,
                 ROLL_RESULT_DRY_RUN_SUCCESS}

\* The request may fail; the result is set anyway.
Close ==
  /\ pc = "ready"
  /\ result' \in CloseResults
  /\ cl' \in {cl, [cl EXCEPT !.status = IF @ = "open" THEN "abandoned" ELSE @]}
  /\ pc' = "sync"
  /\ UNCHANGED <<server, config, issue, recorded>>

\* On Gerrit, SwitchToNormal and RetryCQ, SwitchToDryRun and RetryDryRun.
SendTo(isDryRun, votes) ==
  /\ ~OnGitHub
  /\ pc = "ready"
  /\ \/ /\ ~IsClosed(cl)
        /\ cl' = [cl EXCEPT !.labels = Voted(votes)]
        /\ issue' = [issue EXCEPT !.IsDryRun = isDryRun]
     \/ UNCHANGED <<cl, issue>>
  /\ pc' = "sync"
  /\ UNCHANGED <<server, config, result, recorded>>

SendToCQ == SendTo(FALSE, config.SetCqLabels)
SendToDryRun == SendTo(TRUE, config.SetDryRunLabels)

\* On GitHub, RemoveLabel or AddLabel, and before it the new run of the checks
\* which a retry asks for.
Relabelled(label, tries) == [cl EXCEPT !.waiting = label, !.tries = tries]

SwitchOrRetry(isDryRun, p) ==
  /\ OnGitHub
  /\ pc = "ready"
  /\ \/ cl' = p /\ issue' = [issue EXCEPT !.IsDryRun = isDryRun]
     \/ cl' = [p EXCEPT !.waiting = cl.waiting] /\ UNCHANGED issue
  /\ pc' = "sync"
  /\ UNCHANGED <<server, config, result, recorded>>

SwitchToDryRun == SwitchOrRetry(TRUE, Relabelled(FALSE, cl.tries))
SwitchToNormal == SwitchOrRetry(FALSE, Relabelled(TRUE, cl.tries))
RetryCQ == SwitchOrRetry(FALSE, Relabelled(TRUE, "running"))
RetryDryRun == SwitchOrRetry(TRUE, Relabelled(cl.waiting, "running"))

(***************************************************************************)
(* The server and the clock.                                               *)
(***************************************************************************)
ServerChange(c) ==
  /\ cl' = c
  /\ UNCHANGED <<server, config, roller>>

AddVote ==
  /\ ~OnGitHub /\ ~IsClosed(cl)
  /\ \E w \in VotesOf(config) : ServerChange([cl EXCEPT !.labels = @ \cup {w}])

RemoveVote ==
  /\ ~OnGitHub /\ ~IsClosed(cl)
  /\ \E w \in cl.labels : ServerChange([cl EXCEPT !.labels = @ \ {w}])

\* The checks of a pull request go on after it is closed.
TrybotsReport ==
  /\ OnGitHub \/ ~IsClosed(cl)
  /\ \E t \in Tries : ServerChange([cl EXCEPT !.tries = t])

IsSettled ==
  /\ ~IsClosed(cl)
  /\ \E st \in {"merged", "abandoned"} : ServerChange([cl EXCEPT !.status = st])

MergeBotGivesUp == OnGitHub /\ ServerChange([cl EXCEPT !.waiting = FALSE])

MergeConflict == OnGitHub /\ ServerChange([cl EXCEPT !.dirty = TRUE])

\* GITHUB_PR_DURATION_FOR_CHECKS has passed since the upload.
Settles ==
  /\ OnGitHub
  /\ ~cl.settled
  /\ ServerChange([cl EXCEPT !.settled = TRUE])

Next ==
  \/ Update \/ Close
  \/ SendToCQ \/ SendToDryRun
  \/ SwitchToDryRun \/ SwitchToNormal \/ RetryCQ \/ RetryDryRun
  \/ AddVote \/ RemoveVote \/ TrybotsReport \/ IsSettled
  \/ MergeBotGivesUp \/ MergeConflict \/ Settles

Spec == Init /\ [][Next]_vars

\* Each tick updates an active roll, and time passes.
FairSpec == Spec /\ WF_vars(Update) /\ WF_vars(Settles)

(***************************************************************************)
(* Properties.                                                             *)
(***************************************************************************)

\* Whatever the votes, the checks and the status of the CL, the issue which
\* Update derives passes Validate, so that Update cannot fail over and over;
\* on GitHub with the exception of a dry run in its first 15 minutes.
ConversionIsValid ==
  ~OnGitHub \/ cl.settled \/ ~issue.IsDryRun =>
    Validate(Convert(issue.IsDryRun))

\* A CL which is recorded as closed is finished as the kind of roll it is, so
\* a state machine which waits for that kind to finish goes on; and if it has
\* landed it counts as a success, a dry run too, unless the roller itself has
\* asked to close it.
ClosedIsFinished ==
  recorded.Closed =>
    /\ IF recorded.IsDryRun THEN recorded.DryRunFinished ELSE recorded.CqFinished
    /\ recorded.Committed /\ result = NoResult =>
         recorded.Result \in {ROLL_RESULT_SUCCESS, ROLL_RESULT_DRY_RUN_SUCCESS}

\* A CL which is closed, by anyone and at any time, is at last recorded as
\* closed, although on GitHub Update may fail before that.
ClosedIsRecorded == IsClosed(cl) ~> recorded.Closed
=============================================================================
