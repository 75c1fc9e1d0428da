-------------------------- MODULE CodeReviewProofs --------------------------
(***************************************************************************)
(* Proofs about the conversion of a CL into an AutoRollIssue, for every    *)
(* CL, every set of votes and every configuration which can be told that a *)
(* dry run is running, and about the roll which CodeReviewRoll tracks.     *)
(***************************************************************************)
EXTENDS CodeReviewRoll, TLAPS

(***************************************************************************)
(* The conversions.                                                        *)
(***************************************************************************)

\* A configuration with a commit queue whose running dry run is not taken for
\* a success: either it has votes which say that one is running, or the votes
\* alone say that it has succeeded.
TellsDryRuns(c) ==
  c.HasCq =>
    IF c.CqLabelsUnsetOnCompletion THEN c.DryRunActiveLabels # {}
    ELSE ~c.DryRunUsesTryjobResults

\* The configurations of the repository are of this kind.
LEMMA ConfigsTellDryRuns ==
  ASSUME NEW c \in Configs
  PROVE  TellsDryRuns(c)
<1>1. /\ CONFIG_CHROMIUM.HasCq = TRUE
      /\ CONFIG_CHROMIUM.CqLabelsUnsetOnCompletion = TRUE
      /\ CONFIG_CHROMIUM.DryRunActiveLabels # {}
  BY DEF CONFIG_CHROMIUM
<1>2. CONFIG_CHROMIUM_NO_CQ.HasCq = FALSE
  BY DEF CONFIG_CHROMIUM_NO_CQ, CONFIG_CHROMIUM
<1>3. /\ CONFIG_ANDROID.CqLabelsUnsetOnCompletion = TRUE
      /\ CONFIG_ANDROID.DryRunActiveLabels # {}
  BY DEF CONFIG_ANDROID
<1>4. /\ CONFIG_LIBASSISTANT.CqLabelsUnsetOnCompletion = FALSE
      /\ CONFIG_LIBASSISTANT.DryRunUsesTryjobResults = FALSE
  BY DEF CONFIG_LIBASSISTANT, CONFIG_CHROMIUM
<1> QED BY <1>1, <1>2, <1>3, <1>4 DEF Configs, TellsDryRuns

\* A closed change has neither a commit queue nor a dry run running.
LEMMA ClosedIsNotRunning ==
  ASSUME NEW c, NEW ci, IsClosed(ci)
  PROVE  ~CqRunning(c, ci) /\ ~DryRunRunning(c, ci)
  BY DEF CqRunning, DryRunRunning

\* A dry run which has succeeded is not running any more.
LEMMA DryRunSuccessIsFinal ==
  ASSUME NEW c, TellsDryRuns(c), NEW ci, NEW passed \in BOOLEAN,
         passed => c.DryRunUsesTryjobResults,
         DryRunSuccess(c, ci, passed)
  PROVE  ~DryRunRunning(c, ci)
<1> SUFFICES ASSUME DryRunRunning(c, ci) PROVE FALSE
  OBVIOUS
<1>1. ~IsClosed(ci) /\ c.HasCq /\ c.DryRunActiveLabels \subseteq ci.labels
  BY DEF DryRunRunning
<1>2. CASE c.CqLabelsUnsetOnCompletion
  <2>1. AllSet(ci, c.DryRunActiveLabels)
    BY <1>1, <1>2 DEF TellsDryRuns, AllSet
  <2> QED BY <1>1, <1>2, <2>1 DEF DryRunSuccess
<1>3. CASE ~c.CqLabelsUnsetOnCompletion
  <2>1. /\ ~AllSet(ci, c.DryRunSuccessLabels)
        /\ ~AllSet(ci, c.DryRunFailureLabels)
    BY <1>3 DEF DryRunRunning
  <2> QED BY <1>1, <1>3, <2>1 DEF DryRunSuccess, TellsDryRuns
<1> QED BY <1>2, <1>3

\* Landed is closed.
LEMMA MergedIsClosed ==
  ASSUME NEW ci, IsMerged(ci)
  PROVE  IsClosed(ci)
  BY DEF IsMerged, IsClosed

\* When an issue is valid, from its parts: a closed CL is finished, and a
\* success is finished, each as the kind of roll it is.
LEMMA IssueIsValid ==
  ASSUME NEW isDryRun \in BOOLEAN, NEW ci,
         NEW cqFinished \in BOOLEAN, NEW cqSuccess \in BOOLEAN,
         NEW dryRunFinished \in BOOLEAN, NEW dryRunSuccess \in BOOLEAN,
         dryRunFinished => isDryRun
  PROVE  Validate(IssueOf(isDryRun, ci, cqFinished, cqSuccess,
                          dryRunFinished, dryRunSuccess))
           <=> /\ IsClosed(ci) => IF isDryRun THEN dryRunFinished
                                  ELSE cqFinished
               /\ cqSuccess => cqFinished
               /\ dryRunSuccess => dryRunFinished
<1> DEFINE i == IssueOf(isDryRun, ci, cqFinished, cqSuccess, dryRunFinished,
                        dryRunSuccess)
<1>1. /\ i.Closed = IsClosed(ci) /\ i.Committed = IsMerged(ci)
      /\ i.IsDryRun = isDryRun
      /\ i.CqFinished = cqFinished /\ i.CqSuccess = cqSuccess
      /\ i.DryRunFinished = dryRunFinished
      /\ i.DryRunSuccess = dryRunSuccess
      /\ i.Result = RollResult(isDryRun, cqFinished, cqSuccess,
                               dryRunFinished, dryRunSuccess)
  BY DEF IssueOf
<1>2. i.Result \in {ROLL_RESULT_DRY_RUN_IN_PROGRESS, ROLL_RESULT_IN_PROGRESS}
        <=> ~(IF isDryRun THEN dryRunFinished ELSE cqFinished)
  BY <1>1
  DEF RollResult, ROLL_RESULT_DRY_RUN_SUCCESS, ROLL_RESULT_DRY_RUN_FAILURE,
    ROLL_RESULT_DRY_RUN_IN_PROGRESS, ROLL_RESULT_IN_PROGRESS,
    ROLL_RESULT_SUCCESS, ROLL_RESULT_FAILURE
<1> HIDE DEF i
<1>3. Validate(i) <=>
        /\ IsClosed(ci) => IF isDryRun THEN dryRunFinished ELSE cqFinished
        /\ cqSuccess => cqFinished
        /\ dryRunSuccess => dryRunFinished
  BY <1>1, <1>2, MergedIsClosed DEF Validate
<1> QED BY <1>3 DEF i

\* Whatever its votes, its trybots and its status, a Gerrit change is
\* converted into a valid issue.
LEMMA GerritIsValid ==
  ASSUME NEW isDryRun \in BOOLEAN, NEW c, TellsDryRuns(c), NEW ci
  PROVE  Validate(updateIssueFromGerritChangeInfo(isDryRun, c, ci))
<1> DEFINE passed == c.DryRunUsesTryjobResults /\ AllTrybotsSucceeded(ci.tries)
<1>1. passed \in BOOLEAN /\ (passed => c.DryRunUsesTryjobResults)
  BY DEF AllTrybotsSucceeded
<1> HIDE DEF passed
<1>2. DryRunSuccess(c, ci, passed) => ~DryRunRunning(c, ci)
  BY <1>1, DryRunSuccessIsFinal
<1>3. CqSuccess(c, ci) => ~CqRunning(c, ci)
  BY MergedIsClosed, ClosedIsNotRunning DEF CqSuccess
<1>4. IsClosed(ci) => ~CqRunning(c, ci) /\ ~DryRunRunning(c, ci)
  BY ClosedIsNotRunning
<1> DEFINE cqf == ~isDryRun /\ ~CqRunning(c, ci)
           cqs == ~isDryRun /\ CqSuccess(c, ci)
           drf == isDryRun /\ ~DryRunRunning(c, ci)
           drs == isDryRun /\ DryRunSuccess(c, ci, passed)
<1>5. /\ cqf \in BOOLEAN /\ cqs \in BOOLEAN
      /\ drf \in BOOLEAN /\ drs \in BOOLEAN
  OBVIOUS
<1>6. /\ IsClosed(ci) => IF isDryRun THEN drf ELSE cqf
      /\ cqs => cqf
      /\ drs => drf
      /\ drf => isDryRun
  BY <1>2, <1>3, <1>4
<1> HIDE DEF cqf, cqs, drf, drs
<1>7. Validate(IssueOf(isDryRun, ci, cqf, cqs, drf, drs))
  BY <1>5, <1>6, IssueIsValid
<1> QED BY <1>7 DEF cqf, cqs, drf, drs, passed, updateIssueFromGerritChangeInfo

\* A pull request is converted into a valid issue, except exactly one of a dry
\* run which is closed before GITHUB_PR_DURATION_FOR_CHECKS has passed.
LEMMA GitHubIsValid ==
  ASSUME NEW isDryRun \in BOOLEAN, NEW pr
  PROVE  Validate(updateIssueFromGitHubPullRequest(isDryRun, pr))
           <=> ~(isDryRun /\ IsClosed(pr) /\ ~pr.settled)
<1> DEFINE cqf == ~isDryRun /\ (IsClosed(pr) \/ ~pr.waiting \/ pr.dirty)
           cqs == ~isDryRun /\ IsMerged(pr)
           drf == /\ isDryRun
                  /\ pr.settled
                  /\ \/ IsClosed(pr)
                     \/ pr.tries # "none" /\ AllTrybotsFinished(pr.tries)
           drs == /\ isDryRun /\ pr.settled
                  /\ IsMerged(pr) \/ (drf /\ AllTrybotsSucceeded(pr.tries))
<1>1. /\ cqf \in BOOLEAN /\ cqs \in BOOLEAN
      /\ drf \in BOOLEAN /\ drs \in BOOLEAN
  OBVIOUS
<1>2. /\ (IsClosed(pr) => IF isDryRun THEN drf ELSE cqf)
           <=> ~(isDryRun /\ IsClosed(pr) /\ ~pr.settled)
      /\ cqs => cqf
      /\ drs => drf
      /\ drf => isDryRun
  BY MergedIsClosed
<1> HIDE DEF cqf, cqs, drf, drs
<1>3. Validate(IssueOf(isDryRun, pr, cqf, cqs, drf, drs))
        <=> ~(isDryRun /\ IsClosed(pr) /\ ~pr.settled)
  BY <1>1, <1>2, IssueIsValid
<1> QED
  BY <1>3 DEF cqf, cqs, drf, drs, updateIssueFromGitHubPullRequest

(***************************************************************************)
(* What the conversions say of a closed CL.                                *)
(***************************************************************************)

\* A valid issue of a CL: closed and landed are what the CL is, a closed CL is
\* finished as the kind of roll it is, and counts as a success if it has landed.
TellsOf(i, ci) ==
  /\ i.Closed = IsClosed(ci) /\ i.Committed = IsMerged(ci)
  /\ i.Closed => IF i.IsDryRun THEN i.DryRunFinished ELSE i.CqFinished
  /\ i.Committed =>
       i.Result \in {ROLL_RESULT_SUCCESS, ROLL_RESULT_DRY_RUN_SUCCESS}

\* So it is of an issue whose parts say that the CL has succeeded if it has
\* landed.
LEMMA IssueTells ==
  ASSUME NEW isDryRun \in BOOLEAN, NEW ci,
         NEW cqFinished \in BOOLEAN, NEW cqSuccess \in BOOLEAN,
         NEW dryRunFinished \in BOOLEAN, NEW dryRunSuccess \in BOOLEAN,
         dryRunFinished => isDryRun,
         IsMerged(ci) /\ isDryRun /\ dryRunFinished => dryRunSuccess,
         IsMerged(ci) /\ ~isDryRun => cqSuccess,
         Validate(IssueOf(isDryRun, ci, cqFinished, cqSuccess,
                          dryRunFinished, dryRunSuccess))
  PROVE  TellsOf(IssueOf(isDryRun, ci, cqFinished, cqSuccess,
                         dryRunFinished, dryRunSuccess), ci)
<1> DEFINE i == IssueOf(isDryRun, ci, cqFinished, cqSuccess, dryRunFinished,
                        dryRunSuccess)
<1>1. /\ i.Closed = IsClosed(ci) /\ i.Committed = IsMerged(ci)
      /\ i.IsDryRun = isDryRun
      /\ i.CqFinished = cqFinished /\ i.DryRunFinished = dryRunFinished
      /\ i.Result = RollResult(isDryRun, cqFinished, cqSuccess,
                               dryRunFinished, dryRunSuccess)
  BY DEF IssueOf
<1>2. IsClosed(ci) => IF isDryRun THEN dryRunFinished ELSE cqFinished
  BY IssueIsValid
<1>3. IsMerged(ci) =>
        i.Result \in {ROLL_RESULT_SUCCESS, ROLL_RESULT_DRY_RUN_SUCCESS}
  BY <1>1, <1>2, MergedIsClosed DEF RollResult
<1> HIDE DEF i
<1>4. TellsOf(i, ci)
  BY <1>1, <1>2, <1>3 DEF TellsOf
<1> QED BY <1>4 DEF i

\* On Gerrit, for every configuration.
LEMMA GerritTells ==
  ASSUME NEW isDryRun \in BOOLEAN, NEW c, TellsDryRuns(c), NEW ci
  PROVE  TellsOf(updateIssueFromGerritChangeInfo(isDryRun, c, ci), ci)
<1> DEFINE passed == c.DryRunUsesTryjobResults /\ AllTrybotsSucceeded(ci.tries)
           cqf == ~isDryRun /\ ~CqRunning(c, ci)
           cqs == ~isDryRun /\ CqSuccess(c, ci)
           drf == isDryRun /\ ~DryRunRunning(c, ci)
           drs == isDryRun /\ DryRunSuccess(c, ci, passed)
<1>1. /\ cqf \in BOOLEAN /\ cqs \in BOOLEAN
      /\ drf \in BOOLEAN /\ drs \in BOOLEAN
      /\ drf => isDryRun
  OBVIOUS
<1>2. /\ IsMerged(ci) /\ isDryRun /\ drf => drs
      /\ IsMerged(ci) /\ ~isDryRun => cqs
  BY MergedIsClosed DEF DryRunSuccess, CqSuccess
<1>3. Validate(IssueOf(isDryRun, ci, cqf, cqs, drf, drs))
  BY GerritIsValid DEF updateIssueFromGerritChangeInfo
<1> HIDE DEF cqf, cqs, drf, drs
<1>4. TellsOf(IssueOf(isDryRun, ci, cqf, cqs, drf, drs), ci)
  BY <1>1, <1>2, <1>3, IssueTells
<1> QED BY <1>4 DEF cqf, cqs, drf, drs, updateIssueFromGerritChangeInfo

\* On GitHub, if the issue is valid.
LEMMA GitHubTells ==
  ASSUME NEW isDryRun \in BOOLEAN, NEW pr,
         Validate(updateIssueFromGitHubPullRequest(isDryRun, pr))
  PROVE  TellsOf(updateIssueFromGitHubPullRequest(isDryRun, pr), pr)
<1> DEFINE cqf == ~isDryRun /\ (IsClosed(pr) \/ ~pr.waiting \/ pr.dirty)
           cqs == ~isDryRun /\ IsMerged(pr)
           drf == /\ isDryRun
                  /\ pr.settled
                  /\ \/ IsClosed(pr)
                     \/ pr.tries # "none" /\ AllTrybotsFinished(pr.tries)
           drs == /\ isDryRun /\ pr.settled
                  /\ IsMerged(pr) \/ (drf /\ AllTrybotsSucceeded(pr.tries))
<1>1. /\ cqf \in BOOLEAN /\ cqs \in BOOLEAN
      /\ drf \in BOOLEAN /\ drs \in BOOLEAN
      /\ drf => isDryRun
      /\ IsMerged(pr) /\ isDryRun /\ drf => drs
      /\ IsMerged(pr) /\ ~isDryRun => cqs
  OBVIOUS
<1>2. Validate(IssueOf(isDryRun, pr, cqf, cqs, drf, drs))
  BY DEF updateIssueFromGitHubPullRequest
<1> HIDE DEF cqf, cqs, drf, drs
<1>3. TellsOf(IssueOf(isDryRun, pr, cqf, cqs, drf, drs), pr)
  BY <1>1, <1>2, IssueTells
<1> QED BY <1>3 DEF cqf, cqs, drf, drs, updateIssueFromGitHubPullRequest

(***************************************************************************)
(* The types.                                                              *)
(***************************************************************************)
Changes ==
  [status : Statuses, tries : Tries, labels : SUBSET Votes,
   waiting : BOOLEAN, dirty : BOOLEAN, settled : BOOLEAN]

TypeInv ==
  /\ server \in {"gerrit", "github"}
  /\ config \in Configs
  /\ cl \in Changes
  /\ issue \in Issues /\ recorded \in Issues
  /\ result \in CloseResults \cup {NoResult}
  /\ pc \in {"ready", "sync"}

\* The votes of the configurations.
LEMMA ConfigVotes ==
  ASSUME NEW c \in Configs
  PROVE  /\ VotesOf(c) \subseteq Votes
         /\ c.SetCqLabels \subseteq Votes
         /\ c.SetDryRunLabels \subseteq Votes
<1> USE DEF VotesOf, Votes
<1>1. CASE c = CONFIG_CHROMIUM
  BY <1>1 DEF CONFIG_CHROMIUM
<1>2. CASE c = CONFIG_CHROMIUM_NO_CQ
  BY <1>2 DEF CONFIG_CHROMIUM_NO_CQ, CONFIG_CHROMIUM
<1>3. CASE c = CONFIG_ANDROID
  BY <1>3 DEF CONFIG_ANDROID
<1>4. CASE c = CONFIG_LIBASSISTANT
  BY <1>4 DEF CONFIG_LIBASSISTANT, CONFIG_CHROMIUM
<1> QED BY <1>1, <1>2, <1>3, <1>4 DEF Configs

\* The result of a roll is one of Results.
LEMMA RollResultType ==
  ASSUME NEW isDryRun, NEW cqf, NEW cqs, NEW drf, NEW drs
  PROVE  RollResult(isDryRun, cqf, cqs, drf, drs) \in Results
  BY DEF RollResult, Results

\* An issue which is put together from Booleans has its type.
LEMMA IssueType ==
  ASSUME NEW isDryRun \in BOOLEAN, NEW ci,
         NEW cqf \in BOOLEAN, NEW cqs \in BOOLEAN,
         NEW drf \in BOOLEAN, NEW drs \in BOOLEAN
  PROVE  LET i == IssueOf(isDryRun, ci, cqf, cqs, drf, drs)
         IN  i \in Issues /\ i.IsDryRun = isDryRun
<1>1. IsClosed(ci) \in BOOLEAN /\ IsMerged(ci) \in BOOLEAN
  BY DEF IsClosed, IsMerged
<1> QED BY <1>1, RollResultType DEF IssueOf, Issues

\* A conversion yields an issue of the kind which was asked for.
LEMMA ConvertType ==
  ASSUME NEW isDryRun \in BOOLEAN
  PROVE  Convert(isDryRun) \in Issues /\ Convert(isDryRun).IsDryRun = isDryRun
<1>1. CASE OnGitHub
  <2> DEFINE cqf == ~isDryRun /\ (IsClosed(cl) \/ ~cl.waiting \/ cl.dirty)
             cqs == ~isDryRun /\ IsMerged(cl)
             drf == /\ isDryRun
                    /\ cl.settled
                    /\ \/ IsClosed(cl)
                       \/ cl.tries # "none" /\ AllTrybotsFinished(cl.tries)
             drs == /\ isDryRun /\ cl.settled
                    /\ IsMerged(cl) \/ (drf /\ AllTrybotsSucceeded(cl.tries))
  <2>1. /\ cqf \in BOOLEAN /\ cqs \in BOOLEAN
        /\ drf \in BOOLEAN /\ drs \in BOOLEAN
    OBVIOUS
  <2>2. Convert(isDryRun) = IssueOf(isDryRun, cl, cqf, cqs, drf, drs)
    BY <1>1 DEF Convert, updateIssueFromGitHubPullRequest
  <2> HIDE DEF cqf, cqs, drf, drs
  <2> QED BY <2>1, <2>2, IssueType
<1>2. CASE ~OnGitHub
  <2> DEFINE passed == /\ config.DryRunUsesTryjobResults
                       /\ AllTrybotsSucceeded(cl.tries)
             cqf == ~isDryRun /\ ~CqRunning(config, cl)
             cqs == ~isDryRun /\ CqSuccess(config, cl)
             drf == isDryRun /\ ~DryRunRunning(config, cl)
             drs == isDryRun /\ DryRunSuccess(config, cl, passed)
  <2>1. /\ cqf \in BOOLEAN /\ cqs \in BOOLEAN
        /\ drf \in BOOLEAN /\ drs \in BOOLEAN
    OBVIOUS
  <2>2. Convert(isDryRun) = IssueOf(isDryRun, cl, cqf, cqs, drf, drs)
    BY <1>2 DEF Convert, updateIssueFromGerritChangeInfo
  <2> HIDE DEF cqf, cqs, drf, drs
  <2> QED BY <2>1, <2>2, IssueType
<1> QED BY <1>1, <1>2

\* If it is valid, it tells the truth of the CL as it is now.
LEMMA ConvertTells ==
  ASSUME NEW isDryRun \in BOOLEAN, config \in Configs,
         Validate(Convert(isDryRun))
  PROVE  TellsOf(Convert(isDryRun), cl)
  BY GerritTells, GitHubTells, ConfigsTellDryRuns DEF Convert

\* It is, except that of a dry run on GitHub which is closed too early.
LEMMA ConvertIsValid ==
  ASSUME NEW isDryRun \in BOOLEAN, config \in Configs,
         ~OnGitHub \/ cl.settled \/ ~isDryRun \/ ~IsClosed(cl)
  PROVE  Validate(Convert(isDryRun))
  BY GerritIsValid, GitHubIsValid, ConfigsTellDryRuns DEF Convert

\* The initial types.
LEMMA InitTypeInv == Init => TypeInv
<1> SUFFICES ASSUME Init PROVE TypeInv
  OBVIOUS
<1>1. server \in {"gerrit", "github"} /\ config \in Configs
  BY DEF Init, Configs
<1>2. PICK isDryRun \in BOOLEAN :
        /\ cl = IF OnGitHub THEN NewPullRequest(isDryRun) ELSE NewChange(isDryRun)
        /\ issue = Convert(isDryRun)
  BY DEF Init
<1>3. NewPullRequest(isDryRun) \in Changes
  BY DEF NewPullRequest, Changes, Statuses, Tries
<1>4. NewChange(isDryRun) \in Changes
  BY <1>1, ConfigVotes DEF NewChange, Changes, Statuses, Tries
<1> QED
  BY <1>1, <1>2, <1>3, <1>4, ConvertType DEF Init, TypeInv

\* Every step keeps them.
LEMMA NextTypeInv == TypeInv /\ [Next]_vars => TypeInv'
<1> SUFFICES ASSUME TypeInv, [Next]_vars PROVE TypeInv'
  OBVIOUS
<1> USE DEF TypeInv
<1>1. issue.IsDryRun \in BOOLEAN
  BY DEF Issues
<1>2. CASE Update
  <2>1. Convert(issue.IsDryRun) \in Issues
    BY <1>1, ConvertType
  <2>2. \A i \in Issues, r \in CloseResults : [i EXCEPT !.Result = r] \in Issues
    BY DEF Issues, CloseResults, Results
  <2> QED BY <1>2, <2>1, <2>2 DEF Update
<1>3. CASE Close
  <2>1. [cl EXCEPT !.status = IF @ = "open" THEN "abandoned" ELSE @] \in Changes
    BY DEF Changes, Statuses
  <2> QED BY <1>3, <2>1 DEF Close
<1>4. ASSUME NEW isDryRun \in BOOLEAN, NEW votes \in SUBSET Votes,
             SendTo(isDryRun, votes)
      PROVE  TypeInv'
  <2>1. Voted(votes) \subseteq Votes
    BY DEF Voted, Changes
  <2>2. [cl EXCEPT !.labels = Voted(votes)] \in Changes
    BY <2>1 DEF Changes
  <2>3. [issue EXCEPT !.IsDryRun = isDryRun] \in Issues
    BY DEF Issues
  <2> QED BY <1>4, <2>2, <2>3 DEF SendTo
<1>5. SendToCQ \/ SendToDryRun => TypeInv'
  BY <1>4, ConfigVotes DEF SendToCQ, SendToDryRun
<1>6. ASSUME NEW isDryRun \in BOOLEAN, NEW p \in Changes,
             SwitchOrRetry(isDryRun, p)
      PROVE  TypeInv'
  <2>1. [p EXCEPT !.waiting = cl.waiting] \in Changes
    BY DEF Changes
  <2>2. [issue EXCEPT !.IsDryRun = isDryRun] \in Issues
    BY DEF Issues
  <2> QED BY <1>6, <2>1, <2>2 DEF SwitchOrRetry
<1>7. \A label \in BOOLEAN, t \in Tries : Relabelled(label, t) \in Changes
  BY DEF Relabelled, Changes
<1>8. SwitchToDryRun \/ SwitchToNormal \/ RetryCQ \/ RetryDryRun => TypeInv'
  <2>1. cl.tries \in Tries /\ "running" \in Tries /\ cl.waiting \in BOOLEAN
    BY DEF Changes, Tries
  <2> QED
    BY <1>6, <1>7, <2>1
    DEF SwitchToDryRun, SwitchToNormal, RetryCQ, RetryDryRun
<1>9. ASSUME NEW c \in Changes, ServerChange(c) PROVE TypeInv'
  BY <1>9 DEF ServerChange, roller
<1>10. AddVote \/ RemoveVote => TypeInv'
  <2>1. \A w \in VotesOf(config) : [cl EXCEPT !.labels = @ \cup {w}] \in Changes
    BY ConfigVotes DEF Changes
  <2>2. \A w : [cl EXCEPT !.labels = @ \ {w}] \in Changes
    BY DEF Changes
  <2> QED BY <1>9, <2>1, <2>2 DEF AddVote, RemoveVote
<1>11. TrybotsReport \/ IsSettled => TypeInv'
  <2>1. \A t \in Tries : [cl EXCEPT !.tries = t] \in Changes
    BY DEF Changes
  <2>2. \A st \in {"merged", "abandoned"} : [cl EXCEPT !.status = st] \in Changes
    BY DEF Changes, Statuses
  <2> QED BY <1>9, <2>1, <2>2 DEF TrybotsReport, IsSettled
<1>12. MergeBotGivesUp \/ MergeConflict \/ Settles => TypeInv'
  <2>1. /\ [cl EXCEPT !.waiting = FALSE] \in Changes
        /\ [cl EXCEPT !.dirty = TRUE] \in Changes
        /\ [cl EXCEPT !.settled = TRUE] \in Changes
    BY DEF Changes
  <2> QED BY <1>9, <2>1 DEF MergeBotGivesUp, MergeConflict, Settles
<1>13. CASE UNCHANGED vars
  BY <1>13 DEF vars, roller
<1> QED
  BY <1>2, <1>3, <1>5, <1>8, <1>10, <1>11, <1>12, <1>13 DEF Next

(***************************************************************************)
(* The record.                                                             *)
(***************************************************************************)

\* A closed CL keeps its status, whatever happens to it.
LEMMA StatusStays ==
  TypeInv /\ [Next]_vars => (IsClosed(cl) => cl'.status = cl.status)
<1> SUFFICES ASSUME TypeInv, [Next]_vars, IsClosed(cl)
             PROVE  cl'.status = cl.status
  OBVIOUS
<1> USE DEF TypeInv, Changes
<1>1. CASE Update
  BY <1>1 DEF Update
<1>2. CASE Close
  BY <1>2 DEF Close, IsClosed
<1>3. CASE SendToCQ \/ SendToDryRun
  BY <1>3 DEF SendToCQ, SendToDryRun, SendTo
<1>4. CASE SwitchToDryRun \/ SwitchToNormal \/ RetryCQ \/ RetryDryRun
  BY <1>4
  DEF SwitchToDryRun, SwitchToNormal, RetryCQ, RetryDryRun, SwitchOrRetry,
    Relabelled
<1>5. CASE AddVote \/ RemoveVote \/ TrybotsReport \/ IsSettled
  BY <1>5 DEF AddVote, RemoveVote, TrybotsReport, IsSettled, ServerChange
<1>6. CASE MergeBotGivesUp \/ MergeConflict \/ Settles
  BY <1>6 DEF MergeBotGivesUp, MergeConflict, Settles, ServerChange
<1>7. CASE UNCHANGED vars
  BY <1>7 DEF vars
<1> QED
  BY <1>1, <1>2, <1>3, <1>4, <1>5, <1>6, <1>7 DEF Next

\* What the datastore has of the CL passes Validate, and is not ahead of it.
RecordIsTrue ==
  /\ Validate(recorded)
  /\ recorded.Closed => IsClosed(cl)
  /\ recorded.Committed => IsMerged(cl)

\* Only Update writes the record; Close sets the result, for good.
LEMMA OthersKeepTheRecord ==
  [Next]_vars /\ ~Update =>
    recorded' = recorded /\ result' \in CloseResults \cup {result}
<1> SUFFICES ASSUME [Next]_vars, ~Update
             PROVE  recorded' = recorded
                      /\ result' \in CloseResults \cup {result}
  OBVIOUS
<1>1. CASE Close
  BY <1>1 DEF Close
<1>2. CASE SendToCQ \/ SendToDryRun
  BY <1>2 DEF SendToCQ, SendToDryRun, SendTo
<1>3. CASE SwitchToDryRun \/ SwitchToNormal \/ RetryCQ \/ RetryDryRun
  BY <1>3
  DEF SwitchToDryRun, SwitchToNormal, RetryCQ, RetryDryRun, SwitchOrRetry
<1>4. CASE AddVote \/ RemoveVote \/ TrybotsReport \/ IsSettled
  BY <1>4 DEF AddVote, RemoveVote, TrybotsReport, IsSettled, ServerChange, roller
<1>5. CASE MergeBotGivesUp \/ MergeConflict \/ Settles
  BY <1>5 DEF MergeBotGivesUp, MergeConflict, Settles, ServerChange, roller
<1>6. CASE UNCHANGED vars
  BY <1>6 DEF vars, roller
<1> QED BY <1>1, <1>2, <1>3, <1>4, <1>5, <1>6 DEF Next

\* After the upload the CL is open, and recorded as open.
LEMMA InitRecord == Init => RecordIsTrue /\ ClosedIsFinished
<1> SUFFICES ASSUME Init PROVE RecordIsTrue /\ ClosedIsFinished
  OBVIOUS
<1>1. PICK isDryRun \in BOOLEAN :
        /\ cl = IF OnGitHub THEN NewPullRequest(isDryRun) ELSE NewChange(isDryRun)
        /\ recorded = Convert(isDryRun)
  BY DEF Init
<1>2. config \in Configs
  BY DEF Init, Configs
<1>3. ~IsClosed(cl)
  BY <1>1 DEF NewPullRequest, NewChange, IsClosed
<1>4. Validate(recorded) /\ TellsOf(recorded, cl)
  BY <1>1, <1>2, <1>3, ConvertIsValid, ConvertTells
<1> QED
  BY <1>3, <1>4, MergedIsClosed DEF RecordIsTrue, ClosedIsFinished, TellsOf

\* An Update records what the CL is, or nothing; every other step leaves the
\* record, and a closed CL as it is.
LEMMA NextRecord ==
  TypeInv /\ RecordIsTrue /\ ClosedIsFinished /\ [Next]_vars =>
    RecordIsTrue' /\ ClosedIsFinished'
<1> SUFFICES ASSUME TypeInv, RecordIsTrue, ClosedIsFinished, [Next]_vars
             PROVE  RecordIsTrue' /\ ClosedIsFinished'
  OBVIOUS
<1>1. CASE Update
  <2> DEFINE i == Convert(issue.IsDryRun)
  <2>1. issue.IsDryRun \in BOOLEAN /\ config \in Configs
          /\ result \in CloseResults \cup {NoResult}
    BY DEF TypeInv, Issues
  <2>2. i \in Issues
    BY <2>1, ConvertType
  <2>3. cl' = cl /\ result' = result
    BY <1>1 DEF Update
  <2>4. CASE ~Validate(i)
    BY <1>1, <2>3, <2>4
    DEF Update, RecordIsTrue, ClosedIsFinished, IsClosed, IsMerged
  <2>5. CASE Validate(i)
    <3>1. TellsOf(i, cl)
      BY <2>1, <2>5, ConvertTells
    <3>2. recorded' = IF result = NoResult THEN i ELSE [i EXCEPT !.Result = result]
      BY <1>1, <2>5 DEF Update
    <3> HIDE DEF i
    <3>3. CASE result = NoResult
      BY <2>3, <2>5, <3>1, <3>2, <3>3
      DEF RecordIsTrue, ClosedIsFinished, TellsOf, IsClosed, IsMerged
    <3>4. CASE result # NoResult
      <4>1. /\ recorded'.Closed = i.Closed /\ recorded'.Committed = i.Committed
            /\ recorded'.IsDryRun = i.IsDryRun
            /\ recorded'.CqFinished = i.CqFinished
            /\ recorded'.CqSuccess = i.CqSuccess
            /\ recorded'.DryRunFinished = i.DryRunFinished
            /\ recorded'.DryRunSuccess = i.DryRunSuccess
            /\ recorded'.Result = result
        BY <2>2, <3>2, <3>4 DEF Issues
      <4>2. result \notin {ROLL_RESULT_DRY_RUN_IN_PROGRESS,
                          ROLL_RESULT_IN_PROGRESS}
        BY <2>1, <3>4
        DEF CloseResults, ROLL_RESULT_FAILURE, ROLL_RESULT_DRY_RUN_FAILURE,
          ROLL_RESULT_DRY_RUN_SUCCESS, ROLL_RESULT_DRY_RUN_IN_PROGRESS,
          ROLL_RESULT_IN_PROGRESS
      <4>3. Validate(recorded')
        BY <2>5, <4>1, <4>2 DEF Validate
      <4> QED
        BY <2>3, <3>1, <3>4, <4>1, <4>3
        DEF RecordIsTrue, ClosedIsFinished, TellsOf, IsClosed, IsMerged
    <3> QED BY <3>3, <3>4
  <2> QED BY <2>4, <2>5
<1>2. CASE ~Update
  <2>1. recorded' = recorded /\ (result # NoResult => result' # NoResult)
    BY <1>2, OthersKeepTheRecord
    DEF CloseResults, NoResult, ROLL_RESULT_FAILURE,
      ROLL_RESULT_DRY_RUN_FAILURE, ROLL_RESULT_DRY_RUN_SUCCESS
  <2>2. IsClosed(cl) => cl'.status = cl.status
    BY StatusStays
  <2>3. /\ IsClosed(cl) => IsClosed(cl')
        /\ IsMerged(cl) => IsMerged(cl')
    BY <2>2, MergedIsClosed DEF IsClosed, IsMerged
  <2> QED
    BY <2>1, <2>3 DEF RecordIsTrue, ClosedIsFinished, IsClosed, IsMerged
<1> QED BY <1>1, <1>2

(***************************************************************************)
(* The theorems.                                                           *)
(***************************************************************************)

\* Update never fails for what the CL is, but for a dry run on GitHub in its
\* first 15 minutes, whatever is voted, reported and decided.
THEOREM ConversionsAreValid == Spec => []ConversionIsValid
<1>1. TypeInv => ConversionIsValid
  BY ConvertIsValid DEF TypeInv, Issues, ConversionIsValid
<1> QED BY <1>1, InitTypeInv, NextTypeInv, PTL DEF Spec

\* A CL which is recorded as closed is finished, and a success if it has landed
\* and the roller has not closed it, on both servers.
THEOREM ClosedOnesAreFinished == Spec => []ClosedIsFinished
<1> QED
  BY InitTypeInv, NextTypeInv, InitRecord, NextRecord, PTL DEF Spec

\* What the datastore says of the CL is valid and true: closed and landed are
\* recorded only of a CL which is, so that a restart forgets no open CL.
THEOREM RecordsAreTrue == Spec => []RecordIsTrue
<1> QED
  BY InitTypeInv, NextTypeInv, InitRecord, NextRecord, PTL DEF Spec
=============================================================================
