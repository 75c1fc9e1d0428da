# TLA+ specifications for AutoRoll and the Task Scheduler

This directory specifies and verifies two services of Skia's infrastructure
repository. AutoRoll keeps a parent repository up to date with its dependencies
by uploading, watching and closing roll CLs. The Task Scheduler decides which
tasks run at which commits, blames commits on tasks, and turns the results of
tasks into verdicts on jobs, try jobs among them. The modules are translated
from the Go code under `src/`; `PROJECT.json` maps every definition to the lines
it models.

## 1. Inventory

The repository is a collection of services with shared libraries in `go/`.

| Component | State | Operations | Interaction | In this project |
|---|---|---|---|---|
| AutoRoll state machine (`autoroll/go/state_machine`, `go/state_machine`) | current state, persisted in a GCS file | `GetNext`, `NextTransition`, `NextTransitionSequence` | reads the roller, calls its methods | `RollerStates`, `TickSequence`, `AutoRoll` |
| AutoRoller (`autoroll/go/roller`) | current roll, last/next/tip revision, mode and strategy copies | `NewAutoRoller`, `Tick`, `unthrottle`, `UploadNewRoll`, `UpdateRepos`, `RolledPast`, `handleManualRolls` | Gerrit/GitHub, git, datastore, GCS | `AutoRoll`, `ManualRolls` |
| Roll CL (`autoroll/go/codereview`, `go/gerrit`, `go/autoroll`) | the `AutoRollIssue` | `Update`, `Close`, `SwitchTo*`, `Retry*`, `InsertIntoDB` | code review server, recent rolls | `CodeReview`, `CodeReviewRoll` |
| Throttles (`state_machine.Throttler`, `go/counters`) | lists of decrement times, in memory and in GCS | `Inc`, `dec`, `Reset`, `IsThrottled`, `ThrottledUntil` | timers, GCS | `PersistentCounter`; counts only in `AutoRoll` |
| Strategies (`autoroll/go/strategy`) | none | `GetNextRollRev` | called by `UpdateRepos` | `Strategies`, `RollSequence` |
| Requests (`modes`, `strategy`, `unthrottle`, `rpc`) | datastore entities and the copy of a tick | set mode, set strategy, unthrottle | web front end to back end, through the datastore | `AutoRoll` |
| Recent rolls (`autoroll/go/recent_rolls`) | the newest roll and its history | `Add`, `Update`, `CurrentRoll` | datastore | `AutoRoll` (newest roll) |
| Manual rolls (`autoroll/go/manual`) | requests with a status | create, poll, upload, update | Firestore, Gerrit, the revisions of the roller | `ManualRolls` |
| Roll window (`autoroll/go/time_window`) | parsed windows | `Parse`, `Test` | clock | an oracle in `AutoRoll` |
| Scheduling (`task_scheduler/go/scheduling`) | the queue, tasks which are being inserted | `MainLoop`, `updateUnfinishedJobs`, `scheduleTasks`, `addTasks`, `HandleSwarmingPubSub`, `updateUnfinishedTasks` | Swarming, Pub/Sub, Firestore, the caches | `TaskScheduler` |
| Task and job database and caches (`task_scheduler/go/db`, `types`) | tasks and jobs with `DbModified`; cached copies, an index by commit | `PutTasks`, `PutJobs`, `UpdateTasksWithRetries`, `Update`, `AddTasks`, `AddJobs` | shared by all processes of the service | `TaskScheduler`, `TryJobs`, `BlameLedger`, `BuildVerdicts` |
| Try jobs (`task_scheduler/go/tryjobs`) | a job per leased build | `Poll`, `insertNewJob`, `updateJobs`, `sendHeartbeats`, `jobFinished` | Buildbucket, Firestore | `TryJobs` |
| Machine server, Golden, Perf, alert manager, gitsync, Cluster Telemetry, web tools, deployment | see `PROJECT.json` | | | not modelled |

What is hard in AutoRoll:

* *Copies.* A tick decides on a copy of the CL, of the mode and of the
  revisions; people, the commit queue and other rollers change the originals
  between any two remote calls.
* *Failure in the middle.* A transition function is a chain of remote calls,
  each of which can fail, or succeed and lose its reply. The state is changed
  in memory and then in GCS, the roll is created on the server and then
  recorded, the throttles are reset one by one and then the request is cleared.
* *Restart.* The state comes back from GCS, the roll from the datastore, the
  counters from their own GCS files. Nothing makes them agree.
* *Two hand-written tables.* `GetNext` and the list of registered transitions
  have to match in all 17 states.
* *Blocking inside a tick.* `F_WAIT_FOR_LAND` loops with the lock held.

What is hard in the Task Scheduler:

* *Three writers of a task.* The main loop (blamelists, jobs) and two updaters
  (Pub/Sub, poll) write whole tasks from copies which they read earlier; only
  `DbModified` tells a stale copy, and retries are bounded.
* *A cache which lags behind.* Attempts, blamelists and verdicts are decided
  from it.
* *Work outside of transactions.* Tasks are triggered on Swarming and inserted
  afterwards; a build is leased and its job inserted afterwards; a result is
  reported and the job written afterwards.
* *Leases.* They run out while heartbeats are sent in batches, and another
  `Poll` may lease the same build.

What makes the parts correct:

* state machine: each choice has a registered transition, roll functions only
  run with a roll, the no-op loop ends, no state is kept for ever;
* roller: at most one open CL, none forgotten, none once the roller is idle
  or stopped; each goes to a revision newer than the one the roller saw, the
  parent is at last up to date and, if it is a Gitiles one, not rolled back;
* roll CL: what is derived from a CL is valid and consistent, and a closed CL
  is recorded as closed;
* counters: each increment is removed again; the safety throttle bounds
  uploads; `ThrottledUntil` is exact;
* strategies: only valid revisions are rolled and none is left out;
* manual rolls: each request completes, and a success is a success of its CL;
* scheduling: each commit is blamed on one task at most and keeps a task once
  it has one, attempts follow one another, verdicts are justified, jobs end;
* try jobs: Buildbucket is told the truth, builds and jobs end, nobody takes a
  verdict back.

## 2. Modules

`RollerStates` (no variables) holds the states, the transition functions, the
table which `New()` registers and `GetNext`, as a function of a *view*: the
answers to the questions `GetNext` asks of the roller. The increment of a
throttle inside `GetNext` is split off as `IncrementedBy`.

`CodeReview` (no variables) holds the predicates of the Gerrit configurations,
the conversions of a Gerrit change and of a GitHub pull request into an
`AutoRollIssue`, `RollResult` and `Validate`. `CONFIG_ANGLE` has the same
labels as `CONFIG_CHROMIUM`. The self-approval labels and the
`DryRunSuccess`-independent text fields are left out: no predicate reads them.

`Strategies` (no variables) holds the three strategies, the sanity checks of
`UpdateRepos` and `RolledPast`. Revisions are naturals in the order in which
they landed.

`AutoRoll` composes these three into one back end with its surroundings.

| Variables | Code |
|---|---|
| `cls`, `tip`, `pin` | the roll CLs on Gerrit, the newest child revision, the revision which the parent uses |
| `dbMode`, `dbStrategy`, `unthrottle`, `recorded` | datastore: mode, strategy and unthrottle request, the newest entry of the recent rolls |
| `gcsState`, `count` | GCS: the state machine's file, the counters |
| `inWindow` | `InRollWindow(time.Now())` |
| `pc`, `dest`, `fn`, `err`, `uploaded`, `n` | where a tick is; the destination and the function of the transition, the pending error, the CL in the upload window, no-op transitions made |
| `state`, `mode`, `strategy`, `roll`, `known` | the process: `AutoRoller`'s fields |
| `base` | the revision which a Gitiles parent's `baseCommit` pins |

A tick is one action per remote call: `TickStart` (reset of the throttles),
`ResetUnthrottle`, `ChooseTransition` (`GetNext`, with the increment),
the transition functions (`UpdateRepos`, `UpdateRoll`, `CreateNewRoll` then
`InsertIntoDB`, `Modify` then `SyncModified`, `WaitForLand`), and `Commit`.
Each has a failing counterpart. `Crash` forgets the process, `Restart` is
`NewAutoRoller`. `SetMode`, `SetStrategy` and `Unthrottle` are requests from
the web UI; `WindowChange` and `ThrottleExpires` are time; the rest is the
code review server: the commit queue finishes, fails or lands a CL, people
land, abandon and dequeue it, another roll lands. A CL lands only on the
revision it rolls from, since it edits the line which holds that revision.
`Events` and `Faults` choose, in a cfg, which of these occur.

What a roll is put on depends on the parent, which `Resyncs` chooses.

* With it the parent has a checkout (DEPS, GitHub, Git and command rollers).
  `CreateNewRoll` syncs the checkout to the tip of the branch again
  (`git_common.go:164`) and writes the chosen revision there
  (`git_checkout.go:98`), whatever the file says by then: the roll takes the
  parent from where it is *at the upload*, and may take it back if another roll
  has landed a newer revision since the last `UpdateRepos`. If the tip has the
  chosen revision already, `git commit` fails (`NothingToCommit`).
* Without it the parent is a Gitiles one (`gitiles.go`, also for copies and
  freetype). The roll is put on `baseCommit`, which `Update` saves; `base` is what
  that commit pins. `Update` saves it before its other half, or the sanity
  checks, can fail, and `known` then stays as it was. If `base` has the chosen
  revision already, the CL is empty: it can land anywhere and moves nothing.

`RollSlot` is the abstract specification of what the two repositories see of all
this: a slot which holds at most one roll, filled with one that goes to a
revision which exists and is newer than the one last seen in the parent, on the
parent as it is or as the roller has got it, and emptied when the roll lands on
what it was made for or is abandoned. `AutoRoll` implements it under the mapping
in `Slot` (`INSTANCE RollSlot WITH ...`): the slot holds the open CLs, `seen` is
the last revision the roller knows.

`TickSequence` runs `NextTransitionSequence` alone from every state and every
consistent view. `CodeReviewRoll` is one CL, on Gerrit or on GitHub, with the
object which tracks it, for all votes and configurations. `PersistentCounter`
is `go/counters` with `Throttler`, with instants and timers.

`RollSequence` holds the revisions of the roller and the steps which change
them; `ManualRolls` extends it by the requests for manual rolls (`req`), their
CLs (`cl`) and `handleManualRolls`, one action per branch of its loop (`queue`
holds the requests which this round has still to look at). A failure after the
upload of a CL leaves the request as it was. A manual roll moves the parent
that the roller rolls, also backwards.

`TaskScheduler` is the scheduler for one task spec of one repository.

| Variables | Code |
|---|---|
| `db`, `jobs` | tasks and jobs in Firestore; `ver` is `DbModified`, which grows with each write (`firestore/tasks.go:206`) |
| `swarm`, `msgs` | Swarming's tasks, Pub/Sub messages not yet acknowledged |
| `cache`, `index` | `taskCache.tasks` and `tasksByCommit` |
| `pc`, `cands`, `layer`, `chosen`, `triggered`, `tries` | where the main loop is; candidates, the `cacheWrapper`, what is triggered, attempts of `addTasks` |
| `pendingInsert`, `upd` | tasks whose messages are refused; what the two updaters are about to write |

A pass of the main loop is `StartLoop`, `UpdateUnfinishedJobs` (with
`regenerateTaskQueue` on what it leaves), `ProcessCandidate` per candidate,
`TriggerTask` (or `TriggerFails`, `NoResource`) per chosen one, then
`StartAttempt`, `ComputeBlamelist` per task and `PutTasks`, `PutConflicts` or
`PutFails`. `HandleSwarmingPubSub` and `UpdateUnfinishedTask` read a task and
`WriteTask` writes it. Modified tasks reach the cache in any subset and with
any delay, in their current version. `BlameLedger` is the abstract
specification of what readers of the database see, the owner of each commit and
the outcome of each task; `TaskScheduler` implements it under the mapping in
`Ledger` (`INSTANCE BlameLedger WITH ...`).

`TryJobs` is the `TryJobIntegrator` with Buildbucket (`build`), the jobs in
Firestore (`db`) and in the cache, one `insertNewJob` per build (`ins`) and one
round of `updateJobs` (`copies`, `beats`, `bad`, `reports`, `reported`,
`writing`), whose heartbeats run beside its reports. The scheduler and people
write the same jobs. Each call to Buildbucket can fail, and can take effect and
look as if it had failed; a write of jobs either happens or does not
(`PutFinished`, `LocalCancelJobs` and `DropJob` with a fault write nothing).
`BuildVerdicts` is the abstract specification of what the people who wait for
builds are promised: the outcome of each build, its jobs with their verdicts,
and which of the jobs have not been let go. `TryJobs` implements it under the
mapping in `Book` (`INSTANCE BuildVerdicts WITH ...`), in which Buildbucket's
leases, the cache, the copies and the two loops are not seen any more.

`MCTaskScheduler`, `MCManualRolls` and `MCAutoRoll` hold the
constants of the instances. The modules named `...Proofs` hold proofs
(section 4).

Some definitions stand beside a second one with a plausible mistake (marked
"Mutant", or named for the mistake: `CurrentIfPresent`, `HoldsSomeLease`,
`NeverAlreadyReported`). These show that the properties can fail; no
specification uses them.

## 3. Runs

The AutoRoll runs use one back end. CL names are recycled once a CL is closed
and nothing refers to it, so two names are enough for any number of rolls: one
for the roll in progress and one for its successor or an orphan. A roller which
has two open CLs, tracked or not, cannot upload a third; this bound matters
only where the property already fails.

| Run | Instance | Shows |
|---|---|---|
| `autoroll_faults` | a checkout parent; 1 new revision, failure and safety throttles of one attempt; mode changes, people landing CLs, other rolls, unthrottle requests; failing calls, lost replies, crashes | `QuietMeansNoOpenRoll`, `ClosedCopyIsClosed`, `WaitsForLandedRoll`, `UnthrottleIsServed`, `SafetyThrottleHolds` |
| `autoroll_slot` | a checkout parent; 2 new revisions, batch and single; strategy changes, other rolls, people landing and abandoning CLs, the roll window; failing calls, lost replies, crashes | the refinement `RollsOneAtATime`, with rolls that go back |
| `autoroll_window` | a Gitiles parent; 2 new revisions; other rolls, the roll window; failures and crashes in the upload window, failed writes of the state | `FunctionHasItsRoll`, `NeverRollsBack`: what survives even these. No call fails outside of the window, so `Update`s are whole |
| `autoroll_stops` | a checkout parent; 1 new revision; mode changes, people landing, abandoning and dequeuing CLs | `DryRunIsNotQueued`, `StopsWhenTold`, `SuccessIsLeft`, `CatchesUp` |
| `tick_sequence` | every state and consistent view | `TransitionIsDefined`, `NoNoopLoop`. A sequence ends, so deadlock is not checked |
| `code_review_roll` | every configuration, all sets of votes; all pull requests | `ConversionIsValid`, `ClosedIsFinished`, `ClosedIsRecorded` |
| `persistent_counter` | 6 instants, at most 2 increments at one of them, threshold 2, duration 2 | `EveryEntryHasATimer`, `ThrottledUntilIsExact`, `ThrottleIsReleased` |
| `manual_rolls` | 3 revisions, the second invalid; batches of 2; all strategies; 2 requests, one for the invalid revision, one a dry run; 1 failed call or crash | `NextRollIsRight`, `CatchesUp`, `SuccessIsTrue`, `SecondCLTakesAFault`, `EveryRequestCompletes` |
| `task_scheduler` | a chain of 3 commits; 2 jobs, regular in the middle or forced at the end; 2 attempts, 2 retries, 3 tasks, 1 fault | `BlamelistsDisjoint`, `OwnRevision`, `AttemptsInOrder`, `VerdictIsJustified`, `IndexAgrees`, the refinement `KeepsTheLedger` |
| `task_progress` | the same commits and jobs; 1 attempt, blamelists of 1, tasks which fail (or succeed at once, by deduplication), 4 tasks, 1 fault | `EveryJobSettles` |
| `try_jobs` | 1 build, 3 jobs, 2 faults | `ReportIsTrue`, `ReleasedIsOver`, the refinement `KeepsItsPromises`, `EveryBuildEnds`, `EveryJobIsReleased`. Once all builds and jobs have ended nothing is left to do, so deadlock is not checked |
| `autoroll_stuck` | the smallest that shows it | the finding of section 6 |

Bounds. One new revision gives a roll which is needed, one which is not and one
which is superseded by a mode change; two are needed for a roll to become stale
(`NeverRollsBack`) or to go back (`autoroll_slot`). `CatchesUp` is therefore not
checked with a revision which supersedes a roll under way. The throttle counters
are capped at their thresholds, above which the roller cannot tell them apart.
`MAX_NOOP_TRANSITIONS` is the code's own bound. Symmetry of the CL names is used
in the safety runs only.

Three commits in a chain, with jobs at the end and in the middle, are the
smallest history in which a task is stolen from, keeps part of its blamelist and
can be stolen from again, and in which a blamelist can be cut off. Two jobs
make two tasks which are scored and inserted together or compete; the third
task is a retry or the replacement of a lost one. When all are used up
(`Unused = {}`) no more are chosen, which `EveryJobSettles` excuses; its run
therefore has a task more than two jobs and one fault need. One build
needs a new job only after a fault, so `MaxJobs` is the number of builds and
faults together. Three CLs are one per manual request and one for the fault.

Fairness. `Tick` is called by `util.RepeatCtx` every minute, so its own steps
are weakly fair (`TickStep`), as is `Restart`, which Kubernetes does. The timers
of the counters fire. The commit queue finishes what it is asked to do, one way
or the other, and GitHub's clock goes on. `Start` of the Task Scheduler, of the
try jobs and of manual rolls repeats its loops; Firestore delivers each change
sooner or later (strong fairness of the steps which take all of the changes,
since a round may begin with some of them missing); Swarming ends each task, a
candidate which is worth running finds a bot at last, and a lease which nobody
renews runs out. `handleManualRolls` and `Tick` share a lock which neither keeps
from the other for good. `TryJobs` assumes that the scheduler ends each job,
which `EveryJobSettles` shows; nothing is assumed of Pub/Sub. Only `CatchesUp`
assumes more, as a part of the property: a commit queue to which a roll is
submitted again and again lands it some time (`CqSometimesLands`); without that
no roller can make progress. People, users and faults are never assumed to act.

## 4. Proofs

TLAPS checks every proof to the last leaf. The theorems hold for all values of
the constants which satisfy the named assumptions of the modules (the bounds
are naturals, the values for "no CL" and "no request" are neither, thresholds
are naturals, the strategies are valid ones, the history of commits has no
cycle); nothing else is assumed, except where a theorem says so.

| Module | Theorem | States |
|---|---|---|
| `RollerStatesProofs` | lemmas | what `GetNext` and the table agree on, for all states and views |
| `TickSequenceProofs` | `NextIsAlwaysDefined`, `RollIsAlwaysThere`, `NoopChainsEnd` | `[]TransitionIsDefined`, `[]RollIsThere`, `[]NoNoopLoop` |
| `AutoRollProofs` | `TypeCorrect`, `FunctionsHaveTheirRoll` | `[]TypeOK`, `[]FunctionHasItsRoll`, under all faults |
| | `UnthrottleIsNotLost`, `UploadsAreThrottled` | the action properties `UnthrottleIsServed`, `SafetyThrottleHolds`, under all faults |
| | `OnlyOneRollIsOpen`, `QuietRollerHasNoOpenRoll`, `CopiesCloseLast`, `WaitsAreForLandedRolls` | `[]OneOpenRoll`, `[]QuietMeansNoOpenRoll`, `[]ClosedCopyIsClosed`, `[]WaitsForLandedRoll`, if `"window" \notin Faults`; the last one also needs `Resyncs \/ UpdatesAreWhole` |
| | `ImplementsTheSlot` | the refinement `RollsOneAtATime`, if `"window" \notin Faults`, for both kinds of parents |
| | `ParentNeverGoesBack` | the action property `NeverRollsBack`, if `~Resyncs` and `UpdatesAreWhole`: `"remote" \notin Faults`, and with n_batch no revision is invalid |
| | `DryRunsAreNotQueued` | `[]DryRunIsNotQueued`, if `Faults \subseteq {"persist"}` |
| `CodeReviewProofs` | `ConversionsAreValid`, `ClosedOnesAreFinished`, `RecordsAreTrue` | `[]ConversionIsValid`, `[]ClosedIsFinished`, `[]RecordIsTrue` (stated in the proof module), for every CL, set of votes and configuration |
| `ManualRollsProofs` | `NextRollsAreRight` | `[]NextRollIsRight`, if n_batch is not configured or no `N_REVISIONS` revisions in a row are all invalid |
| | `SuccessesAreTrue`, `SecondCLsTakeFaults` | `[]SuccessIsTrue`, `[]SecondCLTakesAFault`, for any number of requests, CLs and faults |
| | `DecisionsAreKept` | the action property `DecisionsStand` (stated in the proof module), under the same faults |
| `PersistentCounterProofs` | `TypeCorrect`, `TimersCoverEntries`, `ThrottledUntilIsRight` | `[]TypeOK`, `[]EveryEntryHasATimer`, `[]ThrottledUntilIsExact` |
| `TryJobsProofs` | `TypeCorrect`, `ReportsAreTrue`, `ReleasedJobsAreOver`, `VerdictsAreFinal` | `[]TypeOK`, `[]ReportIsTrue`, `[]ReleasedIsOver`, the action property `VerdictIsFinal`, for any number of builds, jobs and faults |
| | `KeepsPromises` | the refinement `KeepsItsPromises` |
| `TaskSchedulerProofs` | `TypeCorrect`, `BlamelistsAreDisjoint`, `EveryTaskHasItsRevision`, `AttemptsAreInOrder`, `VerdictsAreJustified`, `IndexIsRight` | `[]` of `TypeOK`, `BlamelistsDisjoint`, `OwnRevision`, `AttemptsInOrder`, `VerdictIsJustified`, `IndexAgrees`, for every history, merges included, and any number of jobs and faults |
| | `ImplementsTheLedger` | the refinement `KeepsTheLedger` |

`RollerStatesProofs` is the case analysis of the 17 states: whatever `GetNext`
answers in a valid mode is registered (`NextIsRegistered`), a function which
needs a roll is not chosen without one (`NextHasItsRoll`), a roll which is seen
neither closed nor landed is kept or closed by the transition
(`OpenRollIsKept`), an upload starts outside of the *live* states, leads into
one, and is chosen only while the safety throttle allows it
(`UploadsFromQuiet`, `UploadsUnthrottled`). The live states are those in which
a CL may be open between two transitions. The other proofs use these lemmas
and never look into `GetNext` again.

`NoNoopLoop` bounds a chain of no-op transitions, which is a fact about the whole
graph of them: some lead round in circles if the view changes in between, and
throttles do activate in the middle of a chain. `RollerStatesProofs` ranks the
states by how far they are from the end of a chain for one view (`IsLast`,
`OneFromLast`, `ThreeFromLast`) and shows that every no-op goes down (`NoopsEnd`);
`ReachedKeepsLast` shows that a throttle which activates only shortens what is
left. `HopsInv` then says that those made and those left are never more than
four. The first transition, which starts the count, may come from any state.

`TypeOK` of `AutoRoll` is not inductive, since `Update` and the modifications
read the roll; `TypeInv` adds that a function which needs a roll has one, in
the middle of it too.

`OneOpenRoll`, which is a part of what `RollsOneAtATime` says and so has no run of
its own, and `QuietMeansNoOpenRoll` say nothing of how the roller knows
the open CL, so they are far from inductive. `OpenRollInv` adds:

* `CopiesInv`: the copy in memory and the record do not say closed, and the
  copy does not say landed, of an open CL. Hence `GetNext` does not let go of
  it, and a restart retrieves it;
* `RecordedInv`: the roll in memory is the newest recorded one;
* `UploadInv`: an upload starts in a state which is not live and ends in one;
* `IsTracked`: an open CL is the one being uploaded, or the recorded one which
  the process has in memory, in a live state; while the process is down, the
  state in GCS is live;
* `IsHandled`: the transition under way leads to a live state, or is about to
  close the CL; if the modification fails while the CL is open, the
  transition is given up.

An upload then starts with no CL open, and opens one. A crash outside of the
upload window finds `state = gcsState`, and so leaves the open CL tracked. A
failure in the window breaks `IsTracked`, as section 5 says.

The other properties of the open roll need further invariants beside `TypeInv`
and `OpenRollInv`:

* `LandInv`, under all faults: the next revision is not older than the last one
  (`KnownInv`), an upload which `GetNext` has chosen still has something to roll
  when it is made (`SomethingToRoll`), and the copy in memory counts as a success
  only a roll which has landed (`SuccessInv`);
* `WaitInv`: in `S_NORMAL_SUCCESS`, and on the way into it, the roll in memory
  and the one a restart would retrieve have landed. The state is entered only on
  the word of a copy which says so (`SuccessIsSeen`), and a copy says so only of
  a CL which has (`RetrieveLanded`);
* `LandedInv`: what has landed is still in the parent, though the next roll may
  take the parent back. For as long as nothing is uploaded no other roll is
  open, so only other rolls, which go forward, move the parent; and the name of
  the CL is forgotten when the next one is recorded (`UploadsEnd`);
* `ChangesSomething`: an open roll is not an empty one. An empty one would land
  without having anything in the parent, and `F_WAIT_FOR_LAND` could wait for it
  for good; so this is what `WaitsAreForLandedRolls` needs its hypothesis for.
  With `Resyncs` it is the guard of `CreateNewRoll`; without, it follows from
  `BaseInv`;
* `BaseInv` and `RollsForward`: a Gitiles parent's `base` is the last revision
  known, so a roll goes forward from there. A step of a CL (`CLStep`) keeps its
  revisions, so `ParentNeverGoesBack` follows. `BaseInv` is what `UpdatesAreWhole`
  buys: the parent's half of `Update` never takes effect alone. A call which
  fails or, with n_batch, a batch without a valid revision would break it
  (`RevsAreSane`);
* `LabelInv`: in a dry-run state no open CL has a vote for submission, except
  from the vote of `F_SWITCH_TO_NORMAL` until the state follows. From outside of
  these states only an upload and `F_SWITCH_TO_DRY_RUN` lead into them
  (`DryRunInTable`), and these vote for a dry run; all that others do takes
  votes away (`Unqueues`). A failed call or a crash between the vote and the
  state breaks it, as section 5 says.

For the refinement of `RollSlot`, `CreateNewRoll` is an `Open`, and every other
step leaves the open roll as it is or takes it out (`SlotKept`), while the sync of
the repositories is a `Look`. That the slot is free when it is filled is
`OpenRollInv`; that the roll goes to a newer revision than the one last seen is
`LandInv`, and that this revision exists is `RevsExist`, by which nobody is
ahead of the child. What the roll is put on is `RollBase`, the parent as it is or
`base`, which is why `RollSlot` does not promise that a roll goes forward.

`CodeReviewProofs` first has the conversions by themselves, without a state
machine. `GerritIsValid` holds for every change and every configuration of which
`TellsDryRuns` is true: if it has a commit queue, then either there is a vote
which says that a dry run is running, or a dry run is not judged by the results
of its try jobs alone. Without that a dry run which is running would count as a
success, and `Validate` would refuse it; the four configurations of the repository
are of this kind (`ConfigsTellDryRuns`). `GitHubIsValid` says exactly which pull
requests fail. For the roll which is tracked, `RecordIsTrue`
and `ClosedIsFinished` are inductive together with the types (`NextRecord`):
whatever is recorded has come out of a conversion that was valid, of the CL as it
was then (`ConvertTells`), and neither a closed CL nor the result which `Close`
has set changes any more (`StatusStays`, `OthersKeepTheRecord`). `RecordIsTrue` is
what a restart relies on: it retrieves the rolls which are not recorded as closed.

`ThrottleInv` carries a fact from one step of the tick to a later one: the
counters are still at zero when the request is cleared, and the safety throttle
checked in `GetNext` still allows an attempt when the upload starts. Only
timers change counters in between, and these count down.

`EveryEntryHasATimer` is inductive together with the types, because each
operation changes the list and the timers at the same instant and a restart
copies the file to both.

`ThrottledUntilIsExact` needs the types only, but is about a sum over the whole
list, `Total`. `TotalIsLastSum` shows that its recursive function exists and what
it computes, `UpToIsSum` does so for the list cut off at an instant, and
`SortedIsThere` that the entry which `ThrottledUntil` picks is there. In place of
induction each argument takes the least number for which it fails
(`LeastExists`, from the well-foundedness of the naturals).

`ReportIsTrue` speaks of the database, and the reports are made from copies. The
invariant `Inv` of `TryJobsProofs` adds what makes a copy trustworthy:

* `Copies`: the cached job, and the copy a round works on, are former versions
  of the job in the database (`CopyOf`): the same build, a version which is not
  newer, and if the version is the same, equal. A copy which is done tells the
  final verdict;
* `RoundOK`: whoever is to be reported is done, and whoever has been reported
  belongs to a build which is completed;
* `InsertOK`: `insertNewJob` has a lease key, and the job it has inserted is as
  it wrote it until somebody else writes it.

`PutJobs` writes only if every copy is current, so each write takes a job from
one of its versions to a successor (`Evolves`): the verdict is set once and the
key is given up once. `VerdictIsFinal`, which is a part of what `KeepsItsPromises`
says and so has no run of its own, is that fact; that copies stay former versions
follows from it, and so do the other two.

For the refinement of `BuildVerdicts` every change of the jobs is brought into one
of four forms (`JobForms`: a job is made, ends, is given up with others, or is let
go with others), and every change of the builds into one of three (`BuildForms`).
Three more invariants carry it. `ReadyInv`: a copy of a finished job which has its
key is what the database has, since only `PutFinished` writes such a job, and only
those it has just reported. `KeyInv`: the keys of a build's leases go up, each is
given to one job at most, and the job which is about to be written has the newest
one; hence whoever holds the lease when it reports is the newest job of the build,
although leases run out while a job waits to be reported. `ResultInv`: a completed
build has a result.

`Inv` of `TaskSchedulerProofs` has ten parts (`TypeOK`, `DbOK`, `IdsInOrder`,
`CacheOK`, `LayerOK`, `AttemptsOK`, `QueueOK`, `PcOK`, `UpdOK`, `JobsOK`). The
properties are facts about the database (`DbOK`), but what is written there has
been computed from a cache which is behind, so most of `Inv` says why that does
no harm:

* Only the insertion of new tasks changes blamelists. However late results reach
  the cache, it has the tasks of the database with the same blamelists
  (`CacheOK`, `CopyOf`), and `index` has the owner of each commit;
* the layer over the cache, in which one round of blamelists is computed, holds
  new tasks and tasks which these rob (`LayerOK`). To look a commit up through it
  gives the one task whose blamelist, seen through it, holds the commit
  (`Agree`). A blamelist takes commits from one task only, and stays within the
  history of its revision (`Rooted`); here the proof needs that the history has
  no cycle;
* the insertion writes the layer (`Entered`); that the versions are current
  (`Current`) shows that nobody has written the robbed tasks in between. Every
  other write changes at most a status which is pending (`Quiet`), and so does
  what the two updaters have in hand (`UpdOK`);
* a candidate is still due when it is inserted (`QueueOK`, `Due`), since only the
  main loop inserts tasks; hence attempts are in order;
* a job has a verdict only if its tasks justify it, and what justifies a verdict
  is never undone (`JobsOK`).

For the refinement, `PutTasks` is an `Enter` of the ledger, a `WriteTask` is a
`Conclude` or a stuttering step, and every other step stutters.

`ManualRollsProofs` first shows that a finite set of revisions which is not empty
has a newest and an oldest member (`NewestExists`, `OldestExists`); the library's
theorem that strict inclusion of finite sets is well-founded stands in for
induction. `NextRollIsRight` then follows from the types, and from the
hypothesis on n_batch, without which it is false (section 5). The invariant
`Inv` of the requests has, beside the types, `LinkInv` (a started or successful
request names a CL which was made for it, and a success is that CL's) and
`CountInv` (a request has at most one CL more than there were faults, and at
most as many as there were faults while it does not know of one). Every step of
`handleManualRolls` is brought into one of six forms first (`RequestStep`).
`DecisionsStand` says that a completed request is never written again and that a
started one keeps its CL. The list of requests is as old as the round, so it
needs `QueueInv`: what the round has still to look at is incomplete in the
database too, since nobody else writes requests which exist and each is looked
at once (`LookedAtOnce`).

Every invariant and every action property which a passing run checks is stated
by a theorem, and so is every refinement. Only model-checked is liveness, which
is out of the prover's reach: `StopsWhenTold`, `SuccessIsLeft`, `CatchesUp`,
`ClosedIsRecorded`, `ThrottleIsReleased`, `EveryRequestCompletes`,
`EveryJobSettles`, `EveryBuildEnds` and `EveryJobIsReleased`. That `GetNext`,
`Validate` and the conversions are what the code has cannot be proved at all; the
map and a reading of both is all there is for that.

## 5. What is not claimed

* The *upload window* lies between the creation of a CL and the write of the
  new state to GCS. The code has no guard there: if `retrieveRoll` or
  `InsertIntoDB` fails, or the process dies, the CL stays open and untracked;
  the roller may upload another one, and may stop without closing the first,
  although `autoroll/README.md:63` says that "Any in-progress roll CL will be
  closed when the roller is stopped".
  `QuietMeansNoOpenRoll` and `RollsOneAtATime` are checked without faults in the
  window. The same holds while GCS is behind
  because a write of the state has failed: a crash then resumes in an older
  state, which may wait for a roll that has not landed.
* A dry run which a person lands is recorded as a success, but from
  `S_DRY_RUN_ACTIVE` `GetNext` goes to `S_NORMAL_FAILURE`, since `IsSuccess` is
  false for every dry run (`state_machine.go:671`, `roll.go:75`).
* If the reply to the vote of `F_SWITCH_TO_NORMAL` is lost, the CL is in the
  commit queue while the roller still takes it for a dry run; should the mode
  go back to dry run, nothing takes the CL out of the queue. The same is true
  when the call after the vote fails, or the process dies there.
  `DryRunIsNotQueued` is checked, and proved, without such faults.
* A pull request of a dry run which is closed in its first 15 minutes fails
  `Validate` until that time has passed (`roll.go:344`,
  `go/autoroll/autoroll.go:101`).
* *A roll can take the parent back.* A checkout parent is synced again when the
  roll is made (`git_common.go:164`), and nobody compares the revision in the file
  with the one to roll to (`git_checkout.go:98`); if another roll has landed a
  newer revision since the roller looked, the CL applies and goes back. With
  `Resyncs` TLC finds such a behaviour of ten states. A Gitiles parent does it if a
  call of `Update` fails after `baseCommit` is saved, or if n_batch finds no valid
  revision in its batch: the next roll is then put on the new commit and goes to
  the old revision. If that commit has the revision already, the CL is empty, and
  once it lands `F_WAIT_FOR_LAND` may wait for a revision which is not in the parent.
  `NeverRollsBack` is claimed of Gitiles parents whose `Update`s are whole, no more;
  the roller brings the parent forward again with its next roll.
* The Android parent (`android_repo_manager.go`), whose rolls are merges, is not
  modelled.
* `S_NORMAL_WAIT_FOR_WINDOW` and the two safety-throttled states do not look at
  the mode, so `StopsWhenTold` is checked with the window open.
* `CatchesUp` excepts a roller which is stuck as section 6 says (`IsStuck`), and is
  checked without other rolls: the retry of a CL which has a
  merge conflict fails each time, as a TODO in the state machine says.
* `S_DRY_RUN_SUCCESS_LEAVING_OPEN` means to notice that its CL "may have been
  manually submitted or abandoned" (`state_machine.go:711`), but its transition
  to itself (`state_machine.go:473`) updates the repos and not the roll: it is
  noticed after a restart or a change which makes the roller update the roll.
* n_batch looks at the oldest `N_REVISIONS` revisions only and returns nil when
  all of them are invalid, although later ones are valid (`strategies.go:68`).
  `NextRollIsRight` and `CatchesUp` are checked with runs of invalid revisions
  which are shorter than a batch.
* A manual roll whose CL is uploaded and not recorded gets a second CL; the
  first one is not closed. When the revision of a started request cannot be
  looked up, the request is completed as a failure while its CL runs on.
  `NoResolveRevision` is left out, and requests are handled in any order.
* Task Scheduler: one task spec, so no dependencies between tasks; no tasks of
  try jobs (they have no blamelists), no time window or expiry of the caches, no
  bots beyond free or not, and of a score only whether it is positive. The limit
  of blamelists is exact for histories without merges.
* The chunks of `putTasksInChunks` and `putJobsInChunks` are taken as one
  transaction: that some are written and others fail is not modelled.
* A transaction which reports an error is taken to have written nothing. Could
  the reply of a commit be lost, then the next pass, with a cache which has not
  heard of the new tasks, would blame their commits again.
* A task which could not be triggered for want of resources stays in
  `pendingInsert` (`task_scheduler.go:1186`), and tasks which are triggered and
  not inserted, because of a crash or of conflicts, run to no purpose. The model
  has both, and `EveryJobSettles` holds all the same.
* A regular job at a commit which a forced job has tested with success gets a
  score of zero ("This normally shouldn't happen", `task_scheduler.go:1007`) and
  waits; `EveryJobSettles` excepts these jobs (`Superseded`), which the jobs of
  its run, at different commits, never are.
* Try jobs: forced jobs and the details of invalid builds are left out; a mishap
  counts as a failure, as `jobFinished` reports it. A finished job whose lease
  has run out is reported again in each round until another job has completed
  the build. The expiry of a lease which is being renewed counts as a fault.

## 6. Findings

* `autoroll_stuck`: when a dry run's CL is closed while it is switched to a
  normal roll, `withModify` "moves on" but leaves `IsDryRun` set; in
  `S_NORMAL_ACTIVE` the roll is then never finished, and the roller updates it
  until its mode changes or it restarts.

## 7. Plan

1. Dependencies between tasks (`allDepsMet`) and several task specs; the roll
   window as a pure algorithm against a reference definition; the machine
   state server.
