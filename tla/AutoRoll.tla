------------------------------ MODULE AutoRoll ------------------------------
(***************************************************************************)
(* One AutoRoll back end: the Tick loop of autoroll/go/roller and the      *)
(* state machine it drives, with the code review server, the repositories, *)
(* the datastore and the GCS file which holds the persisted state.         *)
(*                                                                         *)
(* The process works on copies: the mode it last read, the issue it last   *)
(* retrieved, the revisions it last synced.  A tick is one step per remote *)
(* call, so people, the commit queue and a crash can come between two      *)
(* calls.  A tick holds runningMtx, so ticks never overlap.                *)
(***************************************************************************)
EXTENDS RollerStates, CodeReview, Strategies

CONSTANTS
  CLs,          \* names of roll CLs; the name of a closed CL is used again
  NoCL,         \* no CL
  MaxRev,       \* bound on the revisions which land in the child
  Threshold,    \* attempts of each throttle; 0 when it is not configured
  Strategy,     \* the strategies which the roller's config allows
  Resyncs,      \* whether the parent syncs again when it creates a roll
  Events,       \* the kinds of outside events which occur
  Faults        \* the kinds of faults which occur

EventKinds == {"mode", "strategy", "unthrottle", "window", "land", "abandon",
               "dequeue", "otherRoll"}

(***************************************************************************)
(* "remote"    a call fails and has had no effect                          *)
(* "lostReply" a call takes effect, but the caller sees an error           *)
(* "persist"   the state is not written to GCS after a transition          *)
(* "crash"     the process dies, but not in the upload window (below)      *)
(* "window"    the process dies, or a call fails, in the upload window     *)
(***************************************************************************)
FaultKinds == {"remote", "lostReply", "persist", "crash", "window"}

ASSUME NoCLAssumption == NoCL \notin CLs
ASSUME MaxRevAssumption == MaxRev \in Nat
ASSUME ThresholdAssumption == Threshold \in [Throttles -> Nat]
ASSUME StrategyAssumption == Strategy \subseteq ValidStrategies
ASSUME ResyncsAssumption == Resyncs \in BOOLEAN
ASSUME EventsAssumption == Events \subseteq EventKinds
ASSUME FaultsAssumption == Faults \subseteq FaultKinds

VARIABLES
  \* The code review server and the repositories.
  cls,          \* the roll CLs
  tip,          \* newest revision of the child
  pin,          \* the revision of the child which the parent uses
  \* The datastore and GCS.
  dbMode, dbStrategy, unthrottle, recorded, gcsState,
  count,        \* the throttle counters, up to their thresholds
  \* The clock.
  inWindow,
  \* The process.
  pc, state, mode, strategy, roll, known, dest, fn, err, uploaded, n,
  base          \* baseCommit of the parent: the revision which that pins

server == <<cls, tip, pin>>
stored == <<dbMode, dbStrategy, unthrottle, recorded, gcsState, count>>
view == <<mode, strategy, roll, known, base>>
call == <<dest, fn, err, uploaded, n>>
process == <<pc, state, view, call>>
vars == <<server, stored, inWindow, process>>

(***************************************************************************)
(* CLs.  The label is the roller's Commit-Queue vote.  A closed CL keeps   *)
(* neither its vote nor its try results, which nothing reads any more.     *)
(***************************************************************************)
Revs == 0 .. MaxRev
CLRecords == [status : Statuses, label : 0 .. 2,
              tries : {"none", "passed", "failed"}, from : Revs, to : Revs]
UnusedCL == [status |-> "abandoned", label |-> 0, tries |-> "none",
             from |-> 0, to |-> 0]

IsOpen(i) == cls[i].status = "open"
OpenCLs == {i \in CLs : IsOpen(i)}

ChangeInfo(c) == [status |-> c.status, tries |-> c.tries,
                  labels |-> {<<"Commit-Queue", c.label>>}]

ClosedAs(c, status) ==
  [c EXCEPT !.status = status, !.label = 0, !.tries = "none"]

(***************************************************************************)
(* The roll the process tracks, and what NewAutoRoller reads of its record *)
(* in the datastore.  The result which Close forces upon the record is not *)
(* kept here: nothing in a tick depends on it (see CodeReviewRoll).        *)
(***************************************************************************)
NoRoll == [id |-> NoCL]
NoRecord == [id |-> NoCL]
Rolls == [id : CLs, issue : Issues]
Records == [id : CLs, IsDryRun : BOOLEAN, Closed : BOOLEAN]

HasRoll == roll # NoRoll

\* retrieveRoll: convert what the server now says of the CL.
Retrieve(isDryRun, c) ==
  updateIssueFromGerritChangeInfo(isDryRun, CONFIG_CHROMIUM, ChangeInfo(c))

\* gerritRoll.Update, up to the write to the recent rolls.
Updated(r, c) == [r EXCEPT !.issue = Retrieve(r.issue.IsDryRun, c)]

RecordOf(r) == [id |-> r.id, IsDryRun |-> r.issue.IsDryRun,
                Closed |-> r.issue.Closed]

(***************************************************************************)
(* Throttles.  A counter matters up to its threshold only.                 *)
(***************************************************************************)
IsThrottled(c, t) == Threshold[t] > 0 /\ c[t] >= Threshold[t]

Inc(c, ts) == [t \in Throttles |-> IF t \in ts /\ c[t] < Threshold[t]
                                   THEN c[t] + 1 ELSE c[t]]

NoCounts == [t \in Throttles |-> 0]

\* What GetNext sees, for the counters c.
ViewOf(c) ==
  [mode |-> mode, hasRoll |-> HasRoll,
   closed |-> HasRoll /\ roll.issue.Closed,
   finished |-> HasRoll /\ roll.issue.CqFinished,
   success |-> HasRoll /\ roll.issue.CqSuccess,
   dryFinished |-> HasRoll /\ roll.issue.DryRunFinished,
   drySuccess |-> HasRoll /\ roll.issue.DryRunSuccess,
   wanted |-> HasRoll /\ known.next = cls[roll.id].to,
   upToDate |-> known.last = known.next,
   inWindow |-> inWindow,
   throttled |-> [t \in Throttles |-> IsThrottled(c, t)]]

SyncedRevs(s) ==
  [last |-> pin, tip |-> tip, next |-> GetNextRollRev(s, pin, tip)]
(***************************************************************************)
(* Steps of a tick.  pc is the place in the code:                          *)
(*   "down"    the process does not run                                    *)
(*   "sleep"   between two ticks                                           *)
(*   "flag"    the throttles are reset, the request is not yet cleared     *)
(*   "next"    about to call GetNext                                       *)
(*   "run"     about to run the transition function fn                     *)
(*   "upload"  the new CL exists, the roller has not yet recorded it       *)
(*   "sync"    the CL was modified (err: with an error), Update is next    *)
(*   "repos"   UpdateRepos is next (err: then the function fails)          *)
(*   "commit"  the function has succeeded, the state is not yet changed    *)
(***************************************************************************)
PCs == {"down", "sleep", "flag", "next", "run", "upload", "sync", "repos",
        "commit"}

NoCall == /\ dest' = S_NORMAL_IDLE
          /\ fn' = F_NOOP
          /\ err' = FALSE
          /\ uploaded' = NoCL
          /\ n' = 0

\* Return from Tick, with or without an error.
EndTick == pc' = "sleep" /\ NoCall

\* modeHistory.Update and strategyHistory.Update, then the state machine.
Refresh == /\ mode' = dbMode
           /\ strategy' = dbStrategy
           /\ pc' = "next"

\* Mutant: the request is cleared before the throttles are reset.
TickStartClearsFirst ==
  /\ pc = "sleep"
  /\ unthrottle' = FALSE
  /\ IF unthrottle
     THEN pc' = "flag" /\ UNCHANGED <<mode, strategy>>
     ELSE Refresh
  /\ UNCHANGED <<server, dbMode, dbStrategy, recorded, gcsState, count,
                 inWindow, state, roll, known, base, call>>

TickStart ==
  /\ pc = "sleep"
  /\ IF unthrottle
     THEN /\ count' = NoCounts
          /\ pc' = "flag"
          /\ UNCHANGED <<mode, strategy>>
     ELSE Refresh /\ UNCHANGED count
  /\ UNCHANGED <<server, dbMode, dbStrategy, unthrottle, recorded, gcsState,
                 inWindow, state, roll, known, base, call>>

ResetUnthrottle ==
  /\ pc = "flag"
  /\ unthrottle' = FALSE
  /\ Refresh
  /\ UNCHANGED <<server, dbMode, dbStrategy, recorded, gcsState, count,
                 inWindow, state, roll, known, base, call>>

\* The throttles are reset one after the other; a counter or the request
\* cannot be written.  The request stays.
UnthrottleFails ==
  /\ "remote" \in Faults
  /\ unthrottle
  /\ pc = "sleep"
  /\ \E ts \in {{"failure"}, {"failure", "safety"}, Throttles} :
       count' = [t \in Throttles |-> IF t \in ts THEN 0 ELSE count[t]]
  /\ UNCHANGED <<server, dbMode, dbStrategy, unthrottle, recorded, gcsState,
                 inWindow, process>>

ResetUnthrottleFails ==
  /\ "remote" \in Faults
  /\ pc = "flag"
  /\ pc' = "sleep"
  /\ UNCHANGED <<server, stored, inWindow, state, view, call>>

\* The mode is read, the strategy is not.
RefreshFails ==
  /\ "remote" \in Faults
  /\ pc = "flag" \/ (pc = "sleep" /\ ~unthrottle)
  /\ unthrottle' = FALSE
  /\ mode' = dbMode
  /\ pc' = "sleep"
  /\ UNCHANGED <<server, dbMode, dbStrategy, recorded, gcsState, count,
                 inWindow, state, strategy, roll, known, base, call>>

(***************************************************************************)
(* GetNext and the choice NextTransitionSequence makes of its answer: the  *)
(* first transition is made whatever it is, the later ones only if they    *)
(* are no-ops.  The throttle is incremented either way.                    *)
(***************************************************************************)
ChooseTransition ==
  /\ pc = "next"
  /\ count' = Inc(count, IncrementedBy(state, ViewOf(count)))
  /\ LET d == GetNext(state, ViewOf(count'))
         f == GetTransitionName(state, d)
     IN  IF n = 0 \/ f = F_NOOP
         THEN /\ pc' = "run"
              /\ dest' = d
              /\ fn' = f
              /\ UNCHANGED <<err, uploaded, n>>
         ELSE EndTick
  /\ UNCHANGED <<server, dbMode, dbStrategy, unthrottle, recorded, gcsState,
                 inWindow, state, view>>

\* The counter is incremented, but cannot be written.
GetNextFails ==
  /\ "remote" \in Faults
  /\ pc = "next"
  /\ IncrementedBy(state, ViewOf(count)) # {}
  /\ count' = Inc(count, IncrementedBy(state, ViewOf(count)))
  /\ EndTick
  /\ UNCHANGED <<server, dbMode, dbStrategy, unthrottle, recorded, gcsState,
                 inWindow, state, view>>

(***************************************************************************)
(* The end of a transition: StateMachine.Transition sets the current state *)
(* and then writes it to GCS.                                              *)
(***************************************************************************)
Committable == pc = "commit" \/ (pc = "run" /\ fn \in QuietFuncs)

Commit ==
  /\ Committable
  /\ state' = dest
  /\ gcsState' = dest
  /\ IF n = MAX_NOOP_TRANSITIONS
     THEN EndTick
     ELSE /\ pc' = "next"
          /\ n' = n + 1
          /\ uploaded' = NoCL
          /\ UNCHANGED <<dest, fn, err>>
  /\ UNCHANGED <<server, dbMode, dbStrategy, unthrottle, recorded, count,
                 inWindow, view>>

CommitNotPersisted ==
  /\ "persist" \in Faults
  /\ Committable
  /\ state' = dest
  /\ EndTick
  /\ UNCHANGED <<server, stored, inWindow, view>>

(***************************************************************************)
(* UpdateRepos, alone, after roll.Update, or after a failed upload.  The   *)
(* parent saves its commit before the checks of UpdateRepos are made.      *)
(***************************************************************************)
UpdateRepos ==
  /\ pc = "repos" \/ (pc = "run" /\ fn = F_UPDATE_REPOS)
  /\ LET revs == SyncedRevs(strategy)
     IN  IF SaneRevs(revs.next, revs.last, revs.tip)
         THEN /\ known' = revs
              /\ IF err THEN EndTick
                 ELSE pc' = "commit" /\ UNCHANGED call
         ELSE EndTick /\ UNCHANGED known
  /\ base' = pin
  /\ UNCHANGED <<server, stored, inWindow, state, mode, strategy, roll>>

UpdateRoll ==
  /\ pc = "run"
  /\ fn = F_UPDATE_ROLL
  /\ roll' = Updated(roll, cls[roll.id])
  /\ recorded' = RecordOf(roll')
  /\ pc' = "repos"
  /\ UNCHANGED <<server, dbMode, dbStrategy, unthrottle, gcsState, count,
                 inWindow, state, mode, strategy, known, base, call>>

(***************************************************************************)
(* F_WAIT_FOR_LAND loops inside the tick until the parent has the roll.    *)
(***************************************************************************)
WaitForLand ==
  /\ pc = "run"
  /\ fn = F_WAIT_FOR_LAND
  /\ LET revs == SyncedRevs(strategy)
     IN  IF SaneRevs(revs.next, revs.last, revs.tip)
         THEN /\ known' = revs
              /\ pc' = IF RolledPast(cls[roll.id].to, revs) THEN "commit"
                       ELSE "run"
              /\ UNCHANGED call
         ELSE EndTick /\ UNCHANGED known
  /\ base' = pin
  /\ UNCHANGED <<server, stored, inWindow, state, mode, strategy, roll>>

(***************************************************************************)
(* Upload: count the attempt, create the CL, retrieve it and record it.    *)
(* From the creation of the CL until the new state is in GCS, the process  *)
(* is in the upload window.                                                *)
(*                                                                         *)
(* The CL takes the parent to known.next.  A parent with a checkout syncs  *)
(* again and commits on the tip of the branch, or fails, as there is       *)
(* nothing to commit if that tip is at known.next.  A Gitiles parent puts  *)
(* the CL on its baseCommit; if that is at known.next, the CL changes      *)
(* nothing.                                                                *)
(***************************************************************************)
FreeCLs == CLs \ (OpenCLs \cup {roll.id, recorded.id})

RollBase == IF Resyncs THEN pin ELSE base

NewCL(from) ==
  [status |-> "open", label |-> IF fn = F_UPLOAD_DRY_RUN THEN 1 ELSE 2,
   tries |-> "none", from |-> from, to |-> known.next]

\* Mutant: every parent puts the CL on the tip of its branch.
CreateNewRollFromPin ==
  /\ pc = "run"
  /\ fn \in UploadFuncs
  /\ count' = Inc(count, {"safety"})
  /\ \E i \in FreeCLs :
       /\ cls' = [cls EXCEPT ![i] = NewCL(pin)]
       /\ uploaded' = i
  /\ pc' = "upload"
  /\ UNCHANGED <<tip, pin, dbMode, dbStrategy, unthrottle, recorded, gcsState,
                 inWindow, state, view, dest, fn, err, n>>

CreateNewRoll ==
  /\ pc = "run"
  /\ fn \in UploadFuncs
  /\ Resyncs => pin # known.next
  /\ count' = Inc(count, {"safety"})
  /\ \E i \in FreeCLs :
       /\ cls' = [cls EXCEPT ![i] = NewCL(RollBase)]
       /\ uploaded' = i
  /\ pc' = "upload"
  /\ UNCHANGED <<tip, pin, dbMode, dbStrategy, unthrottle, recorded, gcsState,
                 inWindow, state, view, dest, fn, err, n>>

\* The checkout has known.next already: the commit, and with it the upload,
\* fails.
NothingToCommit ==
  /\ pc = "run"
  /\ fn \in UploadFuncs
  /\ Resyncs
  /\ pin = known.next
  /\ count' = Inc(count, {"safety"})
  /\ pc' = "repos"
  /\ err' = TRUE
  /\ UNCHANGED <<server, dbMode, dbStrategy, unthrottle, recorded, gcsState,
                 inWindow, state, view, dest, fn, uploaded, n>>

\* No CL is created.  Unless it is the counter which cannot be written, the
\* repos are updated before the transition fails.
CreateNewRollFails ==
  /\ "remote" \in Faults
  /\ pc = "run"
  /\ fn \in UploadFuncs
  /\ count' = Inc(count, {"safety"})
  /\ \/ EndTick
     \/ pc' = "repos" /\ err' = TRUE /\ UNCHANGED <<dest, fn, uploaded, n>>
  /\ UNCHANGED <<server, dbMode, dbStrategy, unthrottle, recorded, gcsState,
                 inWindow, state, view>>

NewRoll ==
  [id |-> uploaded, issue |-> Retrieve(fn = F_UPLOAD_DRY_RUN, cls[uploaded])]

\* From here on nothing refers to the CL of the previous roll; if it is
\* closed, its name is free and its data forgotten.
InsertIntoDB ==
  /\ pc = "upload"
  /\ roll' = NewRoll
  /\ recorded' = RecordOf(NewRoll)
  /\ cls' = [i \in CLs |-> IF i = uploaded \/ IsOpen(i) THEN cls[i]
                           ELSE UnusedCL]
  /\ pc' = "commit"
  /\ UNCHANGED <<tip, pin, dbMode, dbStrategy, unthrottle, gcsState, count,
                 inWindow, state, mode, strategy, known, base, call>>

\* The CL exists, but the roller does not track it; it may be recorded.
InsertIntoDBFails ==
  /\ "window" \in Faults
  /\ pc = "upload"
  /\ recorded' \in {recorded, RecordOf(NewRoll)}
  /\ pc' = "repos"
  /\ err' = TRUE
  /\ UNCHANGED <<server, dbMode, dbStrategy, unthrottle, gcsState, count,
                 inWindow, state, view, dest, fn, uploaded, n>>

(***************************************************************************)
(* withModify: close the CL, or vote on it, then Update.  The server       *)
(* refuses to modify a closed CL.                                          *)
(***************************************************************************)
ModifyFuncs == CloseFuncs \cup CqFuncs \cup DryRunFuncs

\* Mutant: a retry of a dry run votes for submission.
ModifiedCLRetry(f, c) ==
  IF f \in CloseFuncs THEN ClosedAs(c, "abandoned")
  ELSE [c EXCEPT !.label = IF f = F_SWITCH_TO_DRY_RUN THEN 1 ELSE 2]

ModifiedCL(f, c) ==
  IF f \in CloseFuncs THEN ClosedAs(c, "abandoned")
  ELSE [c EXCEPT !.label = IF f \in DryRunFuncs THEN 1 ELSE 2]

\* Mutant: a CL counts as closed once the roller has asked to close it.
RollAfterRequest(f, ok) ==
  IF f \in CloseFuncs THEN [roll EXCEPT !.issue.Closed = TRUE]
  ELSE IF ok THEN [roll EXCEPT !.issue.IsDryRun = (f \in DryRunFuncs)]
  ELSE roll

\* A vote which is not refused sets IsDryRun.
RollAfterModify(f, ok) ==
  IF ok /\ f \notin CloseFuncs
  THEN [roll EXCEPT !.issue.IsDryRun = (f \in DryRunFuncs)]
  ELSE roll

Modify ==
  /\ pc = "run"
  /\ fn \in ModifyFuncs
  /\ \/ /\ IsOpen(roll.id)
        /\ cls' = [cls EXCEPT ![roll.id] = ModifiedCL(fn, @)]
        /\ err' = FALSE
     \/ /\ ~IsOpen(roll.id) \/ "remote" \in Faults
        /\ err' = TRUE
        /\ UNCHANGED cls
     \/ /\ "lostReply" \in Faults
        /\ IsOpen(roll.id)
        /\ cls' = [cls EXCEPT ![roll.id] = ModifiedCL(fn, @)]
        /\ err' = TRUE
  /\ roll' = RollAfterModify(fn, ~err')
  /\ pc' = "sync"
  /\ UNCHANGED <<tip, pin, stored, inWindow, state, mode, strategy, known,
                 base, dest, fn, uploaded, n>>

\* Mutant: every error of the modification is ignored.
SyncModifiedAnyway ==
  /\ pc = "sync"
  /\ roll' = Updated(roll, cls[roll.id])
  /\ recorded' = RecordOf(roll')
  /\ pc' = "commit"
  /\ err' = FALSE
  /\ UNCHANGED <<server, dbMode, dbStrategy, unthrottle, gcsState, count,
                 inWindow, state, mode, strategy, known, base, dest, fn,
                 uploaded, n>>

\* An error of the modification is ignored if the CL turns out to be closed.
SyncModified ==
  /\ pc = "sync"
  /\ roll' = Updated(roll, cls[roll.id])
  /\ recorded' = RecordOf(roll')
  /\ IF err /\ IsOpen(roll.id)
     THEN EndTick
     ELSE pc' = "commit" /\ err' = FALSE /\ UNCHANGED <<dest, fn, uploaded, n>>
  /\ UNCHANGED <<server, dbMode, dbStrategy, unthrottle, gcsState, count,
                 inWindow, state, mode, strategy, known, base>>

\* Update fails: before the issue is retrieved, before it is recorded, or
\* when the recent rolls are read back.
UpdateFails ==
  /\ "remote" \in Faults
  /\ pc = "sync" \/ (pc = "run" /\ fn = F_UPDATE_ROLL)
  /\ \/ UNCHANGED <<roll, recorded>>
     \/ /\ roll' = Updated(roll, cls[roll.id])
        /\ recorded' \in {recorded, RecordOf(roll')}
  /\ EndTick
  /\ UNCHANGED <<server, dbMode, dbStrategy, unthrottle, gcsState, count,
                 inWindow, state, mode, strategy, known, base>>

\* rm.Update fails, possibly once the parent has saved its commit.
UpdateReposFails ==
  /\ "remote" \in Faults
  /\ \/ pc = "repos"
     \/ pc = "run" /\ fn \in {F_UPDATE_REPOS, F_WAIT_FOR_LAND}
  /\ EndTick
  /\ base' \in {base, pin}
  /\ UNCHANGED <<server, stored, inWindow, state, mode, strategy, roll, known>>

(***************************************************************************)
(* Crash and restart (NewAutoRoller).  The process resumes in the state    *)
(* GCS holds; its roll is the newest recorded one, if that is not closed.  *)
(***************************************************************************)
InUploadWindow ==
  \/ pc = "upload"
  \/ pc \in {"commit", "repos"} /\ uploaded # NoCL
  \/ state # gcsState

Crash ==
  /\ pc # "down"
  /\ IF InUploadWindow THEN "window" \in Faults ELSE "crash" \in Faults
  /\ pc' = "down"
  /\ state' = S_NORMAL_IDLE
  /\ mode' = dbMode
  /\ strategy' = dbStrategy
  /\ roll' = NoRoll
  /\ known' = [last |-> 0, tip |-> 0, next |-> 0]
  /\ base' = 0
  /\ NoCall
  /\ UNCHANGED <<server, stored, inWindow>>

\* Mutant: the roll is not retrieved.
RestartWithoutRoll ==
  /\ pc = "down"
  /\ pc' = "sleep"
  /\ state' = gcsState
  /\ mode' = dbMode
  /\ strategy' = dbStrategy
  /\ known' = SyncedRevs(dbStrategy)
  /\ base' = pin
  /\ roll' = NoRoll
  /\ UNCHANGED <<server, stored, inWindow, call>>

Restart ==
  /\ pc = "down"
  /\ pc' = "sleep"
  /\ state' = gcsState
  /\ mode' = dbMode
  /\ strategy' = dbStrategy
  /\ known' = SyncedRevs(dbStrategy)
  /\ base' = pin
  /\ roll' = IF recorded = NoRecord THEN NoRoll
             ELSE IF recorded.Closed THEN NoRoll
             ELSE [id |-> recorded.id,
                   issue |-> Retrieve(recorded.IsDryRun, cls[recorded.id])]
  /\ UNCHANGED <<server, stored, inWindow, call>>

(***************************************************************************)
(* Requests from the web UI (rpc_impl.go), which write to the datastore.   *)
(***************************************************************************)
SetMode ==
  /\ "mode" \in Events
  /\ dbMode' \in ValidModes \ {dbMode}
  /\ UNCHANGED <<server, dbStrategy, unthrottle, recorded, gcsState, count,
                 inWindow, process>>

SetStrategy ==
  /\ "strategy" \in Events
  /\ dbStrategy' \in Strategy \ {dbStrategy}
  /\ UNCHANGED <<server, dbMode, unthrottle, recorded, gcsState, count,
                 inWindow, process>>

Unthrottle ==
  /\ "unthrottle" \in Events
  /\ ~unthrottle
  /\ unthrottle' = TRUE
  /\ UNCHANGED <<server, dbMode, dbStrategy, recorded, gcsState, count,
                 inWindow, process>>

(***************************************************************************)
(* Time: the roll window opens and closes, and an attempt leaves the       *)
(* period of a throttle (a timer of the counter).                          *)
(***************************************************************************)
WindowChange ==
  /\ "window" \in Events
  /\ inWindow' = ~inWindow
  /\ UNCHANGED <<server, stored, process>>

\* Mutant: a timer counts down from zero.
ThrottleExpiresBelowZero(t) ==
  /\ count' = [count EXCEPT ![t] = @ - 1]
  /\ UNCHANGED <<server, dbMode, dbStrategy, unthrottle, recorded, gcsState,
                 inWindow, process>>

ThrottleExpires(t) ==
  /\ count[t] > 0
  /\ count' = [count EXCEPT ![t] = @ - 1]
  /\ UNCHANGED <<server, dbMode, dbStrategy, unthrottle, recorded, gcsState,
                 inWindow, process>>

(***************************************************************************)
(* The repositories, the commit queue and people.  A roll can only land on *)
(* the revision which it rolls from, or it conflicts; one which changes    *)
(* nothing can land anywhere.                                              *)
(***************************************************************************)
Local == <<stored, inWindow, process>>

NewRevision ==
  /\ tip < MaxRev
  /\ tip' = tip + 1
  /\ UNCHANGED <<cls, pin, Local>>

OtherRollLands ==
  /\ "otherRoll" \in Events
  /\ pin' \in NotRolled(pin, tip)
  /\ UNCHANGED <<cls, tip, Local>>

Dequeue(i, tries) ==
  /\ cls' = [cls EXCEPT ![i].label = 0, ![i].tries = tries]
  /\ UNCHANGED <<tip, pin, Local>>

DryRunFinishes(i) ==
  /\ IsOpen(i)
  /\ cls[i].label = 1
  /\ \E tries \in {"passed", "failed"} : Dequeue(i, tries)

CqFails(i) ==
  /\ IsOpen(i)
  /\ cls[i].label = 2
  /\ Dequeue(i, "failed")

Land(i) ==
  /\ IsOpen(i)
  /\ cls[i].from \in {pin, cls[i].to}
  /\ cls' = [cls EXCEPT ![i] = ClosedAs(@, "merged")]
  /\ pin' = IF cls[i].from = cls[i].to THEN pin ELSE cls[i].to
  /\ UNCHANGED <<tip, Local>>

CqLands(i) == cls[i].label = 2 /\ Land(i)

HumanLands(i) == "land" \in Events /\ Land(i)

HumanAbandons(i) ==
  /\ "abandon" \in Events
  /\ IsOpen(i)
  /\ cls' = [cls EXCEPT ![i] = ClosedAs(@, "abandoned")]
  /\ UNCHANGED <<tip, pin, Local>>

\* A person removes the vote, possibly after some trybots have failed.
HumanDequeues(i) ==
  /\ "dequeue" \in Events
  /\ IsOpen(i)
  /\ cls[i].label # 0
  /\ \E tries \in {cls[i].tries, "failed"} : Dequeue(i, tries)

(***************************************************************************)
(* The specification.                                                      *)
(***************************************************************************)
Init ==
  /\ cls = [i \in CLs |-> UnusedCL]
  /\ tip = 0
  /\ pin = 0
  /\ dbMode = ModeRunning
  /\ dbStrategy \in Strategy
  /\ unthrottle = FALSE
  /\ recorded = NoRecord
  /\ gcsState = S_NORMAL_IDLE
  /\ count = NoCounts
  /\ inWindow = TRUE
  /\ pc = "sleep"
  /\ state = S_NORMAL_IDLE
  /\ mode = dbMode
  /\ strategy = dbStrategy
  /\ roll = NoRoll
  /\ known = SyncedRevs(dbStrategy)
  /\ base = pin
  /\ dest = S_NORMAL_IDLE
  /\ fn = F_NOOP
  /\ err = FALSE
  /\ uploaded = NoCL
  /\ n = 0

\* The steps of the process which it takes of its own accord.
TickStep ==
  \/ TickStart \/ ResetUnthrottle \/ ChooseTransition \/ Commit
  \/ UpdateRepos \/ UpdateRoll \/ WaitForLand
  \/ CreateNewRoll \/ NothingToCommit \/ InsertIntoDB \/ Modify \/ SyncModified

FaultStep ==
  \/ UnthrottleFails \/ ResetUnthrottleFails \/ RefreshFails \/ GetNextFails
  \/ CommitNotPersisted \/ CreateNewRollFails \/ InsertIntoDBFails
  \/ UpdateFails \/ UpdateReposFails \/ Crash

UserStep == SetMode \/ SetStrategy \/ Unthrottle

TimeStep == WindowChange \/ \E t \in Throttles : ThrottleExpires(t)

ServerStep ==
  \/ NewRevision \/ OtherRollLands
  \/ \E i \in CLs : \/ DryRunFinishes(i) \/ CqFails(i) \/ CqLands(i)
                     \/ HumanLands(i) \/ HumanAbandons(i) \/ HumanDequeues(i)

Next ==
  TickStep \/ Restart \/ FaultStep \/ UserStep \/ TimeStep \/ ServerStep

Spec == Init /\ [][Next]_vars

(***************************************************************************)
(* Invariants.                                                             *)
(***************************************************************************)

\* Every variable of the roller and of its surroundings has its type.
TypeOK ==
  /\ cls \in [CLs -> CLRecords]
  /\ tip \in Revs
  /\ pin \in Revs
  /\ dbMode \in ValidModes
  /\ dbStrategy \in Strategy
  /\ unthrottle \in BOOLEAN
  /\ recorded \in Records \cup {NoRecord}
  /\ gcsState \in States
  /\ count \in [Throttles -> Nat]
  /\ inWindow \in BOOLEAN
  /\ pc \in PCs
  /\ state \in States
  /\ mode \in ValidModes
  /\ strategy \in Strategy
  /\ roll \in Rolls \cup {NoRoll}
  /\ known \in [last : Revs, tip : Revs, next : Revs]
  /\ base \in Revs
  /\ dest \in States
  /\ fn \in Funcs
  /\ err \in BOOLEAN
  /\ uploaded \in CLs \cup {NoCL}
  /\ n \in 0 .. MAX_NOOP_TRANSITIONS

\* The states in which the roller has no roll to look after.
QuietStates == States \ RollStates

\* At most one roll CL is open at any time, whatever calls fail and wherever
\* the process restarts outside of the upload window: UploadNewRoll is only
\* called once the previous CL has been closed.  RollsOneAtATime implies it,
\* since a slot holds one roll.
OneOpenRoll == \A i, j \in OpenCLs : i = j

\* The open roll CLs as the slot of RollSlot.
Slot == INSTANCE RollSlot WITH
  Names <- CLs,
  child <- tip,
  parent <- pin,
  seen <- known.last,
  slot <- {[name |-> i, from |-> cls[i].from, to |-> cls[i].to] : i \in OpenCLs}

\* To the repositories the roller is a single slot for a roll: whatever happens
\* between the decision to roll, made from what a tick has read, and the upload,
\* no CL is opened beside another one, and none which rolls to a revision that
\* is not newer than the one the decision was made from, or does not exist, or
\* is put on anything but the parent as it is or as the process last got it.
RollsOneAtATime == Slot!SlotSpec

\* Between two ticks a roller which is stopped, idle, throttled or outside of
\* its window has left no CL open: the transitions into these states close
\* it, or are taken only once it is seen to be closed.
QuietMeansNoOpenRoll ==
  pc = "sleep" /\ state \in QuietStates => OpenCLs = {}

\* The local copy of a roll and its record are closed only if the CL is:
\* the roller may look after an open CL too long, but never lets go of one.
ClosedCopyIsClosed ==
  /\ HasRoll /\ roll.issue.Closed => ~IsOpen(roll.id)
  /\ recorded # NoRecord /\ recorded.Closed => ~IsOpen(recorded.id)

\* When the process waits for a roll to land, that roll has landed and the
\* parent is at or past it, so the loop of F_WAIT_FOR_LAND can end.
WaitsForLandedRoll ==
  pc = "run" /\ fn = F_WAIT_FOR_LAND =>
    cls[roll.id].status = "merged" /\ pin >= cls[roll.id].to

\* GetNext never selects a function which the missing roll makes fail.
FunctionHasItsRoll == pc = "run" /\ fn \in NeedsRoll => HasRoll

DryRunRollStates ==
  {S_DRY_RUN_ACTIVE, S_DRY_RUN_SUCCESS, S_DRY_RUN_SUCCESS_LEAVING_OPEN,
   S_DRY_RUN_FAILURE, S_DRY_RUN_FAILURE_THROTTLED}

\* Between two ticks of a dry run the CL is not in the commit queue for
\* submission: only a person can land a dry run.
DryRunIsNotQueued ==
  pc = "sleep" /\ state \in DryRunRollStates =>
    \A i \in OpenCLs : cls[i].label # 2

(***************************************************************************)
(* Action properties.                                                      *)
(***************************************************************************)

\* A request to unthrottle is cleared only when all throttles are at zero:
\* no failed write and no crash between the two loses the request.
UnthrottleIsServed ==
  [][unthrottle /\ ~unthrottle' => count = NoCounts]_vars

\* A CL is created only while the safety throttle, which counts the
\* attempts, allows one more, across failures and restarts.
SafetyThrottleHolds ==
  [][\A i \in CLs : ~IsOpen(i) /\ IsOpen(i)' =>
        ~IsThrottled(count, "safety")]_vars

\* The parent is never rolled back, though others roll it too and the roller
\* works from what it knew: a CL which others have overtaken cannot land.  So it
\* is with a Gitiles parent whose Updates are whole.  A parent which syncs again
\* after the revision was chosen, or whose Update fails after it has saved the
\* newer commit, does not keep it.
NeverRollsBack == [][pin' >= pin]_vars

(***************************************************************************)
(* Liveness.                                                               *)
(***************************************************************************)

\* Ticks are repeated forever, the commit queue answers, and the timers of
\* the throttles fire.
Fairness ==
  /\ WF_vars(TickStep)
  /\ WF_vars(Restart)
  /\ \A t \in Throttles : WF_vars(ThrottleExpires(t))
  /\ \A i \in CLs : WF_vars(DryRunFinishes(i) \/ CqFails(i) \/ CqLands(i))

FairSpec == Spec /\ Fairness

\* A roller which is told to stop, and is not told otherwise, comes to rest
\* in S_STOPPED with no open CL, from any state.
StopsWhenTold ==
  <>[](dbMode = ModeStopped) => <>[](state = S_STOPPED /\ OpenCLs = {})

\* A roll which has landed is left behind: the state machine does not stay
\* in S_NORMAL_SUCCESS.
SuccessIsLeft == state = S_NORMAL_SUCCESS ~> state # S_NORMAL_SUCCESS

\* The commit queue does not fail every attempt.
CqSometimesLands == \A i \in CLs : SF_vars(CqLands(i))

\* The roller waits for a dry run which was closed while it was switched to a
\* normal roll (ClosedRollIsLeft).
IsStuck == state = S_NORMAL_ACTIVE /\ HasRoll /\ roll.issue.Closed

\* If the commit queue does not fail every attempt, a running roller brings the
\* parent to the newest valid revision, by retrying or replacing the rolls which
\* have failed and whatever people do to its CLs; except when it is stuck.
CatchesUp ==
  CqSometimesLands /\ <>[](dbMode = ModeRunning) =>
    []<>(pin = Newest(Valid(0 .. tip), 0)) \/ <>[]IsStuck

(***************************************************************************)
(* What a comment says, and the code does not do.                          *)
(***************************************************************************)

\* When a CL turns out to be closed while it is modified, "log an error and
\* move on" (withModify): the state machine does not wait for that CL.
ClosedRollIsLeft ==
  state = S_NORMAL_ACTIVE /\ HasRoll /\ ~IsOpen(roll.id)
    ~> state # S_NORMAL_ACTIVE
=============================================================================
