------------------------------- MODULE TryJobs -------------------------------
(***************************************************************************)
(* Try jobs: the TryJobIntegrator of the job creator, which leases builds  *)
(* from Buildbucket, makes a job of each, keeps the leases alive and       *)
(* reports how the jobs end.                                               *)
(*                                                                         *)
(* Poll, with one goroutine per build, and updateJobs, with a goroutine    *)
(* for the heartbeats, run side by side, and other processes write the     *)
(* same jobs: the scheduler ends them and people cancel them.  A step is   *)
(* one call to Buildbucket or to the database.  A call may fail, and a     *)
(* call which takes effect may look as if it had failed.                   *)
(***************************************************************************)
EXTENDS Integers, FiniteSets

CONSTANTS
  Builds,       \* the builds which people request
  NoBuild,      \* no build
  MaxJobs,      \* bound on the jobs which are ever created
  BatchSize,    \* LEASE_BATCH_SIZE
  MaxFaults     \* bound on failed calls, outages and crashes

ASSUME NoBuildAssumption == NoBuild \notin Builds
ASSUME BoundsAssumption ==
  MaxJobs \in Nat /\ BatchSize \in Nat \ {0} /\ MaxFaults \in Nat

VARIABLES
  build,        \* Buildbucket's builds
  db,           \* the jobs in Firestore
  cache,        \* the jobs in jCache
  ins,          \* insertNewJob, for each build which Poll has peeked at
  copies,       \* the active jobs which this round of updateJobs works on
  beats,        \* those whose heartbeats are still to be sent
  bad,          \* those which are to be cancelled
  reports,      \* those whose results are still to be reported
  reported,     \* those whose results have been reported
  writing,      \* the reported jobs are still to be written
  faults        \* the faults which have occurred

round == <<copies, beats, bad, reports, reported, writing>>
vars == <<build, db, cache, ins, round, faults>>

JobIds == 1 .. MaxJobs
Verdicts == {"success", "failure", "canceled"}

\* A job with key 0 is not, or no longer, active in Buildbucket.
JobType == [build : Builds \union {NoBuild}, key : Nat,
            status : {"in_progress"} \union Verdicts, ver : Nat]
NoJob == [build |-> NoBuild, key |-> 0, status |-> "in_progress", ver |-> 0]
NoJobs == [j \in JobIds |-> NoJob]

Done(job) == job.status # "in_progress"
InDB(j) == db[j].ver > 0
Idle == [pc |-> "idle", key |-> 0, job |-> 0]

Fault == faults < MaxFaults /\ faults' = faults + 1

-----------------------------------------------------------------------------
(***************************************************************************)
(* Buildbucket.  A lease which runs out makes the build available again.   *)
(***************************************************************************)
Completed(b) == build[b].status = "completed"
HoldsSomeLease(b, key) == build[b].status = "leased"
Holds(b, key) == build[b].status = "leased" /\ build[b].key = key
Complete(b, result) ==
  build' = [build EXCEPT ![b] = [status |-> "completed", key |-> @.key,
                                 result |-> result]]

\* Cancel: nothing happens to a build which has been completed.
Cancel(b) == IF Completed(b) THEN UNCHANGED build ELSE Complete(b, "canceled")

\* Somebody cancels the build, for example by uploading a newer patchset.
PersonCancels(b) ==
  /\ ~Completed(b)
  /\ Cancel(b)
  /\ UNCHANGED <<db, cache, ins, round, faults>>

Held(b) == \/ \E j \in JobIds : db[j].build = b /\ db[j].key = build[b].key
           \/ ins[b].key = build[b].key

\* A lease runs out.  Heartbeats and reports come often, so that an active job
\* loses its lease in an outage only.
LeaseExpires(b) ==
  /\ build[b].status = "leased"
  /\ build' = [build EXCEPT ![b].status = "scheduled"]
  /\ IF Held(b) THEN Fault ELSE UNCHANGED faults
  /\ UNCHANGED <<db, cache, ins, round>>

-----------------------------------------------------------------------------
(***************************************************************************)
(* The database and the cache of it.                                       *)
(***************************************************************************)
Current(put) == \A j \in DOMAIN put : put[j].ver = db[j].ver

Put(put) == [j \in JobIds |-> IF j \in DOMAIN put
                              THEN [put[j] EXCEPT !.ver = @ + 1]
                              ELSE db[j]]

\* insertOrUpdateJob
AddJobs(jobs) ==
  cache' = [j \in JobIds |-> IF j \in DOMAIN jobs /\ jobs[j].ver > cache[j].ver
                             THEN jobs[j] ELSE cache[j]]

\* jCache.Update: the changes which have arrived from the database by now.
Stale == {j \in JobIds : db[j].ver > cache[j].ver}
Update(arrived) == AddJobs([j \in arrived |-> db[j]])

\* PutJobsInChunks, all of the jobs or none.  AddJobs after a failure changes
\* nothing, since the versions have been set back.
PutJobs(put) ==
  IF Current(put)
  THEN db' = Put(put) /\ AddJobs([j \in DOMAIN put |-> db'[j]])
  ELSE UNCHANGED <<db, cache>>

Canceled(job) == [build |-> job.build, key |-> 0, status |-> "canceled",
                  ver |-> job.ver]

-----------------------------------------------------------------------------
(***************************************************************************)
(* The other writers.  A write from a stale copy is refused and changes    *)
(* nothing, so that reading and writing are one step here.                 *)
(***************************************************************************)
SetStatus(j, status) ==
  /\ InDB(j) /\ ~Done(db[j])
  /\ db' = Put([x \in {j} |-> [db[x] EXCEPT !.status = status]])
  /\ UNCHANGED <<build, cache, ins, round, faults>>

\* The scheduler derives the status of a job from its tasks.
UpdateUnfinishedJob(j) ==
  \E status \in {"success", "failure"} : SetStatus(j, status)

\* A person cancels the job.
CancelJob(j) == SetStatus(j, "canceled")

-----------------------------------------------------------------------------
(***************************************************************************)
(* Poll.  It waits for all of its goroutines before it peeks again.        *)
(***************************************************************************)
Poll(arrived) ==
  LET scheduled == {b \in Builds : build[b].status = "scheduled"}
  IN  /\ ins = [b \in Builds |-> Idle]
      /\ scheduled # {}
      /\ Update(arrived)
      /\ ins' = [b \in Builds |-> IF b \in scheduled
                                  THEN [Idle EXCEPT !.pc = "lease"]
                                  ELSE Idle]
      /\ UNCHANGED <<build, db, round, faults>>

Goes(b, pc) == ins' = [ins EXCEPT ![b].pc = pc]
Returns(b) == ins' = [ins EXCEPT ![b] = Idle]

\* insertNewJob finds that the build is not valid.
Rejects(b) ==
  /\ ins[b].pc = "lease"
  /\ Goes(b, "cancel")
  /\ UNCHANGED <<build, db, cache, round, faults>>

\* remoteCancelBuild
RemoteCancelBuild(b) ==
  /\ ins[b].pc = "cancel"
  /\ Returns(b)
  /\ \/ Cancel(b) /\ UNCHANGED faults
     \/ Fault /\ UNCHANGED build
  /\ UNCHANGED <<db, cache, round>>

\* tryLeaseBuild: every lease has a key of its own.
TryLeaseBuild(b) ==
  /\ ins[b].pc = "lease"
  /\ \/ /\ build[b].status = "scheduled"
        /\ build' = [build EXCEPT ![b] = [status |-> "leased",
                                          key |-> @.key + 1,
                                          result |-> @.result]]
        /\ \/ /\ ins' = [ins EXCEPT ![b] = [pc |-> "put", key |-> build'[b].key,
                                            job |-> 0]]
              /\ UNCHANGED faults
           \/ Returns(b) /\ Fault
     \/ /\ build[b].status # "scheduled"
        /\ Returns(b)
        /\ UNCHANGED <<build, faults>>
     \/ Returns(b) /\ Fault /\ UNCHANGED build
  /\ UNCHANGED <<db, cache, round>>

NewJob(b, j) == [x \in {j} |-> [build |-> b, key |-> ins[b].key,
                                status |-> "in_progress", ver |-> 0]]

\* PutJob.  When it looks as if it had failed, the build is cancelled.
PutJob(b) ==
  /\ ins[b].pc = "put"
  /\ \/ \E j \in JobIds :
          /\ \A i \in JobIds : InDB(i) <=> i < j
          /\ db' = Put(NewJob(b, j))
          /\ \/ /\ AddJobs([x \in {j} |-> db'[x]])
                /\ ins' = [ins EXCEPT ![b] = [pc |-> "start", key |-> @.key,
                                              job |-> j]]
                /\ UNCHANGED faults
             \/ Goes(b, "cancel") /\ Fault /\ UNCHANGED cache
     \/ Goes(b, "cancel") /\ Fault /\ UNCHANGED <<db, cache>>
  /\ UNCHANGED <<build, round>>

\* jobStarted; when it fails, or looks as if it had failed, the job is to be
\* cancelled.
JobStarted(b) ==
  /\ ins[b].pc = "start"
  /\ \/ Holds(b, ins[b].key) /\ Returns(b) /\ UNCHANGED faults
     \/ ~Holds(b, ins[b].key) /\ Goes(b, "drop") /\ UNCHANGED faults
     \/ Goes(b, "drop") /\ Fault
  /\ UNCHANGED <<build, db, cache, round>>

\* localCancelJobs after jobStarted, from the copy which PutJob wrote.
DropJob(b) ==
  LET job == [build |-> b, key |-> ins[b].key, status |-> "in_progress",
              ver |-> 1]
  IN  /\ ins[b].pc = "drop"
      /\ Returns(b)
      /\ \/ /\ PutJobs([x \in {ins[b].job} |-> Canceled(job)])
            /\ UNCHANGED faults
         \/ Fault /\ UNCHANGED <<db, cache>>
      /\ UNCHANGED <<build, round>>

-----------------------------------------------------------------------------
(***************************************************************************)
(* updateJobs.                                                             *)
(***************************************************************************)
ActiveUnlessDone(jobs) == {j \in JobIds : jobs[j].key # 0 /\ ~Done(jobs[j])}
Active(jobs) == {j \in JobIds : jobs[j].key # 0}

FinishedOrNot(jobs) == Active(jobs)
Finished(jobs) == {j \in Active(jobs) : Done(jobs[j])}

\* getActiveTryJobs, and the jobs are divided up.
GetActiveTryJobs(arrived) ==
  /\ ~writing /\ beats = {} /\ bad = {}
  /\ Update(arrived)
  /\ LET active == Active(cache')
     IN  /\ active # {}
         /\ copies' = [j \in JobIds |-> IF j \in active THEN cache'[j] ELSE NoJob]
         /\ reports' = Finished(cache')
         /\ writing' = (reports' # {})
         /\ beats' = active \ reports'
  /\ reported' = {}
  /\ UNCHANGED <<build, db, ins, bad, faults>>

\* One batch of sendHeartbeats.  Whatever is wrong with a build or its lease,
\* its job is to be cancelled; when the request fails, nothing is done.
HeartbeatBatch(S) ==
  /\ bad = {}
  /\ S \subseteq beats
  /\ \/ Cardinality(S) = BatchSize
     \/ S = beats /\ S # {} /\ Cardinality(S) < BatchSize
  /\ beats' = beats \ S
  /\ \/ /\ bad' = {j \in S : ~Holds(copies[j].build, copies[j].key)}
        /\ UNCHANGED faults
     \/ Fault /\ UNCHANGED bad
  /\ UNCHANGED <<build, db, cache, ins, copies, reports, reported, writing>>

\* localCancelJobs after a batch.
LocalCancelJobs ==
  /\ bad # {}
  /\ \/ PutJobs([j \in bad |-> Canceled(copies[j])]) /\ UNCHANGED faults
     \/ Fault /\ UNCHANGED <<db, cache>>
  /\ bad' = {}
  /\ UNCHANGED <<build, ins, copies, beats, reports, reported, writing>>

ResultUnlessFailed(job) == IF job.status = "failure" THEN "failure" ELSE "success"
Result(job) == IF job.status = "success" THEN "success" ELSE "failure"

AlreadyReportedOrLost(b) == TRUE
NeverAlreadyReported(b) == FALSE
\* BUILD_IS_COMPLETED
AlreadyReported(b) == Completed(b)

\* jobFinished.  A build which has been completed already is as good as
\* reported; with another error the job stays active.
JobFinished(j) ==
  LET b == copies[j].build
  IN  /\ j \in reports
      /\ reports' = reports \ {j}
      /\ \/ /\ Holds(b, copies[j].key)
            /\ Complete(b, Result(copies[j]))
            /\ \/ reported' = reported \union {j} /\ UNCHANGED faults
               \/ Fault /\ UNCHANGED reported
         \/ /\ ~Holds(b, copies[j].key)
            /\ reported' = IF AlreadyReported(b) THEN reported \union {j}
                             ELSE reported
            /\ UNCHANGED <<build, faults>>
         \/ Fault /\ UNCHANGED <<build, reported>>
      /\ UNCHANGED <<db, cache, ins, copies, beats, bad, writing>>

\* The reported jobs are written, without their lease keys.
PutFinished ==
  /\ writing /\ reports = {}
  /\ \/ /\ PutJobs([j \in reported |-> [copies[j] EXCEPT !.key = 0]])
        /\ UNCHANGED faults
     \/ Fault /\ UNCHANGED <<db, cache>>
  /\ writing' = FALSE
  /\ reported' = {}
  /\ UNCHANGED <<build, ins, copies, beats, bad, reports>>

-----------------------------------------------------------------------------
\* The process dies and starts again: NewJobCache reads the jobs.
Crash ==
  /\ Fault
  /\ cache' = db
  /\ ins' = [b \in Builds |-> Idle]
  /\ copies' = NoJobs
  /\ beats' = {} /\ bad' = {} /\ reports' = {} /\ reported' = {}
  /\ writing' = FALSE
  /\ UNCHANGED <<build, db>>

Init ==
  /\ build = [b \in Builds |-> [status |-> "scheduled", key |-> 0,
                                result |-> "none"]]
  /\ db = NoJobs /\ cache = NoJobs /\ copies = NoJobs
  /\ ins = [b \in Builds |-> Idle]
  /\ beats = {} /\ bad = {} /\ reports = {} /\ reported = {}
  /\ writing = FALSE
  /\ faults = 0

InsertNewJob(b) ==
  \/ Rejects(b) \/ RemoteCancelBuild(b)
  \/ TryLeaseBuild(b) \/ PutJob(b) \/ JobStarted(b) \/ DropJob(b)

UpdateJobs ==
  \/ \E arrived \in SUBSET Stale : GetActiveTryJobs(arrived)
  \/ \E S \in SUBSET beats : HeartbeatBatch(S)
  \/ LocalCancelJobs
  \/ \E j \in reports : JobFinished(j)
  \/ PutFinished

Next ==
  \/ \E arrived \in SUBSET Stale : Poll(arrived)
  \/ \E b \in Builds : InsertNewJob(b) \/ PersonCancels(b) \/ LeaseExpires(b)
  \/ UpdateJobs
  \/ \E j \in JobIds : UpdateUnfinishedJob(j) \/ CancelJob(j)
  \/ Crash

Spec == Init /\ [][Next]_vars

(***************************************************************************)
(* Start repeats both loops for as long as the process runs, Firestore     *)
(* delivers every change sooner or later, an abandoned lease runs out, and *)
(* the scheduler ends every job, as EveryJobSettles of the module          *)
(* TaskScheduler says.  Nothing is assumed of people.                      *)
(***************************************************************************)
FairSpec ==
  /\ Spec
  /\ WF_vars(Poll(Stale))
  /\ \A b \in Builds : /\ WF_vars(InsertNewJob(b))
                       /\ WF_vars(~Held(b) /\ LeaseExpires(b))
  /\ WF_vars(UpdateJobs)
  /\ SF_vars(GetActiveTryJobs(Stale))
  /\ \A j \in JobIds : WF_vars(UpdateUnfinishedJob(j))

-----------------------------------------------------------------------------
\* The type of all state; jobFinished is never called for an unfinished job,
\* which it would refuse each time.
TypeOK ==
  /\ build \in [Builds -> [status : {"scheduled", "leased", "completed"},
                           key : Nat, result : {"none"} \union Verdicts]]
  /\ {db, cache, copies} \subseteq [JobIds -> JobType]
  /\ ins \in [Builds -> [pc : {"idle", "lease", "put", "cancel", "start", "drop"},
                         key : Nat, job : JobIds \union {0}]]
  /\ \A S \in {beats, bad, reports, reported} : S \subseteq JobIds
  /\ \A j \in reports \union reported : Done(copies[j])
  /\ writing \in BOOLEAN
  /\ faults \in 0 .. MaxFaults

\* What jobFinished has told Buildbucket is what the database says of one of the
\* build's jobs, also when a heartbeat or jobStarted has failed meanwhile and
\* localCancelJobs is about to write a copy which it read before.
ReportIsTrue ==
  \A b \in Builds :
    LET Some(S) == \E j \in JobIds : db[j].build = b /\ db[j].status \in S
    IN  /\ build[b].result = "success" => Some({"success"})
        /\ build[b].result = "failure" => Some({"failure", "canceled"})

\* A job without a lease key is out of updateJobs' sight: it is done, and unless
\* it was cancelled, Buildbucket waits for no result any more.
ReleasedIsOver ==
  \A j \in JobIds :
    InDB(j) /\ db[j].key = 0 =>
      /\ Done(db[j])
      /\ db[j].status # "canceled" => Completed(db[j].build)

\* The scheduler, people and the two loops write the same jobs: nobody changes
\* the verdict on a job, and nobody brings a lease key back.
VerdictIsFinal ==
  [][\A j \in JobIds : /\ Done(db[j]) => db'[j].status = db[j].status
                       /\ InDB(j) /\ db[j].key = 0 => db'[j].key = 0]_vars

\* Whatever copies the two loops work on, leases which run out and pass to new
\* jobs, crashes and lost replies: the integrator keeps the promises of the module
\* BuildVerdicts.  In particular, a build which is completed with a result has
\* it from the newest of its jobs, before anybody has let go of that job.
Book == INSTANCE BuildVerdicts WITH
  outcome <- [b \in Builds |-> IF Completed(b) THEN build[b].result ELSE "none"],
  owner <- [j \in JobIds |-> db[j].build],
  verdict <- [j \in JobIds |-> IF Done(db[j]) THEN db[j].status ELSE "none"],
  active <- {j \in JobIds : db[j].key # 0}

KeepsItsPromises == Book!BookSpec

\* Every build is completed, although replies are lost, leases run out and the
\* process dies between the lease and the insertion of the job.
EveryBuildEnds == \A b \in Builds : <>Completed(b)

\* No job stays active for good: each one which was inserted is done and has
\* given up its lease key, also when the lease has passed to another job of
\* the same build or the build was cancelled behind its back.
EveryJobIsReleased ==
  <>[](\A j \in JobIds : InDB(j) => Done(db[j]) /\ db[j].key = 0)
==============================================================================
