---------------------------- MODULE TaskScheduler ----------------------------
(***************************************************************************)
(* The Task Scheduler for one task spec of one repository: the main loop,  *)
(* the tasks in Firestore, the scheduler's cache of them, Swarming, and    *)
(* the two ways in which results come back (Pub/Sub and a periodic poll).  *)
(*                                                                         *)
(* Three writers share the tasks: the main loop (blamelists, the jobs of a *)
(* task) and the two updaters (results).  Each writes whole tasks, from a  *)
(* copy it has read earlier; DbModified, here "ver", tells a stale copy.   *)
(* A step is one access to the database or to Swarming, or one blamelist,  *)
(* so the writers interleave.                                              *)
(***************************************************************************)
EXTENDS Integers, FiniteSets, FiniteSetsExt

CONSTANTS
  Commits,      \* the commits in the scheduling window
  Parents,      \* the parents of each commit
  NoCommit,     \* no commit
  Jobs,         \* the jobs which are ever created, in that order
  NoJob,        \* no job
  JobKinds,     \* the commits at which jobs are created, and which are forced
  Results,      \* the results of Swarming tasks
  MaxAttempts,  \* attempts of the task spec
  MaxBlamelist, \* MAX_BLAMELIST_COMMITS
  NumRetries,   \* NUM_RETRIES
  MaxTasks,     \* bound on the tasks which are ever triggered
  MaxFaults     \* bound on failed calls and crashes

ASSUME NoCommitAssumption == NoCommit \notin Commits
ASSUME NoJobAssumption == NoJob \notin Jobs
ASSUME JobKindsAssumption == JobKinds \subseteq [rev : Commits, forced : BOOLEAN]
ASSUME ResultsAssumption == Results \subseteq {"success", "failure", "mishap"}
ASSUME ParentsAssumption == Parents \in [Commits -> SUBSET Commits]
\* A commit is made after its parents: the history has no cycle.
ASSUME HistoryAssumption ==
  \A S \in SUBSET Commits :
    S # {} => \E c \in S : Parents[c] \intersect S = {}
ASSUME BoundsAssumption ==
  /\ MaxAttempts \in Nat \ {0} /\ MaxBlamelist \in Nat \ {0}
  /\ NumRetries \in Nat \ {0} /\ MaxTasks \in Nat /\ MaxFaults \in Nat

VARIABLES
  \* Firestore.
  db,           \* the tasks
  jobs,         \* the jobs
  \* Swarming and Pub/Sub.
  swarm,        \* the state of each Swarming task
  msgs,         \* tasks whose completion message is not yet acknowledged
  \* The cache of the scheduler.
  cache,        \* taskCache.tasks
  index,        \* taskCache.tasksByCommit
  \* The main loop.
  pc,           \* what it does next
  cands,        \* the candidates which are not yet scored
  layer,        \* the tasks in the cacheWrapper
  chosen,       \* the candidates which are to be triggered
  triggered,    \* the tasks which are triggered and not yet in the database
  tries,        \* the attempts of addTasks which have failed
  pendingInsert, \* tasks whose messages are refused for the time being
  \* The updaters.
  upd,          \* what each of them is about to write
  faults        \* the faults which have occurred

cached == <<cache, index>>
loop == <<pc, cands, layer, chosen, triggered, tries>>
vars == <<db, jobs, swarm, msgs, cached, loop, pendingInsert, upd, faults>>

TaskIds == 1 .. MaxTasks
Fakes == MaxTasks + 1 .. MaxTasks + Cardinality(Jobs)
Ids == TaskIds \union Fakes

Final == {"success", "failure", "mishap"}
Statuses == {"pending"} \union Final
Failed == {"failure", "mishap"}

(***************************************************************************)
(* A forced job has tasks of its own; the other jobs at a commit share     *)
(* theirs.  A task which is not in the database has version 0.             *)
(***************************************************************************)
Keys == [rev : Commits, forced : Jobs \union {NoJob}]
NoKey == [rev |-> NoCommit, forced |-> NoJob]
NoKind == [rev |-> NoCommit, forced |-> FALSE]
KeyOf(j) == [rev |-> jobs[j].kind.rev,
             forced |-> IF jobs[j].kind.forced THEN j ELSE NoJob]

Tasks == [key : Keys \union {NoKey}, attempt : Nat, status : Statuses,
          commits : SUBSET Commits, jobs : SUBSET Jobs, ver : Nat]
NoTask == [key |-> NoKey, attempt |-> 0, status |-> "pending",
           commits |-> {}, jobs |-> {}, ver |-> 0]

InDB(t) == db[t].ver > 0
Unfinished == {j \in Jobs : jobs[j].status = "in_progress"}
Unused == {t \in TaskIds : swarm[t] = "none"}
First(t, S) == t \in S /\ \A u \in S : t <= u
Updaters == {"pubsub", "poll"}
NoUpdate == [task |-> 0, copy |-> NoTask, tries |-> 0]
NoUpdates == [u \in Updaters |-> NoUpdate]

\* A call fails, or the process dies.
Fault == faults < MaxFaults /\ faults' = faults + 1

-----------------------------------------------------------------------------
(***************************************************************************)
(* The database.  A transaction writes all of the tasks or, when one of    *)
(* them has changed since it was read, none.                               *)
(***************************************************************************)
MayRetryOnceMore(n) == n < NumRetries
MayRetry(n) == n + 1 < NumRetries

CurrentIfPresent(put) == \A t \in DOMAIN put : put[t].ver > 0 => InDB(t)
Current(put) == \A t \in DOMAIN put : put[t].ver = db[t].ver

Put(put) == [t \in TaskIds |-> IF t \in DOMAIN put
                               THEN [put[t] EXCEPT !.ver = @ + 1]
                               ELSE db[t]]

(***************************************************************************)
(* The cache.  insertOrUpdateTask keeps the newer version of a task.  Its  *)
(* old commits leave the index unless another task has them by now, so the *)
(* order in which several tasks arrive makes no difference.                *)
(***************************************************************************)
Newer(new) == {t \in DOMAIN new : new[t].ver > cache[t].ver}

CacheWith(new) ==
  [t \in TaskIds |-> IF t \in Newer(new) THEN new[t] ELSE cache[t]]

\* removeFromTasksByCommit without the check of other.Id, when the tasks which
\* are stolen from come last.
IndexWithoutIdCheck(new) ==
  [c \in Commits |->
     IF \E t \in Newer(new) : c \in cache[t].commits \ new[t].commits THEN 0
     ELSE IF \E t \in Newer(new) : c \in new[t].commits
     THEN CHOOSE t \in Newer(new) : c \in new[t].commits
     ELSE index[c]]

IndexWith(new) ==
  [c \in Commits |->
     IF \E t \in Newer(new) : c \in new[t].commits
     THEN CHOOSE t \in Newer(new) : c \in new[t].commits
     ELSE IF index[c] \in Newer(new) THEN 0 ELSE index[c]]

\* insertOrUpdateTask for all of the tasks in new.
Insert(new) ==
  /\ cache' = CacheWith(new)
  /\ index' = IndexWith(new)

Empty == [t \in TaskIds |-> NoTask]

(***************************************************************************)
(* taskCache.Update applies the modified tasks which have arrived from the *)
(* database by now.  They arrive in a goroutine, with a delay: any of the  *)
(* newer tasks may be missing.                                             *)
(***************************************************************************)
\* The index of a new cache.
Owner(c) == IF \E t \in TaskIds : c \in db[t].commits
            THEN CHOOSE t \in TaskIds : c \in db[t].commits
            ELSE 0

Stale == {t \in TaskIds : db[t].ver > cache[t].ver}
Update(arrived) == arrived \subseteq Stale /\ Insert([t \in arrived |-> db[t]])

-----------------------------------------------------------------------------
(***************************************************************************)
(* Blamelists.  The layer is the cacheWrapper: tasks which the scheduler   *)
(* means to insert, and the tasks they steal from, hide the cached ones.   *)
(***************************************************************************)
NoLayer == [i \in Ids |-> NoTask]

GetTaskForCommit(c) ==
  IF \E i \in Ids : c \in layer[i].commits
  THEN CHOOSE i \in Ids : c \in layer[i].commits
  ELSE index[c]

GetTask(i) == IF layer[i] # NoTask THEN layer[i] ELSE cache[i]

WalkFromParents(rev) ==
  LET Closed(S) ==
        \A c \in S \union {rev} : \A d \in Parents[c] :
          GetTaskForCommit(d) = GetTaskForCommit(rev) => d \in S
  IN  {c \in Commits : \A S \in SUBSET Commits : Closed(S) => c \in S}

\* The commits which the walk from rev collects: it goes on to a parent which
\* belongs to the same task as rev does, or to no task either.
Walk(rev) ==
  LET Closed(S) ==
        /\ rev \in S
        /\ \A c \in S : \A d \in Parents[c] :
             GetTaskForCommit(d) = GetTaskForCommit(rev) => d \in S
  IN  {c \in Commits : \A S \in SUBSET Commits : Closed(S) => c \in S}

\* The walk has visited a commit beyond the limit.  In a history with merges a
\* parent outside of the walk may have been visited before the limit was
\* reached; in a history without merges this is exact.
TooLong(walk) ==
  \/ Cardinality(walk) > MaxBlamelist + 1
  \/ /\ Cardinality(walk) = MaxBlamelist + 1
     /\ \E c \in walk : Parents[c] \ walk # {}

\* ComputeBlamelist: the task to steal from is GetTaskForCommit(rev).
Blamelist(rev) ==
  LET steal == GetTaskForCommit(rev)
  IN  IF steal # 0 /\ GetTask(steal).key.rev = rev
      THEN GetTask(steal).commits
      ELSE IF TooLong(Walk(rev)) THEN {rev} ELSE Walk(rev)

LayerWithoutTheft(i, task) ==
  [layer EXCEPT ![i] = [task EXCEPT !.commits = Blamelist(task.key.rev)]]

\* The layer after task has been inserted with its blamelist.
LayerWith(i, task) ==
  LET commits == Blamelist(task.key.rev)
      steal == GetTaskForCommit(task.key.rev)
  IN  [x \in Ids |->
         IF x = i THEN [task EXCEPT !.commits = commits]
         ELSE IF x = steal THEN [GetTask(x) EXCEPT !.commits = @ \ commits]
         ELSE layer[x]]

(***************************************************************************)
(* The score of a candidate is positive.  A forced candidate always has a  *)
(* positive score; otherwise the testedness must increase, or a task which *)
(* failed is run again.                                                    *)
(***************************************************************************)
TestednessIncreases(n, stolen) == n > 0 /\ (stolen = 0 \/ n < stolen)

Scores(key) ==
  LET steal == GetTaskForCommit(key.rev)
      n == Cardinality(Blamelist(key.rev))
      stolen == IF steal = 0 THEN 0 ELSE Cardinality(GetTask(steal).commits)
  IN  \/ key.forced # NoJob
      \/ TestednessIncreases(n, stolen)
      \/ n > 0 /\ n = stolen /\ GetTask(steal).status \in Failed

-----------------------------------------------------------------------------
(***************************************************************************)
(* Jobs.                                                                   *)
(***************************************************************************)
GetTasksByKey(k) == {t \in TaskIds : cache[t].ver > 0 /\ cache[t].key = k}

DeriveStatusEarly(j) ==
  LET tasks == GetTasksByKey(KeyOf(j))
      Some(s) == \E t \in tasks : cache[t].status = s
  IN  IF Some("success") THEN "success"
      ELSE IF Some("pending") \/ tasks = {} THEN "in_progress"
      ELSE IF Some("failure") THEN "failure" ELSE "mishap"

DeriveStatusLate(j) ==
  LET tasks == GetTasksByKey(KeyOf(j))
      Some(s) == \E t \in tasks : cache[t].status = s
  IN  IF Some("success") THEN "success"
      ELSE IF Some("pending") \/ Cardinality(tasks) <= MaxAttempts
      THEN "in_progress"
      ELSE IF Some("failure") THEN "failure" ELSE "mishap"

\* A retry may still come while fewer tasks than MaxAttempts have run.
DeriveStatus(j) ==
  LET tasks == GetTasksByKey(KeyOf(j))
      Some(s) == \E t \in tasks : cache[t].status = s
  IN  IF Some("success") THEN "success"
      ELSE IF Some("pending") \/ Cardinality(tasks) < MaxAttempts
      THEN "in_progress"
      ELSE IF Some("failure") THEN "failure" ELSE "mishap"

\* Somebody creates a job.  The job cache is read when the main loop starts:
\* a job which is created later in a pass counts from the next pass.
NewJob(j, kind) ==
  /\ pc = "idle"
  /\ First(j, {i \in Jobs : jobs[i].status = "none"})
  /\ jobs' = [jobs EXCEPT ![j] = [status |-> "in_progress", kind |-> kind]]
  /\ UNCHANGED <<db, swarm, msgs, cached, loop, pendingInsert, upd, faults>>

\* MainLoop starts and brings its cache up to date.
StartLoop(arrived) ==
  /\ pc = "idle"
  /\ pc' = "jobs"
  /\ Update(arrived)
  /\ UNCHANGED <<db, jobs, swarm, msgs, cands, layer, chosen, triggered,
                 tries, pendingInsert, upd, faults>>

\* The tasks which do not know yet that a job uses them.
Unlinked == {t \in TaskIds : \E j \in Unfinished \ cache[t].jobs :
                               t \in GetTasksByKey(KeyOf(j))}
Linked == [t \in Unlinked |->
             [cache[t] EXCEPT !.jobs =
                @ \union {j \in Unfinished : KeyOf(j) = cache[t].key}]]

-----------------------------------------------------------------------------
(***************************************************************************)
(* The queue.  A candidate needs another attempt unless its last task may  *)
(* still succeed, has succeeded or was the last one allowed.               *)
(***************************************************************************)
Attempt(k) ==
  LET tasks == GetTasksByKey(k)
  IN  IF tasks = {} THEN 0 ELSE cache[Max(tasks)].attempt + 1

NeedsATaskUnlessSuccess(k) ==
  LET tasks == GetTasksByKey(k)
  IN  tasks # {} => /\ cache[Max(tasks)].status # "success"
                    /\ cache[Max(tasks)].attempt < MaxAttempts - 1

NeedsATask(k) ==
  LET tasks == GetTasksByKey(k)
  IN  tasks # {} => /\ cache[Max(tasks)].status \in Failed
                    /\ cache[Max(tasks)].attempt < MaxAttempts - 1

MakeCandidate(k) == [key |-> k, attempt |-> Attempt(k),
                     jobs |-> {j \in Unfinished : KeyOf(j) = k}]

MakeTask(c) == [key |-> c.key, attempt |-> c.attempt, status |-> "pending",
                commits |-> {}, jobs |-> c.jobs, ver |-> 0]

\* findTaskCandidatesForJobs and filterTaskCandidates
Candidates ==
  {MakeCandidate(k) :
     k \in {x \in {KeyOf(j) : j \in Unfinished} : NeedsATask(x)}}

\* updateUnfinishedJobs, and regenerateTaskQueue on what it leaves.  When a
\* task is stale, or the tasks or the jobs cannot be written, the main loop
\* starts again.
UpdateUnfinishedJobs ==
  /\ pc = "jobs"
  /\ \/ /\ Current(Linked)
        /\ db' = Put(Linked)
        /\ Insert([t \in Unlinked |-> db'[t]])
        /\ \/ /\ jobs' = [j \in Jobs |->
                            IF j \in Unfinished
                            THEN [jobs[j] EXCEPT !.status = DeriveStatus(j)]
                            ELSE jobs[j]]
              /\ cands' = Candidates'
              /\ pc' = IF cands' = {} THEN "idle" ELSE "score"
              /\ UNCHANGED faults
           \/ Fault /\ pc' = "idle" /\ UNCHANGED <<jobs, cands>>
     \/ /\ \/ ~Current(Linked) /\ UNCHANGED faults
           \/ Unlinked # {} /\ Fault
        /\ pc' = "idle"
        /\ UNCHANGED <<db, jobs, cached, cands>>
  /\ UNCHANGED <<swarm, msgs, layer, chosen, triggered, tries, pendingInsert,
                 upd>>

(***************************************************************************)
(* One round of processTaskCandidates for the best candidate which is      *)
(* left, and getCandidatesToSchedule for it: a bot may be free or not.     *)
(* The scores decide which one is best, so any candidate may be.  Whether  *)
(* it is chosen or not, the later ones see its blamelist.                  *)
(***************************************************************************)
ProcessCandidate(c) ==
  /\ pc = "score"
  /\ c \in cands
  /\ cands' = cands \ {c}
  /\ \/ /\ Scores(c.key)
        /\ Cardinality(chosen) < Cardinality(Unused)
        /\ chosen' = chosen \union {c}
     \/ UNCHANGED chosen
  /\ \/ /\ cands' # {}
        /\ \E i \in Fakes : /\ First(i, {x \in Fakes : layer[x] = NoTask})
                            /\ layer' = LayerWith(i, MakeTask(c))
        /\ UNCHANGED pc
     \/ /\ cands' = {}
        /\ layer' = NoLayer
        /\ pc' = IF chosen' = {} THEN "idle" ELSE "trigger"
  /\ UNCHANGED <<db, jobs, swarm, msgs, cached, triggered, tries,
                 pendingInsert, upd, faults>>

-----------------------------------------------------------------------------
(***************************************************************************)
(* Triggering.  Ids are in the order of the tasks' Created times.          *)
(***************************************************************************)
Triggered == {t \in TaskIds : triggered[t] # NoTask}

\* After the last candidate the triggered tasks are inserted.
Trigger(c) ==
  /\ pc = "trigger"
  /\ c \in chosen
  /\ chosen' = chosen \ {c}
  /\ pc' = IF chosen' # {} THEN "trigger"
           ELSE IF triggered' = Empty THEN "idle" ELSE "insert"
  /\ UNCHANGED <<db, jobs, cached, cands, layer, tries, upd>>

\* Swarming accepts the task, or has already the result of an equal one.
TriggerTask(c) ==
  /\ \E t \in TaskIds, status \in {"pending", "success"} :
       /\ First(t, Unused)
       /\ status = "success" => c.key.forced = NoJob
       /\ swarm' = [swarm EXCEPT ![t] = status]
       /\ triggered' = [triggered EXCEPT ![t] =
                          [MakeTask(c) EXCEPT !.status = status]]
       /\ pendingInsert' = pendingInsert \union {t}
  /\ Trigger(c)
  /\ UNCHANGED <<msgs, faults>>

\* The call fails or times out; Swarming may have the task all the same.
TriggerFails(c) ==
  /\ UNCHANGED <<triggered, msgs, pendingInsert>>
  /\ Trigger(c)
  /\ Fault
  /\ \/ \E t \in TaskIds : /\ First(t, Unused)
                           /\ swarm' = [swarm EXCEPT ![t] = "pending"]
     \/ UNCHANGED swarm

\* No bot can run the task.  The task stays in pendingInsert.
NoResource(c) ==
  /\ UNCHANGED triggered
  /\ Trigger(c)
  /\ Fault
  /\ \E t \in TaskIds :
       /\ First(t, Unused)
       /\ swarm' = [swarm EXCEPT ![t] = "mishap"]
       /\ msgs' = msgs \union {t}
       /\ pendingInsert' = pendingInsert \union {t}

-----------------------------------------------------------------------------
(***************************************************************************)
(* addTasks.  Every attempt starts from the cache and an empty layer.      *)
(***************************************************************************)
StartAttempt(arrived) ==
  /\ pc = "insert"
  /\ pc' = "blame"
  /\ Update(arrived)
  /\ UNCHANGED <<db, jobs, swarm, msgs, cands, layer, chosen, triggered, tries,
                 pendingInsert, upd, faults>>

ToBlame == {t \in Triggered : layer[t] = NoTask}

\* addTasksSingleTaskSpec, one task: the blamelist.
ComputeBlamelist ==
  /\ pc = "blame"
  /\ \E t \in TaskIds : /\ First(t, ToBlame)
                         /\ layer' = LayerWith(t, triggered[t])
  /\ UNCHANGED <<db, jobs, swarm, msgs, cached, pc, cands, chosen, triggered,
                 tries, pendingInsert, upd, faults>>

UpdatedTasks == [t \in {u \in TaskIds : layer[u] # NoTask} |-> layer[t]]

\* The tasks leave pendingInsert, whether or not they are in the database.
EndInserting ==
  /\ pc' = "idle"
  /\ pendingInsert' = pendingInsert \ Triggered
  /\ triggered' = Empty
  /\ tries' = 0

\* putTasks succeeds.
PutTasks ==
  /\ pc = "blame"
  /\ ToBlame = {}
  /\ Current(UpdatedTasks)
  /\ db' = Put(UpdatedTasks)
  /\ Insert([t \in DOMAIN UpdatedTasks |-> db'[t]])
  /\ EndInserting
  /\ layer' = NoLayer
  /\ UNCHANGED <<jobs, swarm, msgs, cands, chosen, upd, faults>>

\* A task to steal from has changed: another attempt, if one is left.
PutConflicts ==
  /\ pc = "blame"
  /\ ToBlame = {}
  /\ ~Current(UpdatedTasks)
  /\ \/ /\ MayRetry(tries)
        /\ pc' = "insert"
        /\ tries' = tries + 1
        /\ UNCHANGED <<triggered, pendingInsert>>
     \/ ~MayRetry(tries) /\ EndInserting
  /\ layer' = NoLayer
  /\ UNCHANGED <<db, jobs, swarm, msgs, cached, cands, chosen, upd, faults>>

\* Firestore fails: the tasks run, but the scheduler forgets them.  A
\* transaction which reports an error is taken to have written nothing.
PutFails ==
  /\ pc = "blame"
  /\ ToBlame = {}
  /\ Fault
  /\ EndInserting
  /\ layer' = NoLayer
  /\ UNCHANGED <<db, jobs, swarm, msgs, cached, cands, chosen, upd>>

-----------------------------------------------------------------------------
(***************************************************************************)
(* Results.                                                                *)
(***************************************************************************)
\* A Swarming task ends, and Swarming publishes a message.
SwarmingFinishes(t, result) ==
  /\ swarm[t] = "pending"
  /\ swarm' = [swarm EXCEPT ![t] = result]
  /\ msgs' = msgs \union {t}
  /\ UNCHANGED <<db, jobs, cached, loop, pendingInsert, upd, faults>>

\* UpdateDBFromSwarmingTask: the task as it is in the database, with the result.
WithResult(t) == [db[t] EXCEPT !.status = swarm[t]]
NeedsResult(t) == InDB(t) /\ db[t].status # swarm[t]
Read(u, t, n) ==
  upd' = [upd EXCEPT ![u] = [task |-> t, copy |-> WithResult(t), tries |-> n]]

(***************************************************************************)
(* HandleSwarmingPubSub.  The message of a task in pendingInsert is        *)
(* refused, which changes nothing.  So is the message of a task which is   *)
(* not in the database, while the task is young; later it is dropped.      *)
(* When Swarming does not answer, the message is lost.                     *)
(***************************************************************************)
HandleSwarmingPubSub(t) ==
  /\ upd["pubsub"] = NoUpdate
  /\ t \in msgs
  /\ t \notin pendingInsert
  /\ \/ NeedsResult(t) /\ Read("pubsub", t, 0) /\ UNCHANGED <<msgs, faults>>
     \/ ~NeedsResult(t) /\ msgs' = msgs \ {t} /\ UNCHANGED <<upd, faults>>
     \/ NeedsResult(t) /\ msgs' = msgs \ {t} /\ Fault /\ UNCHANGED upd
  /\ UNCHANGED <<db, jobs, swarm, cached, loop, pendingInsert>>

\* updateUnfinishedTasks, for one task which has ended.
UpdateUnfinishedTask(t) ==
  /\ upd["poll"] = NoUpdate
  /\ swarm[t] \in Final
  /\ \E arrived \in SUBSET Stale :
       /\ Update(arrived)
       /\ cache'[t].ver > 0 /\ cache'[t].status = "pending"
  /\ IF NeedsResult(t) THEN Read("poll", t, 0) ELSE UNCHANGED upd
  /\ UNCHANGED <<db, jobs, swarm, msgs, loop, pendingInsert, faults>>

\* The updater is done.  Pub/Sub gets its acknowledgement; the poll brings
\* the cache up to date, unless it has failed.
EndUpdate(u, ok) ==
  /\ upd' = [upd EXCEPT ![u] = NoUpdate]
  /\ msgs' = IF u = "pubsub" THEN msgs \ {upd[u].task} ELSE msgs
  /\ IF u = "poll" /\ ok
     THEN \E arrived \in SUBSET Stale : Update(arrived)
     ELSE UNCHANGED cached

\* UpdateTaskWithRetries: write the copy; when the task has changed since it
\* was read, read it again, which may show that it has the result by now.
WriteTask(u) ==
  /\ upd[u] # NoUpdate
  /\ LET t == upd[u].task
     IN  \/ /\ upd[u].copy.ver = db[t].ver
            /\ db' = Put([x \in {t} |-> upd[u].copy])
            /\ EndUpdate(u, TRUE)
         \/ /\ upd[u].copy.ver # db[t].ver
            /\ UNCHANGED db
            /\ IF MayRetry(upd[u].tries) /\ NeedsResult(t)
               THEN Read(u, t, upd[u].tries + 1) /\ UNCHANGED <<msgs, cached>>
               ELSE EndUpdate(u, MayRetry(upd[u].tries))
  /\ UNCHANGED <<jobs, swarm, loop, pendingInsert, faults>>

-----------------------------------------------------------------------------
\* The process dies and starts again: NewTaskCache reads the tasks.
Crash ==
  /\ Fault
  /\ cache' = db
  /\ index' = [c \in Commits |-> Owner(c)]
  /\ pc' = "idle"
  /\ cands' = {} /\ chosen' = {}
  /\ layer' = NoLayer
  /\ triggered' = Empty
  /\ tries' = 0
  /\ pendingInsert' = {}
  /\ upd' = NoUpdates
  /\ UNCHANGED <<db, jobs, swarm, msgs>>

Init ==
  /\ db = Empty /\ cache = Empty /\ triggered = Empty
  /\ jobs = [j \in Jobs |-> [status |-> "none", kind |-> NoKind]]
  /\ swarm = [t \in TaskIds |-> "none"]
  /\ index = [c \in Commits |-> 0]
  /\ layer = NoLayer
  /\ msgs = {} /\ cands = {} /\ chosen = {} /\ pendingInsert = {}
  /\ pc = "idle" /\ tries = 0 /\ faults = 0
  /\ upd = NoUpdates

MainLoop ==
  \/ \E arrived \in SUBSET Stale : StartLoop(arrived) \/ StartAttempt(arrived)
  \/ UpdateUnfinishedJobs
  \/ \E c \in cands : ProcessCandidate(c)
  \/ \E c \in chosen : TriggerTask(c)
  \/ ComputeBlamelist \/ PutTasks \/ PutConflicts

Faulty ==
  \/ \E c \in chosen : TriggerFails(c) \/ NoResource(c)
  \/ PutFails \/ Crash

Next ==
  \/ \E j \in Jobs, kind \in JobKinds : NewJob(j, kind)
  \/ MainLoop
  \/ \E t \in TaskIds, result \in Results : SwarmingFinishes(t, result)
  \/ \E t \in TaskIds : HandleSwarmingPubSub(t) \/ UpdateUnfinishedTask(t)
  \/ \E u \in Updaters : WriteTask(u)
  \/ Faulty

Spec == Init /\ [][Next]_vars

-----------------------------------------------------------------------------
(***************************************************************************)
(* Start repeats the main loop and the poll for as long as the process     *)
(* runs, Firestore delivers every change sooner or later, Swarming ends    *)
(* every task, and a candidate which is worth running finds a bot at last. *)
(* Nothing is assumed of Pub/Sub, people or faults.                        *)
(***************************************************************************)
Scheduled(j) == \E c \in cands : /\ c.key = KeyOf(j)
                                 /\ ProcessCandidate(c)
                                 /\ c \in chosen'

FairSpec ==
  /\ Spec
  /\ WF_vars(MainLoop)
  /\ SF_vars(StartLoop(Stale))
  /\ \A j \in Jobs : SF_vars(Scheduled(j))
  /\ \A t \in TaskIds : /\ WF_vars(\E r \in Results : SwarmingFinishes(t, r))
                        /\ WF_vars(UpdateUnfinishedTask(t))
  /\ \A u \in Updaters : WF_vars(WriteTask(u))

-----------------------------------------------------------------------------
CandidateType == [key : Keys, attempt : Nat, jobs : SUBSET Jobs]

\* The type of all state; addTasks and UpdateTasksWithRetries stay within
\* NUM_RETRIES attempts.
TypeOK ==
  /\ {db, cache, triggered} \subseteq [TaskIds -> Tasks]
  /\ jobs \in [Jobs -> [status : {"none", "in_progress"} \union Final,
                        kind : JobKinds \union {NoKind}]]
  /\ swarm \in [TaskIds -> {"none"} \union Statuses]
  /\ msgs \subseteq TaskIds /\ pendingInsert \subseteq TaskIds
  /\ index \in [Commits -> TaskIds \union {0}]
  /\ pc \in {"idle", "jobs", "score", "trigger", "insert", "blame"}
  /\ cands \subseteq CandidateType /\ chosen \subseteq CandidateType
  /\ layer \in [Ids -> Tasks]
  /\ tries \in 0 .. NumRetries - 1
  /\ upd \in [Updaters -> [task : TaskIds \union {0}, copy : Tasks,
                           tries : 0 .. NumRetries - 1]]
  /\ faults \in 0 .. MaxFaults

\* The purpose of the blamelists which addTasksSingleTaskSpec writes: no commit
\* is in those of two tasks, although they are computed from a cache which
\* lags behind, for several new tasks at a time, and written over the tasks
\* which they steal from while the updaters write these too.
BlamelistsDisjoint ==
  \A t, u \in TaskIds : t # u => db[t].commits \intersect db[u].commits = {}

\* A task which has a blamelist has its own revision in it, also when later
\* tasks have stolen from it; addTasksSingleTaskSpec only logs an error when
\* it does not.
OwnRevision ==
  \A t \in TaskIds : db[t].commits # {} => db[t].key.rev \in db[t].commits

TasksOf(k) == {t \in TaskIds : InDB(t) /\ db[t].key = k}

\* filterTaskCandidates decides from the cache whether another attempt is due:
\* however late the cache is, the attempts of a key are numbered without gaps
\* or repetitions, there are at most MaxAttempts of them, and each one but the
\* last has failed.
AttemptsInOrder ==
  \A k \in {db[t].key : t \in TaskIds} \ {NoKey} :
    LET tasks == TasksOf(k)
    IN  /\ {db[t].attempt : t \in tasks} = 0 .. Cardinality(tasks) - 1
        /\ Cardinality(tasks) <= MaxAttempts
        /\ \A t, u \in tasks : t < u => db[t].status \in Failed

\* The status which updateUnfinishedJobs derives from cached tasks is right for
\* the tasks in the database: a job succeeds only if one of its tasks has, and
\* fails only if all attempts have been made and have failed.
VerdictIsJustified ==
  \A j \in Jobs :
    LET tasks == TasksOf(KeyOf(j))
    IN  /\ jobs[j].status = "success" => \E t \in tasks : db[t].status = "success"
        /\ jobs[j].status \in Failed =>
             /\ Cardinality(tasks) = MaxAttempts
             /\ \A t \in tasks : db[t].status \in Failed

\* insertOrUpdateTask and removeFromTasksByCommit keep the index by commit and
\* the tasks of the cache in step, whichever tasks arrive together and whichever
\* later.
IndexAgrees ==
  \A c \in Commits, t \in TaskIds : index[c] = t <=> c \in cache[t].commits

\* The tasks database as the ledger which its readers see.
Ledger == INSTANCE BlameLedger WITH
  owner <- [c \in Commits |-> Owner(c)],
  outcome <- [t \in TaskIds |-> IF InDB(t) THEN db[t].status ELSE "none"]

\* The scheduler implements the ledger: a tested commit never loses its task
\* but to a task which is new in that transaction, and no writer, with however
\* old a copy, takes back a result or a blamelist.
KeepsTheLedger == Ledger!LedgerSpec

(***************************************************************************)
(* A forced job has already tested the commit of j, at that commit, with   *)
(* success: running a task for j would add nothing, its score is zero, and *)
(* j waits for as long as the commit is in the window.                     *)
(***************************************************************************)
Superseded(j) ==
  \E t \in TaskIds : /\ jobs[j].kind.rev \in db[t].commits
                     /\ db[t].key.rev = jobs[j].kind.rev
                     /\ db[t].key # KeyOf(j)
                     /\ db[t].status = "success"

\* Every job ends, although messages are refused and dropped, the cache lags
\* behind and insertions fail with conflicts; except for the jobs above, and
\* unless the bound on tasks is used up.
EveryJobSettles ==
  \A j \in Jobs : <>[]( \/ jobs[j].status # "in_progress"
                        \/ Superseded(j)
                        \/ Unused = {} )
==============================================================================
