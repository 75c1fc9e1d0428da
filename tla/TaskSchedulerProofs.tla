------------------------- MODULE TaskSchedulerProofs -------------------------
(***************************************************************************)
(* Safety of the Task Scheduler, for every history, number of tasks, jobs, *)
(* attempts and faults, and the proof that it implements BlameLedger.      *)
(*                                                                         *)
(* The argument: only the insertion of new tasks changes blamelists, and   *)
(* the cache and the database have the same ones at every time, however    *)
(* late results reach the cache.  So the layer on top of the cache says of *)
(* every commit which task it would belong to (LayerOK), a blamelist takes *)
(* commits from one task only, and the insertion writes what the layer     *)
(* says.  Every other write changes no more than a pending status (Quiet). *)
(* A candidate stays due (Due) until it is inserted, as nobody else inserts*)
(* a task of its key in the meantime.                                      *)
(***************************************************************************)
EXTENDS TaskScheduler, FiniteSetTheorems, WellFoundedInduction, TLAPS

\* The commits which may be in the blamelist of a task at rev: its history.
Closed(S) == \A c \in S : Parents[c] \subseteq S
History(rev) ==
  {c \in Commits : \A S \in SUBSET Commits : rev \in S /\ Closed(S) => c \in S}

\* The blamelist of a task is in the history of its revision, which is in it.
Rooted(task) ==
  /\ task.commits \subseteq History(task.key.rev)
  /\ task.commits # {} => task.key.rev \in task.commits

DbOK ==
  /\ BlamelistsDisjoint
  /\ \A t \in TaskIds :
       /\ db[t].ver = 0 => db[t] = NoTask
       /\ db[t].ver > 0 => db[t].key \in Keys
       /\ swarm[t] = "none" => db[t].ver = 0
       /\ db[t].status \in {"pending", swarm[t]}
       /\ Rooted(db[t])

\* Tasks are triggered in the order of their ids.
IdsInOrder ==
  \A t, u \in TaskIds : t < u /\ swarm[t] = "none" => swarm[u] = "none"

\* x is the task d as it is or as it was; its blamelist is up to date.
CopyOf(x, d) ==
  /\ x.ver <= d.ver
  /\ x.ver = d.ver => x = d
  /\ x.ver = 0 => d.ver = 0
  /\ x.key = d.key /\ x.attempt = d.attempt /\ x.commits = d.commits
  /\ x.status \in {"pending", d.status}

CacheOK == IndexAgrees /\ \A t \in TaskIds : CopyOf(cache[t], db[t])

-----------------------------------------------------------------------------
(***************************************************************************)
(* The layer l on the cache x with the index y.                            *)
(***************************************************************************)
\* The commits of i, as the scheduler sees it through the layer.
Seen(l, x, i) == IF l[i] # NoTask THEN l[i].commits
                 ELSE IF i \in TaskIds THEN x[i].commits ELSE {}

Lookup(l, y, c) == IF \E i \in Ids : c \in l[i].commits
                   THEN CHOOSE i \in Ids : c \in l[i].commits
                   ELSE y[c]

Agree(l, x, y) ==
  \A c \in Commits, i \in Ids : Lookup(l, y, c) = i <=> c \in Seen(l, x, i)

\* A triggered task, with a blamelist.
Blamed(t, task) == /\ t \in Triggered
                   /\ task = [triggered[t] EXCEPT !.commits = task.commits]

\* A task of the database which new tasks steal from.
Robbed(d, task) ==
  /\ 0 < task.ver /\ task.ver <= d.ver
  /\ task.commits \subseteq d.commits
  /\ task.ver = d.ver => task = [d EXCEPT !.commits = task.commits]

LayerOK ==
  /\ Agree(layer, cache, index)
  /\ \A i \in Ids : layer[i] # NoTask =>
       /\ layer[i].key \in Keys
       /\ Rooted(layer[i])
       /\ pc \in {"score", "blame"}
  /\ \A t \in TaskIds : layer[t] # NoTask =>
       \/ pc = "blame" /\ Blamed(t, layer[t])
       \/ Robbed(db[t], layer[t])
  /\ pc = "blame" => \A i \in Fakes : layer[i] = NoTask

-----------------------------------------------------------------------------
\* The attempts of a key, with the order in which they are made.
AttemptsOK ==
  \A k \in Keys :
    /\ {db[t].attempt : t \in TasksOf(k)} = 0 .. Cardinality(TasksOf(k)) - 1
    /\ Cardinality(TasksOf(k)) <= MaxAttempts
    /\ \A t, u \in TasksOf(k) : t < u => /\ db[t].status \in Failed
                                         /\ db[t].attempt < db[u].attempt

\* Attempt n of k is what comes next.
Due(k, n) ==
  /\ n = Cardinality(TasksOf(k))
  /\ n < MaxAttempts
  /\ \A t \in TasksOf(k) : db[t].status \in Failed

\* The candidates on their way from the queue to the database.
QueueOK ==
  /\ \A c \in cands \union chosen : Due(c.key, c.attempt)
  /\ \A c, d \in cands \union chosen : c.key = d.key => c = d
  /\ \A t \in Triggered :
       /\ triggered[t].ver = 0 /\ triggered[t].commits = {}
       /\ triggered[t].key \in Keys
       /\ triggered[t].status \in {"pending", swarm[t]}
       /\ swarm[t] # "none"
       /\ db[t].ver = 0
       /\ Due(triggered[t].key, triggered[t].attempt)
       /\ \A u \in TasksOf(triggered[t].key) : u < t
       /\ \A c \in cands \union chosen : c.key # triggered[t].key
       /\ \A u \in Triggered : triggered[u].key = triggered[t].key => u = t

PcOK ==
  /\ cands # {} => pc = "score"
  /\ chosen # {} => pc \in {"score", "trigger"}
  /\ Triggered # {} => pc \in {"trigger", "insert", "blame"}
  /\ pc \in {"insert", "blame"} => Triggered # {}

\* A copy is to be written over the task t.
WriteOK(t, copy) ==
  /\ t \in TaskIds
  /\ swarm[t] \in Final
  /\ 0 < copy.ver /\ copy.ver <= db[t].ver
  /\ copy.ver = db[t].ver => copy = WithResult(t) /\ db[t].status = "pending"

\* What the updaters are about to do.
UpdOK ==
  /\ \A t \in msgs : swarm[t] \in Final
  /\ \A u \in Updaters :
       upd[u] # NoUpdate => WriteOK(upd[u].task, upd[u].copy)

JobsOK ==
  /\ VerdictIsJustified
  /\ \A j \in Jobs : jobs[j].status # "none" => jobs[j].kind \in JobKinds

Inv == /\ TypeOK /\ DbOK /\ IdsInOrder /\ CacheOK /\ LayerOK
       /\ AttemptsOK /\ QueueOK /\ PcOK /\ UpdOK /\ JobsOK

-----------------------------------------------------------------------------
(***************************************************************************)
(* Tasks.                                                                  *)
(***************************************************************************)
LEMMA NoTaskType == NoTask \in Tasks
  BY DEF NoTask, Tasks, Statuses, NoKey

LEMMA WithVer ==
  ASSUME NEW x \in Tasks, NEW n \in Nat
  PROVE  /\ [x EXCEPT !.ver = n] \in Tasks
         /\ [x EXCEPT !.ver = n] =
              [key |-> x.key, attempt |-> x.attempt, status |-> x.status,
               commits |-> x.commits, jobs |-> x.jobs, ver |-> n]
  BY DEF Tasks

LEMMA WithStatus ==
  ASSUME NEW x \in Tasks, NEW s \in Statuses
  PROVE  /\ [x EXCEPT !.status = s] \in Tasks
         /\ [x EXCEPT !.status = s] =
              [key |-> x.key, attempt |-> x.attempt, status |-> s,
               commits |-> x.commits, jobs |-> x.jobs, ver |-> x.ver]
  BY DEF Tasks

LEMMA WithCommits ==
  ASSUME NEW x \in Tasks, NEW b \in SUBSET Commits
  PROVE  /\ [x EXCEPT !.commits = b] \in Tasks
         /\ [x EXCEPT !.commits = b] =
              [key |-> x.key, attempt |-> x.attempt, status |-> x.status,
               commits |-> b, jobs |-> x.jobs, ver |-> x.ver]
  BY DEF Tasks

LEMMA WithJobs ==
  ASSUME NEW x \in Tasks, NEW js \in SUBSET Jobs
  PROVE  /\ [x EXCEPT !.jobs = js] \in Tasks
         /\ [x EXCEPT !.jobs = js] =
              [key |-> x.key, attempt |-> x.attempt, status |-> x.status,
               commits |-> x.commits, jobs |-> js, ver |-> x.ver]
  BY DEF Tasks

LEMMA MakeTaskType ==
  ASSUME NEW c \in CandidateType, NEW s \in Statuses
  PROVE  /\ MakeTask(c) \in Tasks
         /\ MakeTask(c) =
              [key |-> c.key, attempt |-> c.attempt, status |-> "pending",
               commits |-> {}, jobs |-> c.jobs, ver |-> 0]
         /\ [MakeTask(c) EXCEPT !.status = s] \in Tasks
         /\ [MakeTask(c) EXCEPT !.status = s] =
              [key |-> c.key, attempt |-> c.attempt, status |-> s,
               commits |-> {}, jobs |-> c.jobs, ver |-> 0]
  <1>1. MakeTask(c) =
          [key |-> c.key, attempt |-> c.attempt, status |-> "pending",
           commits |-> {}, jobs |-> c.jobs, ver |-> 0]
    BY DEF MakeTask
  <1>2. MakeTask(c) \in Tasks
    BY <1>1 DEF Tasks, CandidateType, Statuses
  <1> QED  BY <1>1, <1>2, WithStatus

\* A key names a commit.
LEMMA KeyIsSomeKey ==
  ASSUME NEW k \in Keys
  PROVE  k # NoKey /\ k.rev \in Commits
  BY NoCommitAssumption DEF Keys, NoKey

LEMMA KeyedTask ==
  ASSUME NEW x, x.key \in Keys
  PROVE  x # NoTask
  BY KeyIsSomeKey DEF NoTask

LEMMA IdFacts ==
  /\ TaskIds \subseteq Ids /\ Fakes \subseteq Ids
  /\ 0 \notin Ids
  /\ \A i \in Ids : i \in Int
  /\ \A i \in Fakes : i \notin TaskIds
  /\ \A i \in Ids : i \in TaskIds \/ i \in Fakes
  BY BoundsAssumption DEF TaskIds, Fakes, Ids

LEMMA TaskIdsFinite ==
  /\ IsFiniteSet(TaskIds)
  /\ \A S \in SUBSET TaskIds : IsFiniteSet(S) /\ Cardinality(S) \in Nat
  <1>1. IsFiniteSet(TaskIds)
    BY BoundsAssumption, FS_Interval DEF TaskIds
  <1> QED  BY <1>1, FS_Subset, FS_CardinalityType

\* A set of tasks which is not empty has a last one.
LEMMA MaxIsMember ==
  ASSUME NEW S \in SUBSET TaskIds, S # {}
  PROVE  Max(S) \in S /\ \A t \in S : t <= Max(S)
  <1> DEFINE Above(x) == {t \in S : t > x}
             All == {Above(x) : x \in S}
             Smaller == StrictSubsetOrdering(S)
  <1>1. All \subseteq FiniteSubsetsOf(S) /\ All # {}
    BY TaskIdsFinite DEF FiniteSubsetsOf
  <1>2. PICK A \in All : \A B \in All : ~(<<B, A>> \in Smaller)
    <2>1. IsWellFoundedOn(Smaller, FiniteSubsetsOf(S))
      BY FS_StrictSubsetOrderingWellFounded
    <2> HIDE DEF All, Smaller
    <2> QED  BY <1>1, <2>1, WFMin
  <1>3. PICK m \in S : A = Above(m)
    OBVIOUS
  <1>4. ASSUME NEW t \in S
        PROVE  t <= m
    <2> SUFFICES ASSUME t > m
                 PROVE  FALSE
      BY DEF TaskIds
    <2>1. \A x \in S : x \in Int
      BY DEF TaskIds
    <2>2. t \in Above(m) /\ t \notin Above(t)
      BY <2>1
    <2>3. ASSUME NEW x \in Above(t)
          PROVE  x \in Above(m)
      BY <2>1
    <2>4. <<Above(t), Above(m)>> \in Smaller
      BY <2>2, <2>3 DEF StrictSubsetOrdering
    <2> QED  BY <1>2, <1>3, <2>4
  <1>5. \E x \in S : \A y \in S : x >= y
    BY <1>4 DEF TaskIds
  <1> QED  BY <1>5 DEF Max, TaskIds

-----------------------------------------------------------------------------
(***************************************************************************)
(* The history.                                                            *)
(***************************************************************************)
LEMMA HistoryIsClosed ==
  ASSUME NEW rev \in Commits
  PROVE  /\ History(rev) \subseteq Commits
         /\ rev \in History(rev)
         /\ Closed(History(rev))
  <1>1. ASSUME NEW c \in History(rev), NEW d \in Parents[c]
        PROVE  d \in History(rev)
    BY <1>1, ParentsAssumption DEF History, Closed
  <1> QED  BY <1>1 DEF History, Closed

LEMMA HistoryOfHistory ==
  ASSUME NEW rev \in Commits, NEW c \in History(rev)
  PROVE  History(c) \subseteq History(rev)
  <1>1. History(rev) \in SUBSET Commits /\ Closed(History(rev))
    BY HistoryIsClosed
  <1> QED  BY <1>1 DEF History

\* What is in the history of a commit is the commit, or in the history of one
\* of its parents.
LEMMA HistoryStep ==
  ASSUME NEW rev \in Commits, NEW c \in History(rev), c # rev
  PROVE  \E d \in Parents[rev] : c \in History(d)
  <1> DEFINE S == {rev} \union UNION {History(d) : d \in Parents[rev]}
  <1>1. Parents[rev] \subseteq Commits
    BY ParentsAssumption
  <1>2. S \in SUBSET Commits
    BY <1>1, HistoryIsClosed
  <1>3. Closed(S)
    <2> SUFFICES ASSUME NEW x \in S, NEW d \in Parents[x]
                 PROVE  d \in S
      BY DEF Closed
    <2>1. CASE x = rev
      BY <1>1, <2>1, HistoryIsClosed
    <2>2. CASE x # rev
      BY <1>1, <2>2, HistoryIsClosed DEF Closed
    <2> QED  BY <2>1, <2>2
  <1>4. c \in S
    BY <1>2, <1>3 DEF History
  <1> QED  BY <1>4

\* Two commits are not in the history of each other.
LEMMA HistoryHasNoCycle ==
  ASSUME NEW a \in Commits, NEW b \in Commits,
         a \in History(b), b \in History(a)
  PROVE  a = b
  <1> SUFFICES ASSUME a # b
               PROVE  FALSE
    OBVIOUS
  <1> DEFINE S == {c \in Commits : a \in History(c) /\ c \in History(a)}
  <1>1. S \in SUBSET Commits /\ a \in S /\ b \in S
    BY HistoryIsClosed
  <1>2. ASSUME NEW c \in S
        PROVE  \E d \in Parents[c] : d \in S
    <2>1. PICK x \in S : x # c
      BY <1>1
    <2>2. x \in History(c)
      <3>1. a \in History(c) /\ x \in History(a)
        OBVIOUS
      <3> QED  BY <3>1, HistoryOfHistory
    <2>3. PICK d \in Parents[c] : x \in History(d)
      BY <2>1, <2>2, HistoryStep
    <2>4. d \in Commits /\ d \in History(c)
      BY ParentsAssumption, HistoryIsClosed DEF Closed
    <2>5. d \in History(a)
      BY <2>4, HistoryOfHistory
    <2>6. a \in History(d)
      <3>1. a \in History(x)
        OBVIOUS
      <3> QED  BY <3>1, <2>3, <2>4, HistoryOfHistory
    <2> QED  BY <2>4, <2>5, <2>6
  <1> HIDE DEF S
  <1> QED  BY <1>1, <1>2, HistoryAssumption

-----------------------------------------------------------------------------
(***************************************************************************)
(* Blamelists and the layer.                                               *)
(***************************************************************************)
LEMMA LookupFacts ==
  /\ \A c : GetTaskForCommit(c) = Lookup(layer, index, c)
  /\ TypeOK => \A c \in Commits : GetTaskForCommit(c) \in Ids \union {0}
  BY IdFacts DEF GetTaskForCommit, Lookup, TypeOK

\* A walk stays in the history and in the commits of one task.
LEMMA WalkFacts ==
  ASSUME NEW rev \in Commits
  PROVE  /\ Walk(rev) \subseteq History(rev)
         /\ rev \in Walk(rev)
         /\ \A c \in Walk(rev) : GetTaskForCommit(c) = GetTaskForCommit(rev)
  <1> DEFINE S == {c \in History(rev) :
                     GetTaskForCommit(c) = GetTaskForCommit(rev)}
  <1>1. S \in SUBSET Commits /\ rev \in S
    BY HistoryIsClosed
  <1>2. \A c \in S : \A d \in Parents[c] :
          GetTaskForCommit(d) = GetTaskForCommit(rev) => d \in S
    BY HistoryIsClosed DEF Closed
  <1>3. Walk(rev) \subseteq S
    BY <1>1, <1>2 DEF Walk
  <1>4. rev \in Walk(rev)
    BY DEF Walk
  <1> QED  BY <1>3, <1>4

\* What the layer shows of a task which has commits.
LEMMA ShownTask ==
  ASSUME TypeOK, DbOK, CacheOK, LayerOK,
         NEW i \in Ids, Seen(layer, cache, i) # {}
  PROVE  /\ GetTask(i) \in Tasks
         /\ GetTask(i).commits = Seen(layer, cache, i)
         /\ GetTask(i).key \in Keys
         /\ Rooted(GetTask(i))
         /\ layer[i] = NoTask => i \in TaskIds /\ Robbed(db[i], GetTask(i))
  <1>1. layer[i] \in Tasks /\ \A t \in TaskIds : cache[t] \in Tasks
    BY DEF TypeOK
  <1>2. CASE layer[i] # NoTask
    <2>1. GetTask(i) = layer[i]
      BY <1>2 DEF GetTask
    <2> QED  BY <1>1, <1>2, <2>1 DEF LayerOK, Seen
  <1>3. CASE layer[i] = NoTask
    <2>1. i \in TaskIds /\ GetTask(i) = cache[i] /\ cache[i].commits # {}
          /\ Seen(layer, cache, i) = cache[i].commits
      BY <1>3 DEF GetTask, Seen
    <2>2. CopyOf(cache[i], db[i])
      BY <2>1 DEF CacheOK
    <2>3. db[i] # NoTask
      BY <2>1, <2>2 DEF CopyOf, NoTask
    <2>4. db[i].ver > 0 /\ db[i].key \in Keys /\ Rooted(db[i])
      <3>1. db[i].ver \in Nat
        BY <2>1 DEF TypeOK, Tasks
      <3> QED  BY <2>1, <2>3, <3>1 DEF DbOK
    <2>5. cache[i].ver \in Nat /\ cache[i].ver > 0
      BY <2>1, <2>2, <2>4, <1>1 DEF CopyOf, Tasks
    <2>6. Rooted(cache[i]) /\ cache[i].key \in Keys
      BY <2>2, <2>4 DEF CopyOf, Rooted
    <2>7. cache[i].ver = db[i].ver =>
            cache[i] = [db[i] EXCEPT !.commits = cache[i].commits]
      BY <2>1, <2>2 DEF CopyOf, TypeOK, Tasks
    <2>8. Robbed(db[i], cache[i])
      BY <2>2, <2>5, <2>7 DEF CopyOf, Robbed
    <2> QED  BY <1>1, <2>1, <2>6, <2>8
  <1> QED  BY <1>2, <1>3

\* A blamelist takes the commits of one task, or of none.
LEMMA BlamelistFacts ==
  ASSUME TypeOK, DbOK, CacheOK, LayerOK, NEW rev \in Commits,
         NEW s, s = GetTaskForCommit(rev)
  PROVE  /\ Blamelist(rev) \subseteq History(rev)
         /\ rev \in Blamelist(rev)
         /\ \A c \in Blamelist(rev) : GetTaskForCommit(c) = s
         /\ s # 0 =>
              /\ s \in Ids
              /\ rev \in Seen(layer, cache, s)
              /\ Rooted([GetTask(s) EXCEPT !.commits = @ \ Blamelist(rev)])
  <1> DEFINE B == Blamelist(rev)
  <1>1. s \in Ids \union {0}
    BY LookupFacts
  <1>2. s # 0 => rev \in Seen(layer, cache, s)
    BY <1>1, LookupFacts DEF LayerOK, Agree
  <1>3. s # 0 => /\ GetTask(s) \in Tasks
                 /\ GetTask(s).commits = Seen(layer, cache, s)
                 /\ GetTask(s).key \in Keys
                 /\ Rooted(GetTask(s))
    BY <1>1, <1>2, ShownTask
  <1>4. s # 0 => \A b \in SUBSET Commits :
          Rooted([GetTask(s) EXCEPT !.commits = b]) <=>
            /\ b \subseteq History(GetTask(s).key.rev)
            /\ b # {} => GetTask(s).key.rev \in b
    BY <1>3, WithCommits DEF Rooted
  <1>5. s # 0 => GetTask(s).commits \subseteq Commits
    BY <1>3 DEF Tasks
  <1>6. CASE s # 0 /\ GetTask(s).key.rev = rev
    <2>1. B = Seen(layer, cache, s)
      BY <1>3, <1>6 DEF Blamelist
    <2>2. \A c \in B : GetTaskForCommit(c) = s
      BY <1>1, <1>3, <1>5, <1>6, <2>1, LookupFacts DEF LayerOK, Agree
    <2>3. Rooted([GetTask(s) EXCEPT !.commits = @ \ B])
      <3>1. GetTask(s).commits \ B = {}
        BY <1>3, <1>6, <2>1
      <3> QED  BY <1>4, <1>6, <3>1
    <2>4. B \subseteq History(rev)
      BY <1>3, <1>6, <2>1 DEF Rooted
    <2> QED  BY <1>1, <1>2, <1>6, <2>1, <2>2, <2>3, <2>4
  <1>7. CASE ~(s # 0 /\ GetTask(s).key.rev = rev)
    <2>1. B = {rev} \/ B = Walk(rev)
      BY <1>7 DEF Blamelist
    <2>2. /\ B \subseteq History(rev) /\ rev \in B
          /\ \A c \in B : GetTaskForCommit(c) = s
      BY <2>1, WalkFacts, HistoryIsClosed
    <2>3. ASSUME s # 0
          PROVE  Rooted([GetTask(s) EXCEPT !.commits = @ \ B])
      <3> DEFINE g == GetTask(s)
      <3>1. g.key.rev # rev /\ g.key.rev \in Commits
        BY <1>3, <1>7, <2>3, KeyIsSomeKey
      <3>2. rev \in History(g.key.rev) /\ g.key.rev \in g.commits
        BY <1>2, <1>3, <2>3 DEF Rooted
      <3>3. g.key.rev \notin B
        BY <2>2, <3>1, <3>2, HistoryHasNoCycle
      <3>4. g.commits \ B \subseteq History(g.key.rev)
        BY <1>3, <2>3 DEF Rooted
      <3> QED  BY <1>4, <1>5, <2>3, <3>2, <3>3, <3>4
    <2> QED  BY <1>1, <1>2, <2>2, <2>3
  <1> QED  BY <1>6, <1>7

\* l is the layer with a new task i, which steals from at most one other.
Extended(l, i, task) ==
  /\ l \in [Ids -> Tasks]
  /\ Agree(l, cache, index)
  /\ l[i] # NoTask
  /\ l[i] = [task EXCEPT !.commits = l[i].commits]
  /\ \A x \in Ids : l[x] # NoTask /\ l[x] # layer[x] =>
       l[x].key \in Keys /\ Rooted(l[x])
  /\ \A x \in Ids \ {i} :
       \/ l[x] = layer[x]
       \/ /\ Seen(layer, cache, x) # {}
          /\ \E b \in SUBSET Seen(layer, cache, x) :
               l[x] = [GetTask(x) EXCEPT !.commits = b]

LEMMA LayerWithFacts ==
  ASSUME TypeOK, DbOK, CacheOK, LayerOK,
         NEW i \in Ids, layer[i] = NoTask, i \in TaskIds => cache[i].commits = {},
         NEW task \in Tasks, task.key \in Keys,
         NEW l, l = LayerWith(i, task)
  PROVE  Extended(l, i, task)
  <1> DEFINE rev == task.key.rev
             B == Blamelist(rev)
             s == GetTaskForCommit(rev)
  <1>1. rev \in Commits
    BY KeyIsSomeKey
  <1>2. /\ B \subseteq History(rev) /\ rev \in B
        /\ \A c \in B : GetTaskForCommit(c) = s
        /\ s # 0 => /\ s \in Ids
                    /\ rev \in Seen(layer, cache, s)
                    /\ Rooted([GetTask(s) EXCEPT !.commits = @ \ B])
    BY <1>1, BlamelistFacts
  <1>3. B \subseteq Commits
    BY <1>1, <1>2, HistoryIsClosed
  <1>4. s # 0 => /\ GetTask(s) \in Tasks
                 /\ GetTask(s).commits = Seen(layer, cache, s)
                 /\ GetTask(s).key \in Keys
                 /\ Seen(layer, cache, s) \subseteq Commits
    BY <1>2, ShownTask DEF Tasks
  <1>5. Seen(layer, cache, i) = {}
    BY DEF Seen
  <1>6. s # i
    BY <1>2, <1>5, IdFacts
  <1>7. /\ l[i] = [task EXCEPT !.commits = B]
        /\ s # 0 => l[s] = [GetTask(s) EXCEPT !.commits = @ \ B]
        /\ \A x \in Ids : x # i /\ x # s => l[x] = layer[x]
        /\ DOMAIN l = Ids
        /\ l = [x \in Ids |-> l[x]]
    BY <1>2, <1>6 DEF LayerWith
  <1>8. /\ l[i] \in Tasks /\ l[i].commits = B /\ l[i].key = task.key
        /\ s # 0 => /\ l[s] \in Tasks
                    /\ l[s].commits = Seen(layer, cache, s) \ B
                    /\ l[s].key = GetTask(s).key
    <2>1. l[i] \in Tasks /\ l[i].commits = B /\ l[i].key = task.key
      <3>1. B \in SUBSET Commits
        BY <1>3
      <3>2. /\ [task EXCEPT !.commits = B] \in Tasks
            /\ [task EXCEPT !.commits = B] =
                 [key |-> task.key, attempt |-> task.attempt,
                  status |-> task.status, commits |-> B, jobs |-> task.jobs,
                  ver |-> task.ver]
        BY <3>1, WithCommits
      <3> HIDE DEF B, s
      <3> QED  BY <1>7, <3>2
    <2>2. ASSUME s # 0
          PROVE  /\ l[s] \in Tasks
                 /\ l[s].commits = Seen(layer, cache, s) \ B
                 /\ l[s].key = GetTask(s).key
      <3>1. GetTask(s).commits \ B \in SUBSET Commits
        BY <1>4, <2>2
      <3> DEFINE g == GetTask(s)
                 b == g.commits \ B
      <3>2. /\ [g EXCEPT !.commits = b] \in Tasks
            /\ [g EXCEPT !.commits = b] =
                 [key |-> g.key, attempt |-> g.attempt, status |-> g.status,
                  commits |-> b, jobs |-> g.jobs, ver |-> g.ver]
        <4>1. g \in Tasks /\ b \in SUBSET Commits
          BY <1>4, <2>2, <3>1
        <4> HIDE DEF g, b
        <4> QED  BY <4>1, WithCommits
      <3>3. l[s] = [g EXCEPT !.commits = b]
        BY <1>7, <2>2
      <3>4. l[s] \in Tasks /\ l[s].commits = b /\ l[s].key = g.key
        BY <3>2, <3>3
      <3> QED  BY <1>4, <2>2, <3>4
    <2> QED  BY <2>1, <2>2
  <1>9. l \in [Ids -> Tasks]
    <2>1. \A x \in Ids : layer[x] \in Tasks
      BY DEF TypeOK
    <2>2. \A x \in Ids : l[x] \in Tasks
      BY <1>2, <1>7, <1>8, <2>1, IdFacts
    <2> QED  BY <1>7, <2>2
  <1>10. /\ l[i] # NoTask
         /\ s # 0 => l[s] # NoTask
    BY <1>4, <1>8, KeyedTask
  <1>11. \A x \in Ids :
           Seen(l, cache, x) = IF x = i THEN B
                               ELSE IF x = s THEN Seen(layer, cache, s) \ B
                               ELSE Seen(layer, cache, x)
    <2> HIDE DEF B, s
    <2>1. Seen(l, cache, i) = B
      BY <1>8, <1>10 DEF Seen
    <2>2. s # 0 => Seen(l, cache, s) = Seen(layer, cache, s) \ B
      BY <1>8, <1>10 DEF Seen
    <2>3. \A x \in Ids : x # i /\ x # s =>
            Seen(l, cache, x) = Seen(layer, cache, x)
      BY <1>7 DEF Seen
    <2> QED  BY <2>1, <2>2, <2>3, IdFacts
  <1>12. Agree(l, cache, index)
    <2> SUFFICES ASSUME NEW c \in Commits
                 PROVE  \A x \in Ids :
                          Lookup(l, index, c) = x <=> c \in Seen(l, cache, x)
      BY DEF Agree
    <2>1. \A x \in Ids :
            GetTaskForCommit(c) = x <=> c \in Seen(layer, cache, x)
      BY LookupFacts DEF LayerOK, Agree
    <2>2. \A x \in Ids : c \in l[x].commits => c \in Seen(l, cache, x)
      BY DEF Seen, NoTask
    <2>3. CASE c \in B
      <3>1. \A x \in Ids : c \in Seen(l, cache, x) <=> x = i
        BY <1>2, <1>11, <2>1, <2>3
      <3>2. c \in l[i].commits
        BY <1>8, <2>3
      <3>3. Lookup(l, index, c) = i
        BY <2>2, <3>1, <3>2 DEF Lookup
      <3> QED  BY <3>1, <3>3
    <2>4. CASE c \notin B
      <3>1. \A x \in Ids : c \in Seen(l, cache, x) <=> c \in Seen(layer, cache, x)
        BY <1>5, <1>11, <2>4
      <3>2. CASE \E x \in Ids : c \in l[x].commits
        <4>1. Lookup(l, index, c) \in Ids
              /\ c \in l[Lookup(l, index, c)].commits
          BY <3>2 DEF Lookup
        <4>2. Lookup(l, index, c) = GetTaskForCommit(c)
          BY <2>1, <2>2, <3>1, <4>1
        <4> QED  BY <2>1, <3>1, <4>2
      <3>3. CASE ~\E x \in Ids : c \in l[x].commits
        <4>1. ~\E x \in Ids : c \in layer[x].commits
          <5> SUFFICES ASSUME NEW x \in Ids, c \in layer[x].commits
                       PROVE  c \in l[x].commits
            BY <3>3
          <5>1. layer[x] # NoTask
            BY DEF NoTask
          <5>2. x # i /\ Seen(layer, cache, x) = layer[x].commits
            BY <5>1 DEF Seen
          <5>3. CASE x = s
            BY <1>8, <2>4, <5>2, <5>3, IdFacts
          <5>4. CASE x # s
            BY <1>7, <5>2, <5>4
          <5> QED  BY <5>3, <5>4
        <4>2. Lookup(l, index, c) = GetTaskForCommit(c)
          BY <3>3, <4>1 DEF Lookup, GetTaskForCommit
        <4> QED  BY <2>1, <3>1, <4>2
      <3> QED  BY <3>2, <3>3
    <2> QED  BY <2>3, <2>4
  <1>13. ASSUME NEW x \in Ids, l[x] # layer[x]
         PROVE  l[x].key \in Keys /\ Rooted(l[x])
    <2>1. CASE x = i
      BY <1>2, <1>8, <2>1 DEF Rooted
    <2>2. CASE x = s
      BY <1>2, <1>4, <1>7, <1>8, <2>2, IdFacts
    <2> QED  BY <1>7, <1>13, <2>1, <2>2
  <1>14. ASSUME NEW x \in Ids \ {i}, l[x] # layer[x]
         PROVE  /\ Seen(layer, cache, x) # {}
                /\ \E b \in SUBSET Seen(layer, cache, x) :
                     l[x] = [GetTask(x) EXCEPT !.commits = b]
    <2>1. x = s /\ s # 0
      BY <1>7, <1>14, IdFacts
    <2>2. l[x] = [GetTask(x) EXCEPT !.commits = Seen(layer, cache, x) \ B]
      BY <1>4, <1>7, <2>1
    <2> QED  BY <1>2, <2>1, <2>2
  <1> QED  BY <1>7, <1>8, <1>9, <1>10, <1>12, <1>13, <1>14 DEF Extended

-----------------------------------------------------------------------------
(***************************************************************************)
(* Writes to the database, and what the cache makes of them.               *)
(***************************************************************************)
LEMMA PutFacts ==
  ASSUME db \in [TaskIds -> Tasks],
         NEW put, NEW D \in SUBSET TaskIds, DOMAIN put = D,
         \A t \in D : put[t] \in Tasks
  PROVE  /\ Put(put) \in [TaskIds -> Tasks]
         /\ \A t \in TaskIds \ D : Put(put)[t] = db[t]
         /\ \A t \in D :
              Put(put)[t] =
                [key |-> put[t].key, attempt |-> put[t].attempt,
                 status |-> put[t].status, commits |-> put[t].commits,
                 jobs |-> put[t].jobs, ver |-> put[t].ver + 1]
  <1>1. ASSUME NEW t \in D
        PROVE  /\ Put(put)[t] \in Tasks
               /\ Put(put)[t] =
                    [key |-> put[t].key, attempt |-> put[t].attempt,
                     status |-> put[t].status, commits |-> put[t].commits,
                     jobs |-> put[t].jobs, ver |-> put[t].ver + 1]
    <2> DEFINE x == put[t]
               n == x.ver + 1
    <2>1. x \in Tasks /\ n \in Nat
      BY DEF Tasks
    <2>2. /\ [x EXCEPT !.ver = n] \in Tasks
          /\ [x EXCEPT !.ver = n] =
               [key |-> x.key, attempt |-> x.attempt, status |-> x.status,
                commits |-> x.commits, jobs |-> x.jobs, ver |-> n]
      <3> HIDE DEF x, n
      <3> QED  BY <2>1, WithVer
    <2>3. Put(put)[t] = [x EXCEPT !.ver = n]
      BY DEF Put
    <2> QED  BY <2>2, <2>3
  <1>2. \A t \in TaskIds \ D : Put(put)[t] = db[t]
    BY DEF Put
  <1>3. Put(put) \in [TaskIds -> Tasks]
    <2>1. \A t \in TaskIds : Put(put)[t] \in Tasks
      BY <1>1, <1>2
    <2>2. Put(put) = [t \in TaskIds |-> Put(put)[t]]
      BY DEF Put
    <2> QED  BY <2>1, <2>2
  <1> QED  BY <1>1, <1>2, <1>3

\* insertOrUpdateTask keeps the index in step with the tasks, provided that
\* the blamelists which result are disjoint.
LEMMA InsertFacts ==
  ASSUME TypeOK, IndexAgrees,
         NEW new, NEW D \in SUBSET TaskIds, DOMAIN new = D,
         \A t \in D : new[t] \in Tasks,
         Insert(new),
         \A t, u \in TaskIds :
           t # u => cache'[t].commits \intersect cache'[u].commits = {}
  PROVE  /\ cache' \in [TaskIds -> Tasks]
         /\ index' \in [Commits -> TaskIds \union {0}]
         /\ IndexAgrees'
         /\ \A t \in TaskIds :
              cache'[t] = IF t \in D /\ new[t].ver > cache[t].ver
                          THEN new[t] ELSE cache[t]
  <1> DEFINE N == Newer(new)
  <1>1. N \subseteq D /\ \A t \in D : t \in N <=> new[t].ver > cache[t].ver
    BY DEF Newer
  <1>2. cache' = [t \in TaskIds |-> IF t \in N THEN new[t] ELSE cache[t]]
    BY DEF Insert, CacheWith
  <1>3. cache' \in [TaskIds -> Tasks]
    BY <1>1, <1>2 DEF TypeOK
  <1>4. 0 \notin TaskIds
    BY IdFacts
  <1>5. ASSUME NEW c \in Commits
        PROVE  /\ index'[c] \in TaskIds \union {0}
               /\ \A t \in TaskIds : index'[c] = t <=> c \in cache'[t].commits
    <2>1. index'[c] = IF \E t \in N : c \in new[t].commits
                      THEN CHOOSE t \in N : c \in new[t].commits
                      ELSE IF index[c] \in N THEN 0 ELSE index[c]
      BY DEF Insert, IndexWith
    <2>2. \A t \in TaskIds : index[c] = t <=> c \in cache[t].commits
      BY DEF IndexAgrees
    <2>3. index[c] \in TaskIds \union {0}
      BY DEF TypeOK
    <2>4. \A t \in TaskIds : cache'[t] = IF t \in N THEN new[t] ELSE cache[t]
      BY <1>2
    <2> HIDE DEF N
    <2>5. CASE \E t \in N : c \in new[t].commits
      <3>1. index'[c] \in N /\ c \in new[index'[c]].commits
        BY <2>1, <2>5
      <3>2. index'[c] \in TaskIds /\ c \in cache'[index'[c]].commits
        BY <1>1, <2>4, <3>1
      <3> QED  BY <3>2
    <2>6. CASE ~\E t \in N : c \in new[t].commits
      BY <1>1, <1>4, <2>1, <2>2, <2>3, <2>4, <2>6
    <2> QED  BY <2>5, <2>6
  <1>6. index' \in [Commits -> TaskIds \union {0}]
    <2>1. index' = [c \in Commits |-> index'[c]]
      BY DEF Insert, IndexWith
    <2> QED  BY <1>5, <2>1
  <1>7. IndexAgrees'
    BY <1>5 DEF IndexAgrees
  <1> QED  BY <1>1, <1>2, <1>3, <1>6, <1>7

\* The index is determined by the blamelists.
LEMMA SameIndex ==
  ASSUME TypeOK, IndexAgrees, IndexAgrees',
         index' \in [Commits -> TaskIds \union {0}],
         \A t \in TaskIds : cache'[t].commits = cache[t].commits
  PROVE  index' = index
  <1>1. index \in [Commits -> TaskIds \union {0}]
    BY DEF TypeOK
  <1>2. ASSUME NEW c \in Commits
        PROVE  index'[c] = index[c]
    <2>1. index[c] \in TaskIds \union {0} /\ index'[c] \in TaskIds \union {0}
      BY <1>1
    <2>2. \A t \in TaskIds : index'[c] = t <=> index[c] = t
      BY DEF IndexAgrees
    <2> QED  BY <2>1, <2>2
  <1> QED  BY <1>1, <1>2

\* taskCache.Update brings copies of tasks, and no news of blamelists.
LEMMA UpdateFacts ==
  ASSUME TypeOK, DbOK, CacheOK, NEW arrived, Update(arrived)
  PROVE  /\ cache' \in [TaskIds -> Tasks]
         /\ index' = index
         /\ IndexAgrees'
         /\ \A t \in TaskIds : CopyOf(cache'[t], db[t])
  <1> DEFINE new == [t \in arrived |-> db[t]]
  <1>1. arrived \in SUBSET TaskIds /\ Insert(new)
    BY DEF Update, Stale
  <1>2. /\ db \in [TaskIds -> Tasks] /\ cache \in [TaskIds -> Tasks]
        /\ \A t \in arrived : new[t] \in Tasks /\ new[t] = db[t]
        /\ DOMAIN new = arrived
    BY <1>1 DEF TypeOK
  <1>3. \A t \in TaskIds : cache'[t] = db[t] \/ cache'[t] = cache[t]
    BY <1>1, <1>2 DEF Insert, CacheWith, Newer
  <1>4. \A t \in TaskIds : CopyOf(db[t], db[t]) /\ CopyOf(cache[t], db[t])
    BY <1>2 DEF CopyOf, CacheOK, Tasks
  <1>5. \A t \in TaskIds : CopyOf(cache'[t], db[t])
    BY <1>3, <1>4
  <1>6. \A t \in TaskIds : /\ cache'[t].commits = db[t].commits
                           /\ cache[t].commits = db[t].commits
    BY <1>4, <1>5 DEF CopyOf
  <1>7. \A t, u \in TaskIds :
          t # u => cache'[t].commits \intersect cache'[u].commits = {}
    BY <1>6 DEF DbOK, BlamelistsDisjoint
  <1>8. IndexAgrees
    BY DEF CacheOK
  <1>9. /\ cache' \in [TaskIds -> Tasks]
        /\ index' \in [Commits -> TaskIds \union {0}]
        /\ IndexAgrees'
    <2> HIDE DEF new
    <2> QED  BY <1>1, <1>2, <1>7, <1>8, InsertFacts
  <1>10. index' = index
    BY <1>6, <1>8, <1>9, SameIndex
  <1> QED  BY <1>5, <1>9, <1>10

-----------------------------------------------------------------------------
(***************************************************************************)
(* Quiet steps: what the updaters write, and the jobs which use a task.    *)
(***************************************************************************)
Quiet ==
  \A t \in TaskIds :
    \/ db'[t] = db[t]
    \/ /\ db[t].ver > 0 /\ db'[t].ver = db[t].ver + 1
       /\ db'[t].key = db[t].key /\ db'[t].attempt = db[t].attempt
       /\ db'[t].commits = db[t].commits
       /\ \/ db'[t].status = db[t].status
          \/ /\ db[t].status = "pending" /\ db'[t].status = swarm[t]
             /\ swarm[t] \in Final

\* Swarming tasks begin, and end.
SwarmStep ==
  \A t \in TaskIds :
    \/ swarm'[t] = swarm[t]
    \/ swarm[t] \in {"none", "pending"} /\ swarm'[t] # "none"

LEMMA SameTasks ==
  ASSUME TypeOK, Quiet
  PROVE  /\ \A k : TasksOf(k)' = TasksOf(k)
         /\ \A t \in TaskIds : db[t].status \in Final =>
                                 db'[t].status = db[t].status
         /\ \A t \in TaskIds : /\ db'[t].attempt = db[t].attempt
                               /\ db'[t].commits = db[t].commits
                               /\ db'[t].key = db[t].key
  <1>1. \A t \in TaskIds : db[t].ver \in Nat
    BY DEF TypeOK, Tasks
  <1>2. \A t \in TaskIds : db'[t].ver > 0 <=> db[t].ver > 0
    BY <1>1 DEF Quiet
  <1>3. \A t \in TaskIds : db'[t].key = db[t].key
    BY DEF Quiet
  <1> QED  BY <1>2, <1>3 DEF TasksOf, InDB, Quiet, Final

LEMMA StillDue ==
  ASSUME TypeOK, Quiet, NEW k, NEW n, Due(k, n)
  PROVE  Due(k, n)'
  <1>1. \A t \in TasksOf(k) : t \in TaskIds
    BY DEF TasksOf
  <1>2. TasksOf(k)' = TasksOf(k)
    BY SameTasks
  <1>3. \A t \in TasksOf(k)' : db'[t].status \in Failed
    BY <1>1, <1>2, SameTasks DEF Due, Failed, Final
  <1> QED  BY <1>2, <1>3 DEF Due

LEMMA QuietAttempts ==
  ASSUME TypeOK, AttemptsOK, Quiet
  PROVE  AttemptsOK'
  <1> SUFFICES ASSUME NEW k \in Keys
               PROVE  /\ {db'[t].attempt : t \in TasksOf(k)'} =
                           0 .. Cardinality(TasksOf(k)') - 1
                      /\ Cardinality(TasksOf(k)') <= MaxAttempts
                      /\ \A t, u \in TasksOf(k)' :
                           t < u => /\ db'[t].status \in Failed
                                    /\ db'[t].attempt < db'[u].attempt
    BY DEF AttemptsOK
  <1>1. TasksOf(k)' = TasksOf(k) /\ \A t \in TasksOf(k) : t \in TaskIds
    BY SameTasks DEF TasksOf
  <1>2. {db'[t].attempt : t \in TasksOf(k)} = {db[t].attempt : t \in TasksOf(k)}
    BY <1>1, SameTasks
  <1>3. \A t, u \in TasksOf(k) :
           t < u => /\ db'[t].status \in Failed
                    /\ db'[t].attempt < db'[u].attempt
    BY <1>1, SameTasks DEF AttemptsOK, Failed, Final
  <1> QED  BY <1>1, <1>2, <1>3 DEF AttemptsOK

LEMMA QuietDb ==
  ASSUME TypeOK, TypeOK', DbOK, AttemptsOK, Quiet, SwarmStep
  PROVE  DbOK' /\ AttemptsOK'
  <1>1. BlamelistsDisjoint'
    BY SameTasks DEF DbOK, BlamelistsDisjoint
  <1>2. ASSUME NEW t \in TaskIds
        PROVE  /\ db'[t].ver = 0 => db'[t] = NoTask
               /\ db'[t].ver > 0 => db'[t].key \in Keys
               /\ swarm'[t] = "none" => db'[t].ver = 0
               /\ db'[t].status \in {"pending", swarm'[t]}
               /\ Rooted(db'[t])
    <2>1. db[t] \in Tasks /\ db'[t] \in Tasks
      BY DEF TypeOK
    <2>2. /\ db[t].ver = 0 => db[t] = NoTask
          /\ db[t].ver > 0 => db[t].key \in Keys
          /\ swarm[t] = "none" => db[t].ver = 0
          /\ db[t].status \in {"pending", swarm[t]}
          /\ Rooted(db[t])
      BY DEF DbOK
    <2>3. db'[t].status \in {"pending", swarm'[t]}
      BY <2>1, <2>2 DEF Quiet, SwarmStep, Tasks, Statuses, Final
    <2>4. Rooted(db'[t])
      BY <2>2, SameTasks DEF Rooted
    <2>5. /\ db'[t].ver = 0 => db'[t] = NoTask
          /\ db'[t].ver > 0 => db'[t].key \in Keys
      BY <2>1, <2>2 DEF Quiet, Tasks
    <2>6. swarm'[t] = "none" => db'[t].ver = 0
      BY <2>1, <2>2 DEF Quiet, SwarmStep, Tasks
    <2> QED  BY <2>3, <2>4, <2>5, <2>6
  <1>3. DbOK'
    BY <1>1, <1>2 DEF DbOK
  <1>4. AttemptsOK'
    BY QuietAttempts
  <1> QED  BY <1>3, <1>4

\* Copies stay copies.
LEMMA QuietCopies ==
  ASSUME TypeOK, Quiet, NEW t \in TaskIds, NEW x \in Tasks
  PROVE  /\ CopyOf(x, db[t]) => CopyOf(x, db'[t])
         /\ Robbed(db[t], x) => Robbed(db'[t], x)
  <1>1. db[t] \in Tasks
    BY DEF TypeOK
  <1> QED  BY <1>1 DEF Quiet, CopyOf, Robbed, Tasks

\* Every change of a task in the database has a version of its own.
NewVersions ==
  \A t \in TaskIds : db'[t] = db[t] \/ db'[t].ver > db[t].ver

LEMMA QuietVersions ==
  ASSUME TypeOK, Quiet
  PROVE  NewVersions
  BY DEF TypeOK, Tasks, Quiet, NewVersions

LEMMA QueueFrame ==
  ASSUME TypeOK, QueueOK, Quiet, SwarmStep, UNCHANGED triggered,
         cands' \union chosen' \subseteq cands \union chosen
  PROVE  QueueOK'
  <1>1. Triggered' = Triggered /\ \A t \in Triggered : t \in TaskIds
    BY DEF Triggered
  <1>2. \A c \in cands' \union chosen' : Due(c.key, c.attempt)'
    BY StillDue DEF QueueOK
  <1>3. \A t \in Triggered :
          /\ Due(triggered[t].key, triggered[t].attempt)'
          /\ TasksOf(triggered[t].key)' = TasksOf(triggered[t].key)
    BY StillDue, SameTasks DEF QueueOK
  <1>4. \A t \in Triggered :
          /\ swarm'[t] # "none" /\ db'[t].ver = 0
          /\ triggered[t].status \in {"pending", swarm'[t]}
    <2> SUFFICES ASSUME NEW t \in Triggered
                 PROVE  /\ swarm'[t] # "none" /\ db'[t].ver = 0
                        /\ triggered[t].status \in {"pending", swarm'[t]}
      OBVIOUS
    <2>1. /\ swarm[t] # "none" /\ db[t].ver = 0
          /\ triggered[t].status \in {"pending", swarm[t]}
      BY DEF QueueOK
    <2> QED  BY <1>1, <2>1 DEF Quiet, SwarmStep
  <1> QED  BY <1>1, <1>2, <1>3, <1>4 DEF QueueOK

\* An empty layer shows the cache.
LEMMA LayerEmpty ==
  ASSUME TypeOK', IndexAgrees', layer' = NoLayer
  PROVE  LayerOK'
  <1>1. \A i \in Ids : layer'[i] = NoTask
    BY DEF NoLayer
  <1>2. ASSUME NEW c \in Commits, NEW i \in Ids
        PROVE  Lookup(layer', index', c) = i <=> c \in Seen(layer', cache', i)
    <2>1. Lookup(layer', index', c) = index'[c]
      BY <1>1 DEF Lookup, NoTask
    <2>2. Seen(layer', cache', i) =
            IF i \in TaskIds THEN cache'[i].commits ELSE {}
      BY <1>1 DEF Seen
    <2>3. index'[c] \in TaskIds \union {0}
      BY DEF TypeOK
    <2> QED  BY <2>1, <2>2, <2>3, IdFacts DEF IndexAgrees
  <1>3. Agree(layer', cache', index')
    BY <1>2 DEF Agree
  <1> QED  BY <1>1, <1>3, IdFacts DEF LayerOK

LEMMA LayerIsEmpty ==
  ASSUME TypeOK, LayerOK, pc \notin {"score", "blame"}
  PROVE  layer = NoLayer
  <1>1. \A i \in Ids : layer[i] = NoTask
    BY DEF LayerOK
  <1> QED  BY <1>1 DEF TypeOK, NoLayer

LEMMA LayerFrame ==
  ASSUME TypeOK, TypeOK', LayerOK, Quiet,
         UNCHANGED <<layer, pc, triggered, index>>,
         \A t \in TaskIds : cache'[t].commits = cache[t].commits
  PROVE  LayerOK'
  <1>1. \A i \in Ids : Seen(layer', cache', i) = Seen(layer, cache, i)
    BY DEF Seen
  <1>2. \A c : Lookup(layer', index', c) = Lookup(layer, index, c)
    BY DEF Lookup
  <1>3. Agree(layer', cache', index')
    BY <1>1, <1>2 DEF LayerOK, Agree
  <1>4. ASSUME NEW t \in TaskIds, layer'[t] # NoTask
        PROVE  \/ pc' = "blame" /\ Blamed(t, layer[t])'
               \/ Robbed(db'[t], layer'[t])
    <2>1. layer[t] \in Tasks
      BY IdFacts DEF TypeOK
    <2>2. Blamed(t, layer[t])' = Blamed(t, layer[t])
      BY DEF Blamed, Triggered
    <2> QED  BY <1>4, <2>1, <2>2, QuietCopies DEF LayerOK
  <1> QED  BY <1>3, <1>4 DEF LayerOK

LEMMA UpdFrame ==
  ASSUME TypeOK, TypeOK', UpdOK, NewVersions, SwarmStep,
         \A u \in Updaters : upd'[u] \in {upd[u], NoUpdate},
         \A t \in msgs' : t \in msgs \/ swarm'[t] \in Final
  PROVE  UpdOK'
  <1>1. \A t \in TaskIds : swarm[t] \in Final => swarm'[t] = swarm[t]
    BY DEF SwarmStep, Final
  <1>2. \A t \in msgs' : swarm'[t] \in Final
    BY <1>1 DEF UpdOK, TypeOK
  <1>3. ASSUME NEW t, NEW copy, copy.ver \in Nat, WriteOK(t, copy)
        PROVE  WriteOK(t, copy)'
    <2>1. t \in TaskIds /\ swarm'[t] = swarm[t]
      BY <1>1, <1>3 DEF WriteOK
    <2>2. db[t].ver \in Nat /\ db'[t].ver \in Nat
      BY <2>1 DEF TypeOK, Tasks
    <2>3. copy.ver <= db'[t].ver /\ (copy.ver = db'[t].ver => db'[t] = db[t])
      BY <1>3, <2>1, <2>2 DEF WriteOK, NewVersions
    <2>4. db'[t] = db[t] => WithResult(t)' = WithResult(t)
      BY <2>1 DEF WithResult
    <2> QED  BY <1>3, <2>1, <2>3, <2>4 DEF WriteOK
  <1>4. ASSUME NEW u \in Updaters, upd'[u] # NoUpdate
        PROVE  WriteOK(upd[u].task, upd[u].copy)'
    <2>1. upd'[u] = upd[u]
      BY <1>4
    <2>2. PICK t, copy : t = upd[u].task /\ copy = upd[u].copy
      OBVIOUS
    <2>3. copy.ver \in Nat /\ WriteOK(t, copy)
      BY <1>4, <2>1, <2>2 DEF UpdOK, TypeOK, Tasks
    <2>4. WriteOK(t, copy)'
      BY <1>3, <2>3
    <2> QED  BY <2>1, <2>2, <2>4
  <1> QED  BY <1>2, <1>4 DEF UpdOK

LEMMA JobsFrame ==
  ASSUME TypeOK, JobsOK, Quiet, UNCHANGED jobs
  PROVE  JobsOK'
  <1>1. ASSUME NEW j \in Jobs
        PROVE  LET tasks == TasksOf(KeyOf(j))'
               IN  /\ jobs'[j].status = "success" =>
                        \E t \in tasks : db'[t].status = "success"
                   /\ jobs'[j].status \in Failed =>
                        /\ Cardinality(tasks) = MaxAttempts
                        /\ \A t \in tasks : db'[t].status \in Failed
    <2> DEFINE tasks == TasksOf(KeyOf(j))
    <2>1. KeyOf(j)' = KeyOf(j)
      BY DEF KeyOf
    <2>2. TasksOf(KeyOf(j))' = tasks
      BY <2>1, SameTasks
    <2>3. /\ jobs[j].status = "success" =>
               \E t \in tasks : db[t].status = "success"
          /\ jobs[j].status \in Failed =>
               /\ Cardinality(tasks) = MaxAttempts
               /\ \A t \in tasks : db[t].status \in Failed
      BY DEF JobsOK, VerdictIsJustified
    <2>4. \A t \in tasks :
            t \in TaskIds /\ (db[t].status \in Final =>
                                db'[t].status = db[t].status)
      BY SameTasks DEF TasksOf
    <2> HIDE DEF tasks
    <2> QED  BY <2>2, <2>3, <2>4 DEF Final, Failed
  <1> QED  BY <1>1 DEF JobsOK, VerdictIsJustified

\* What the actors share, in a quiet step.
LEMMA SharedFrame ==
  ASSUME Inv, TypeOK', Quiet, SwarmStep, UNCHANGED jobs, IndexAgrees',
         \A t \in TaskIds : CopyOf(cache'[t], db'[t])
  PROVE  DbOK' /\ CacheOK' /\ AttemptsOK' /\ JobsOK'
  <1>1. DbOK' /\ AttemptsOK'
    BY QuietDb DEF Inv
  <1>2. CacheOK'
    BY DEF CacheOK
  <1>3. JobsOK'
    BY JobsFrame DEF Inv
  <1> QED  BY <1>1, <1>2, <1>3

LEMMA CacheFrame ==
  ASSUME TypeOK, CacheOK, Quiet, UNCHANGED cached
  PROVE  IndexAgrees' /\ \A t \in TaskIds : CopyOf(cache'[t], db'[t])
  <1>1. IndexAgrees'
    BY DEF CacheOK, IndexAgrees, cached
  <1>2. ASSUME NEW t \in TaskIds
        PROVE  CopyOf(cache'[t], db'[t])
    <2>1. cache' = cache /\ cache[t] \in Tasks
      BY DEF cached, TypeOK
    <2> QED  BY <2>1, QuietCopies DEF CacheOK
  <1> QED  BY <1>1, <1>2

LEMMA Unchanged ==
  /\ UNCHANGED db => Quiet /\ NewVersions
  /\ UNCHANGED swarm => SwarmStep
  BY DEF Quiet, NewVersions, SwarmStep

\* What a step of the main loop leaves alone when it changes neither the
\* database nor the cache.
LEMMA LoopFrame ==
  ASSUME Inv, TypeOK', UNCHANGED <<db, cached, jobs, swarm>>
  PROVE  DbOK' /\ CacheOK' /\ AttemptsOK' /\ JobsOK' /\ IdsInOrder' /\ IndexAgrees'
  <1>1. Quiet /\ SwarmStep
    BY Unchanged
  <1>2. IndexAgrees' /\ \A t \in TaskIds : CopyOf(cache'[t], db'[t])
    BY <1>1, CacheFrame DEF Inv
  <1>3. IdsInOrder'
    BY DEF Inv, IdsInOrder
  <1> QED  BY <1>1, <1>2, <1>3, SharedFrame

-----------------------------------------------------------------------------
(***************************************************************************)
(* The steps of people, of Swarming and of the updaters.                   *)
(***************************************************************************)
LEMMA NewJobStep ==
  ASSUME Inv, NEW j \in Jobs, NEW kind \in JobKinds, NewJob(j, kind)
  PROVE  Inv'
  <1> USE DEF NewJob
  <1>1. jobs[j].status = "none"
    BY DEF First
  <1>2. TypeOK'
    BY DEF Inv, TypeOK, loop, cached
  <1>3. Quiet /\ SwarmStep /\ NewVersions
    BY Unchanged
  <1>4. DbOK' /\ AttemptsOK'
    BY <1>2, <1>3, QuietDb DEF Inv
  <1>5. CacheOK'
    BY <1>3, CacheFrame DEF Inv, CacheOK
  <1>6. LayerOK'
    <2>1. \A t \in TaskIds : cache'[t].commits = cache[t].commits
      BY DEF cached
    <2> QED  BY <1>2, <1>3, <2>1, LayerFrame DEF Inv, loop, cached
  <1>7. QueueOK'
    BY <1>3, QueueFrame DEF Inv, loop
  <1>8. PcOK' /\ IdsInOrder'
    BY DEF Inv, PcOK, IdsInOrder, loop, Triggered
  <1>9. UpdOK'
    BY <1>2, <1>3, UpdFrame DEF Inv
  <1>10. JobsOK'
    <2>1. ASSUME NEW i \in Jobs
          PROVE  LET tasks == TasksOf(KeyOf(i))'
                 IN  /\ jobs'[i].status = "success" =>
                          \E t \in tasks : db'[t].status = "success"
                     /\ jobs'[i].status \in Failed =>
                          /\ Cardinality(tasks) = MaxAttempts
                          /\ \A t \in tasks : db'[t].status \in Failed
      <3>1. CASE i = j
        BY <3>1 DEF Inv, TypeOK, Failed
      <3>2. CASE i # j
        <4>1. jobs'[i] = jobs[i]
          BY <3>2 DEF Inv, TypeOK
        <4>2. TasksOf(KeyOf(i))' = TasksOf(KeyOf(i))
          BY <4>1 DEF KeyOf, TasksOf, InDB
        <4> QED  BY <4>1, <4>2 DEF Inv, JobsOK, VerdictIsJustified
      <3> QED  BY <3>1, <3>2
    <2>2. \A i \in Jobs : jobs'[i].status # "none" => jobs'[i].kind \in JobKinds
      BY DEF Inv, TypeOK, JobsOK
    <2> QED  BY <2>1, <2>2 DEF JobsOK, VerdictIsJustified
  <1> QED  BY <1>2, <1>4, <1>5, <1>6, <1>7, <1>8, <1>9, <1>10 DEF Inv

\* The updaters and Swarming, which leave the main loop alone.
LEMMA OutsideFrame ==
  ASSUME Inv, TypeOK', Quiet, SwarmStep, UNCHANGED <<jobs, loop, index>>,
         IndexAgrees', \A t \in TaskIds : CopyOf(cache'[t], db'[t]),
         IdsInOrder', UpdOK'
  PROVE  Inv'
  <1>1. DbOK' /\ CacheOK' /\ AttemptsOK' /\ JobsOK'
    BY SharedFrame
  <1>2. LayerOK'
    <2>1. \A t \in TaskIds : cache'[t].commits = cache[t].commits
      BY SameTasks DEF Inv, CacheOK, CopyOf
    <2> QED  BY <2>1, LayerFrame DEF Inv, loop
  <1>3. QueueOK'
    BY QueueFrame DEF Inv, loop
  <1>4. PcOK'
    BY DEF Inv, PcOK, loop, Triggered
  <1> QED  BY <1>1, <1>2, <1>3, <1>4 DEF Inv

LEMMA SwarmingFinishesStep ==
  ASSUME Inv, NEW t \in TaskIds, NEW result \in Results,
         SwarmingFinishes(t, result)
  PROVE  Inv'
  <1> USE DEF SwarmingFinishes
  <1>1. result \in Final
    BY ResultsAssumption DEF Final
  <1>2. TypeOK'
    BY <1>1 DEF Inv, TypeOK, loop, cached, Statuses
  <1>3. SwarmStep
    BY <1>1 DEF Inv, TypeOK, SwarmStep, Final
  <1>4. Quiet /\ NewVersions
    BY Unchanged
  <1>5. IdsInOrder'
    BY <1>1 DEF Inv, TypeOK, IdsInOrder, Final
  <1>6. UpdOK'
    <2>1. \A x \in msgs' : x \in msgs \/ swarm'[x] \in Final
      BY <1>1 DEF Inv, TypeOK
    <2> QED  BY <1>2, <1>3, <1>4, <2>1, UpdFrame DEF Inv
  <1>7. IndexAgrees' /\ \A x \in TaskIds : CopyOf(cache'[x], db'[x])
    BY <1>4, CacheFrame DEF Inv
  <1> QED  BY <1>2, <1>3, <1>4, <1>5, <1>6, <1>7, OutsideFrame DEF cached

\* An updater reads a task whose result is missing.
LEMMA ReadFacts ==
  ASSUME TypeOK, DbOK, UpdOK, NEW u \in Updaters, NEW t \in TaskIds, NEW n,
         swarm[t] \in Final, NeedsResult(t), Read(u, t, n),
         UNCHANGED <<db, swarm>>, msgs' \subseteq msgs
  PROVE  /\ UpdOK'
         /\ n \in 0 .. NumRetries - 1 =>
              upd' \in [Updaters -> [task : TaskIds \union {0}, copy : Tasks,
                                     tries : 0 .. NumRetries - 1]]
  <1>1. db[t] \in Tasks /\ db[t].ver > 0 /\ db[t].status = "pending"
    BY DEF TypeOK, DbOK, NeedsResult, InDB
  <1>2. /\ [db[t] EXCEPT !.status = swarm[t]] \in Tasks
        /\ [db[t] EXCEPT !.status = swarm[t]] =
             [key |-> db[t].key, attempt |-> db[t].attempt,
              status |-> swarm[t], commits |-> db[t].commits,
              jobs |-> db[t].jobs, ver |-> db[t].ver]
    <2>1. swarm[t] \in Statuses
      BY DEF Statuses
    <2> QED  BY <1>1, <2>1, WithStatus
  <1>3. PICK copy : copy = WithResult(t)
    OBVIOUS
  <1>4. copy \in Tasks /\ copy.ver = db[t].ver /\ db[t].ver \in Nat
    BY <1>1, <1>2, <1>3 DEF WithResult, Tasks
  <1>5. upd' = [upd EXCEPT ![u] = [task |-> t, copy |-> copy, tries |-> n]]
    BY <1>3 DEF Read
  <1>6. WriteOK(t, copy)'
    BY <1>1, <1>3, <1>4 DEF WriteOK, WithResult
  <1>7. ASSUME NEW x \in Updaters, upd'[x] # NoUpdate
        PROVE  WriteOK(upd[x].task, upd[x].copy)'
    <2>1. CASE x = u
      <3>1. upd'[x].task = t /\ upd'[x].copy = copy
        BY <1>5, <2>1 DEF TypeOK
      <3> QED  BY <1>6, <3>1
    <2>2. CASE x # u
      <3>1. upd'[x] = upd[x]
        BY <1>5, <2>2 DEF TypeOK
      <3>2. WriteOK(upd[x].task, upd[x].copy)
        BY <1>7, <3>1 DEF UpdOK
      <3> QED  BY <3>1, <3>2 DEF WriteOK, WithResult
    <2> QED  BY <2>1, <2>2
  <1>8. UpdOK'
    BY <1>7 DEF UpdOK
  <1>9. n \in 0 .. NumRetries - 1 =>
          upd' \in [Updaters -> [task : TaskIds \union {0}, copy : Tasks,
                                 tries : 0 .. NumRetries - 1]]
    BY <1>4, <1>5 DEF TypeOK
  <1> QED  BY <1>8, <1>9

LEMMA PubSubStep ==
  ASSUME Inv, NEW t \in TaskIds, HandleSwarmingPubSub(t)
  PROVE  Inv'
  <1> USE DEF HandleSwarmingPubSub
  <1>1. swarm[t] \in Final
    BY DEF Inv, UpdOK
  <1>2. 0 \in 0 .. NumRetries - 1
    BY BoundsAssumption
  <1>3. Quiet /\ SwarmStep /\ NewVersions
    BY Unchanged
  <1>4. msgs' \subseteq msgs /\ faults' \in 0 .. MaxFaults
    BY BoundsAssumption DEF Inv, TypeOK, Fault
  <1>5. /\ UpdOK'
        /\ upd' \in [Updaters -> [task : TaskIds \union {0}, copy : Tasks,
                                  tries : 0 .. NumRetries - 1]]
    <2>1. CASE NeedsResult(t) /\ Read("pubsub", t, 0)
      <3>1. "pubsub" \in Updaters
        BY DEF Updaters
      <3> QED  BY <1>1, <1>2, <1>4, <2>1, <3>1, ReadFacts DEF Inv
    <2>2. CASE UNCHANGED upd
      <3>1. upd' \in [Updaters -> [task : TaskIds \union {0}, copy : Tasks,
                                   tries : 0 .. NumRetries - 1]]
        BY <2>2 DEF Inv, TypeOK
      <3>2. UpdOK'
        BY <1>4, <2>2 DEF Inv, UpdOK, WriteOK, WithResult
      <3> QED  BY <3>1, <3>2
    <2> QED  BY <2>1, <2>2
  <1>6. TypeOK'
    BY <1>4, <1>5 DEF Inv, TypeOK, loop, cached
  <1>7. IdsInOrder'
    BY DEF Inv, IdsInOrder
  <1>8. IndexAgrees' /\ \A x \in TaskIds : CopyOf(cache'[x], db'[x])
    BY <1>3, CacheFrame DEF Inv
  <1> QED  BY <1>3, <1>5, <1>6, <1>7, <1>8, OutsideFrame DEF cached

LEMMA UpdateUnfinishedTaskStep ==
  ASSUME Inv, NEW t \in TaskIds, UpdateUnfinishedTask(t)
  PROVE  Inv'
  <1> USE DEF UpdateUnfinishedTask
  <1>1. 0 \in 0 .. NumRetries - 1
    BY BoundsAssumption
  <1>2. Quiet /\ SwarmStep /\ NewVersions
    BY Unchanged
  <1>3. /\ cache' \in [TaskIds -> Tasks]
        /\ index' = index
        /\ IndexAgrees'
        /\ \A x \in TaskIds : CopyOf(cache'[x], db'[x])
    BY UpdateFacts DEF Inv
  <1>4. /\ UpdOK'
        /\ upd' \in [Updaters -> [task : TaskIds \union {0}, copy : Tasks,
                                  tries : 0 .. NumRetries - 1]]
    <2>1. CASE NeedsResult(t)
      <3>1. "poll" \in Updaters
        BY DEF Updaters
      <3> QED  BY <1>1, <2>1, <3>1, ReadFacts DEF Inv
    <2>2. CASE ~NeedsResult(t)
      <3>1. upd' \in [Updaters -> [task : TaskIds \union {0}, copy : Tasks,
                                   tries : 0 .. NumRetries - 1]]
        BY <2>2 DEF Inv, TypeOK
      <3>2. UpdOK'
        BY <2>2 DEF Inv, UpdOK, WriteOK, WithResult
      <3> QED  BY <3>1, <3>2
    <2> QED  BY <2>1, <2>2
  <1>5. TypeOK'
    BY <1>3, <1>4 DEF Inv, TypeOK, loop
  <1>6. IdsInOrder'
    BY DEF Inv, IdsInOrder
  <1> QED  BY <1>2, <1>3, <1>4, <1>5, <1>6, OutsideFrame

LEMMA EndUpdateFacts ==
  ASSUME TypeOK, DbOK, CacheOK, NEW u \in Updaters, NEW ok, EndUpdate(u, ok)
  PROVE  /\ cache' \in [TaskIds -> Tasks]
         /\ index' = index
         /\ IndexAgrees'
         /\ \A t \in TaskIds : CopyOf(cache'[t], db[t])
         /\ \A x \in Updaters : upd'[x] \in {upd[x], NoUpdate}
         /\ upd' \in [Updaters -> [task : TaskIds \union {0}, copy : Tasks,
                                   tries : 0 .. NumRetries - 1]]
         /\ msgs' \subseteq msgs
  <1>1. NoUpdate \in [task : TaskIds \union {0}, copy : Tasks,
                      tries : 0 .. NumRetries - 1]
    BY BoundsAssumption, NoTaskType DEF NoUpdate
  <1>2. /\ \A x \in Updaters : upd'[x] \in {upd[x], NoUpdate}
        /\ upd' \in [Updaters -> [task : TaskIds \union {0}, copy : Tasks,
                                  tries : 0 .. NumRetries - 1]]
    BY <1>1 DEF EndUpdate, TypeOK
  <1>3. CASE \E arrived \in SUBSET Stale : Update(arrived)
    BY <1>2, <1>3, UpdateFacts DEF EndUpdate
  <1>4. CASE UNCHANGED cached
    <2>1. cache' = cache /\ index' = index
      BY <1>4 DEF cached
    <2> QED  BY <1>2, <2>1 DEF EndUpdate, TypeOK, CacheOK, IndexAgrees
  <1> QED  BY <1>3, <1>4 DEF EndUpdate

\* What WriteTask writes: the result, on a task which nobody has changed.
LEMMA WriteFacts ==
  ASSUME TypeOK, DbOK, UpdOK, NEW u \in Updaters, upd[u] # NoUpdate,
         upd[u].copy.ver = db[upd[u].task].ver,
         db' = Put([x \in {upd[u].task} |-> upd[u].copy])
  PROVE  /\ Quiet
         /\ db' \in [TaskIds -> Tasks]
         /\ \A x \in TaskIds \ {upd[u].task} : db'[x] = db[x]
         /\ upd[u].task \in TaskIds
         /\ swarm[upd[u].task] \in Final
         /\ db[upd[u].task].status = "pending"
         /\ InDB(upd[u].task)
         /\ db'[upd[u].task].status = swarm[upd[u].task]
         /\ db'[upd[u].task].ver > 0
  <1>1. PICK t, copy : t = upd[u].task /\ copy = upd[u].copy
    OBVIOUS
  <1>2. /\ t \in TaskIds /\ swarm[t] \in Final
        /\ 0 < copy.ver /\ copy = [db[t] EXCEPT !.status = swarm[t]]
        /\ db[t].status = "pending" /\ copy.ver = db[t].ver
    BY <1>1 DEF UpdOK, WriteOK, WithResult
  <1>3. db[t] \in Tasks /\ swarm[t] \in Statuses
    BY <1>2 DEF TypeOK, Statuses
  <1>4. copy \in Tasks
        /\ copy = [key |-> db[t].key, attempt |-> db[t].attempt,
                   status |-> swarm[t], commits |-> db[t].commits,
                   jobs |-> db[t].jobs, ver |-> db[t].ver]
    <2>1. /\ [db[t] EXCEPT !.status = swarm[t]] \in Tasks
          /\ [db[t] EXCEPT !.status = swarm[t]] =
               [key |-> db[t].key, attempt |-> db[t].attempt,
                status |-> swarm[t], commits |-> db[t].commits,
                jobs |-> db[t].jobs, ver |-> db[t].ver]
      BY <1>3, WithStatus
    <2> QED  BY <1>2, <2>1
  <1>5. PICK put : put = [x \in {t} |-> copy]
    OBVIOUS
  <1>6. db \in [TaskIds -> Tasks] /\ {t} \in SUBSET TaskIds
        /\ DOMAIN put = {t} /\ \A x \in {t} : put[x] \in Tasks
    BY <1>2, <1>4, <1>5 DEF TypeOK
  <1>7. db' = Put(put)
    BY <1>1, <1>5
  <1>8. /\ db' \in [TaskIds -> Tasks]
        /\ \A x \in TaskIds \ {t} : db'[x] = db[x]
        /\ db'[t] = [key |-> put[t].key, attempt |-> put[t].attempt,
                     status |-> put[t].status, commits |-> put[t].commits,
                     jobs |-> put[t].jobs, ver |-> put[t].ver + 1]
    <2>1. PICK D : D = {t}
      OBVIOUS
    <2>2. D \in SUBSET TaskIds /\ DOMAIN put = D /\ \A x \in D : put[x] \in Tasks
      BY <1>6, <2>1
    <2>3. /\ Put(put) \in [TaskIds -> Tasks]
          /\ \A x \in TaskIds \ D : Put(put)[x] = db[x]
          /\ \A x \in D :
               Put(put)[x] =
                 [key |-> put[x].key, attempt |-> put[x].attempt,
                  status |-> put[x].status, commits |-> put[x].commits,
                  jobs |-> put[x].jobs, ver |-> put[x].ver + 1]
      BY <1>6, <2>2, PutFacts
    <2> QED  BY <1>7, <2>1, <2>3
  <1>9. put[t] = copy
    BY <1>5
  <1>10. /\ db'[t].key = db[t].key /\ db'[t].attempt = db[t].attempt
         /\ db'[t].commits = db[t].commits /\ db'[t].status = swarm[t]
         /\ db'[t].ver = db[t].ver + 1
    BY <1>4, <1>8, <1>9
  <1>11. db[t].ver \in Nat /\ db[t].ver > 0
    BY <1>2, <1>3 DEF Tasks
  <1>12. Quiet
    BY <1>2, <1>8, <1>10, <1>11 DEF Quiet
  <1>13. InDB(t) /\ db'[t].ver > 0
    BY <1>10, <1>11 DEF InDB
  <1> QED  BY <1>1, <1>2, <1>8, <1>10, <1>12, <1>13

LEMMA WriteTaskStep ==
  ASSUME Inv, NEW u \in Updaters, WriteTask(u)
  PROVE  Inv'
  <1> USE DEF WriteTask
  <1>1. /\ TypeOK /\ DbOK /\ CacheOK /\ UpdOK
        /\ UNCHANGED <<jobs, swarm, loop, pendingInsert, faults>>
        /\ upd[u] # NoUpdate
    BY DEF Inv
  <1>2. SwarmStep /\ IdsInOrder'
    BY Unchanged DEF Inv, IdsInOrder
  <1>3. CASE /\ upd[u].copy.ver = db[upd[u].task].ver
             /\ db' = Put([x \in {upd[u].task} |-> upd[u].copy])
             /\ EndUpdate(u, TRUE)
    <2>1. Quiet /\ db' \in [TaskIds -> Tasks]
      BY <1>1, <1>3, WriteFacts
    <2>2. /\ cache' \in [TaskIds -> Tasks]
          /\ index' = index
          /\ IndexAgrees'
          /\ \A t \in TaskIds : CopyOf(cache'[t], db[t])
          /\ \A x \in Updaters : upd'[x] \in {upd[x], NoUpdate}
          /\ upd' \in [Updaters -> [task : TaskIds \union {0}, copy : Tasks,
                                    tries : 0 .. NumRetries - 1]]
          /\ msgs' \subseteq msgs
      BY <1>1, <1>3, EndUpdateFacts
    <2>3. TypeOK'
      BY <1>1, <2>1, <2>2 DEF TypeOK, loop
    <2>4. \A t \in TaskIds : CopyOf(cache'[t], db'[t])
      BY <1>1, <2>1, <2>2, QuietCopies
    <2>5. UpdOK'
      BY <1>1, <1>2, <2>1, <2>2, <2>3, QuietVersions, UpdFrame
    <2> QED  BY <1>1, <1>2, <2>1, <2>2, <2>3, <2>4, <2>5, OutsideFrame
  <1>4. CASE UNCHANGED db
    <2>1. Quiet /\ NewVersions
      BY <1>4, Unchanged
    <2>2. CASE /\ MayRetry(upd[u].tries) /\ NeedsResult(upd[u].task)
               /\ Read(u, upd[u].task, upd[u].tries + 1)
               /\ UNCHANGED <<msgs, cached>>
      <3>1. PICK t, n : t = upd[u].task /\ n = upd[u].tries + 1
        OBVIOUS
      <3>2. t \in TaskIds /\ swarm[t] \in Final
        BY <1>1, <3>1 DEF UpdOK, WriteOK
      <3>3. n \in 0 .. NumRetries - 1
        BY <1>1, <2>2, <3>1, BoundsAssumption DEF TypeOK, MayRetry
      <3>4. NeedsResult(t) /\ Read(u, t, n)
        BY <2>2, <3>1
      <3>5. /\ UpdOK'
            /\ upd' \in [Updaters -> [task : TaskIds \union {0}, copy : Tasks,
                                      tries : 0 .. NumRetries - 1]]
        BY <1>1, <1>4, <2>2, <3>2, <3>3, <3>4, ReadFacts
      <3>6. TypeOK'
        BY <1>1, <1>4, <2>2, <3>5 DEF TypeOK, loop, cached
      <3>7. IndexAgrees' /\ \A x \in TaskIds : CopyOf(cache'[x], db'[x])
        BY <1>1, <2>1, <2>2, CacheFrame
      <3> QED  BY <1>1, <1>2, <2>1, <2>2, <3>5, <3>6, <3>7, OutsideFrame
               DEF cached
    <2>3. CASE EndUpdate(u, MayRetry(upd[u].tries))
      <3>1. /\ cache' \in [TaskIds -> Tasks]
            /\ index' = index
            /\ IndexAgrees'
            /\ \A t \in TaskIds : CopyOf(cache'[t], db[t])
            /\ \A x \in Updaters : upd'[x] \in {upd[x], NoUpdate}
            /\ upd' \in [Updaters -> [task : TaskIds \union {0}, copy : Tasks,
                                      tries : 0 .. NumRetries - 1]]
            /\ msgs' \subseteq msgs
        BY <1>1, <2>3, EndUpdateFacts
      <3>2. TypeOK'
        BY <1>1, <1>4, <3>1 DEF TypeOK, loop
      <3>3. UpdOK'
        BY <1>1, <1>2, <2>1, <3>1, <3>2, UpdFrame
      <3> QED  BY <1>1, <1>2, <1>4, <2>1, <3>1, <3>2, <3>3, OutsideFrame
    <2>4. \/ /\ MayRetry(upd[u].tries) /\ NeedsResult(upd[u].task)
             /\ Read(u, upd[u].task, upd[u].tries + 1)
             /\ UNCHANGED <<msgs, cached>>
          \/ EndUpdate(u, MayRetry(upd[u].tries))
          \/ /\ upd[u].copy.ver = db[upd[u].task].ver
             /\ db' = Put([x \in {upd[u].task} |-> upd[u].copy])
             /\ EndUpdate(u, TRUE)
      OBVIOUS
    <2> QED  BY <1>3, <2>2, <2>3, <2>4
  <1> QED  BY <1>3, <1>4

-----------------------------------------------------------------------------
(***************************************************************************)
(* The steps of the main loop.                                             *)
(***************************************************************************)
LEMMA StartStep ==
  ASSUME Inv, NEW arrived, StartLoop(arrived) \/ StartAttempt(arrived)
  PROVE  Inv'
  <1> USE DEF StartLoop, StartAttempt
  <1>1. Quiet /\ SwarmStep /\ NewVersions
    BY Unchanged
  <1>2. /\ cache' \in [TaskIds -> Tasks]
        /\ index' = index
        /\ IndexAgrees'
        /\ \A t \in TaskIds : CopyOf(cache'[t], db'[t])
    BY UpdateFacts DEF Inv
  <1>3. TypeOK'
    BY <1>2 DEF Inv, TypeOK
  <1>4. DbOK' /\ CacheOK' /\ AttemptsOK' /\ JobsOK'
    BY <1>1, <1>2, <1>3, SharedFrame
  <1>5. LayerOK'
    BY <1>2, <1>3, LayerIsEmpty, LayerEmpty DEF Inv
  <1>6. QueueOK'
    BY <1>1, QueueFrame DEF Inv
  <1>7. PcOK' /\ IdsInOrder'
    BY DEF Inv, PcOK, IdsInOrder, Triggered
  <1>8. UpdOK'
    BY <1>1, <1>3, UpdFrame DEF Inv
  <1> QED  BY <1>3, <1>4, <1>5, <1>6, <1>7, <1>8 DEF Inv

\* A task which loses commits stays what it was.
LEMMA Shrinks ==
  ASSUME NEW d \in Tasks, NEW x \in Tasks, NEW b \in SUBSET x.commits
  PROVE  /\ [x EXCEPT !.commits = b] \in Tasks
         /\ [x EXCEPT !.commits = b].commits = b
         /\ Robbed(d, x) => Robbed(d, [x EXCEPT !.commits = b])
         /\ x = [d EXCEPT !.commits = x.commits] =>
              [x EXCEPT !.commits = b] = [d EXCEPT !.commits = b]
  <1>1. b \in SUBSET Commits /\ x.commits \in SUBSET Commits
    BY DEF Tasks
  <1>2. /\ [x EXCEPT !.commits = b] \in Tasks
        /\ [x EXCEPT !.commits = b] =
             [key |-> x.key, attempt |-> x.attempt, status |-> x.status,
              commits |-> b, jobs |-> x.jobs, ver |-> x.ver]
    BY <1>1, WithCommits
  <1>3. /\ [d EXCEPT !.commits = b] =
             [key |-> d.key, attempt |-> d.attempt, status |-> d.status,
              commits |-> b, jobs |-> d.jobs, ver |-> d.ver]
        /\ [d EXCEPT !.commits = x.commits] =
             [key |-> d.key, attempt |-> d.attempt, status |-> d.status,
              commits |-> x.commits, jobs |-> d.jobs, ver |-> d.ver]
    BY <1>1, WithCommits
  <1>4. x = [d EXCEPT !.commits = x.commits] =>
          [x EXCEPT !.commits = b] = [d EXCEPT !.commits = b]
    BY <1>2, <1>3
  <1>5. [x EXCEPT !.commits = b].commits = b /\ [x EXCEPT !.commits = b].ver = x.ver
    BY <1>2
  <1>6. Robbed(d, x) => Robbed(d, [x EXCEPT !.commits = b])
    BY <1>4, <1>5 DEF Robbed
  <1> QED  BY <1>2, <1>4, <1>5, <1>6

\* The scheduler inserts one more task into the layer.
LEMMA LayerStep ==
  ASSUME Inv, NEW i \in Ids, layer[i] = NoTask, NEW task \in Tasks,
         task.key \in Keys, layer' = LayerWith(i, task),
         pc \in {"score", "blame"},
         UNCHANGED <<db, cached, pc, triggered>>,
         i \in TaskIds => i \in Triggered /\ pc = "blame" /\ task = triggered[i],
         pc = "blame" => i \in TaskIds
  PROVE  layer' \in [Ids -> Tasks] /\ LayerOK'
  <1> DEFINE l == layer'
  <1>1. /\ TypeOK /\ DbOK /\ CacheOK /\ LayerOK /\ QueueOK
        /\ db' = db /\ cache' = cache /\ index' = index
    BY DEF Inv, cached
  <1>2. i \in TaskIds => cache[i].commits = {}
    <2>1. i \in TaskIds => db[i] = NoTask
      BY <1>1 DEF QueueOK, DbOK
    <2> QED  BY <1>1, <2>1 DEF CacheOK, CopyOf, NoTask
  <1>3. /\ l \in [Ids -> Tasks]
        /\ Agree(l, cache, index)
        /\ l[i] = [task EXCEPT !.commits = l[i].commits]
        /\ \A x \in Ids : l[x] # NoTask /\ l[x] # layer[x] =>
             l[x].key \in Keys /\ Rooted(l[x])
        /\ \A x \in Ids \ {i} :
             \/ l[x] = layer[x]
             \/ /\ Seen(layer, cache, x) # {}
                /\ \E b \in SUBSET Seen(layer, cache, x) :
                     l[x] = [GetTask(x) EXCEPT !.commits = b]
    <2>1. PICK m : m = LayerWith(i, task)
      OBVIOUS
    <2>2. Extended(m, i, task)
      BY <1>1, <1>2, <2>1, LayerWithFacts
    <2> QED  BY <2>1, <2>2 DEF Extended
  <1>4. Agree(l, cache', index')
    BY <1>1, <1>3
  <1>5. ASSUME NEW x \in Ids, l[x] # NoTask
        PROVE  l[x].key \in Keys /\ Rooted(l[x]) /\ pc' \in {"score", "blame"}
    <2>1. l[x].key \in Keys /\ Rooted(l[x])
      BY <1>1, <1>3, <1>5 DEF LayerOK
    <2> QED  BY <2>1
  <1>6. ASSUME NEW t \in TaskIds, l[t] # NoTask
        PROVE  \/ pc' = "blame" /\ Blamed(t, layer[t])'
               \/ Robbed(db[t], layer[t])'
    <2>1. t \in Ids /\ db[t] \in Tasks /\ triggered[t] \in Tasks
      BY <1>1, IdFacts DEF TypeOK
    <2>2. Blamed(t, layer[t])' <=>
            t \in Triggered /\ l[t] = [triggered[t] EXCEPT !.commits = l[t].commits]
      BY DEF Blamed, Triggered
    <2>3. CASE t = i
      BY <1>3, <2>2, <2>3
    <2>4. CASE t # i /\ l[t] = layer[t]
      BY <1>1, <1>6, <2>1, <2>2, <2>4 DEF LayerOK, Blamed
    <2>5. CASE t # i /\ l[t] # layer[t]
      <3>1. PICK b \in SUBSET Seen(layer, cache, t) :
              l[t] = [GetTask(t) EXCEPT !.commits = b]
        BY <1>3, <2>1, <2>5
      <3>2. Seen(layer, cache, t) # {}
        BY <1>3, <2>1, <2>5
      <3>3. PICK g : g = GetTask(t)
        OBVIOUS
      <3>4. /\ g \in Tasks /\ g.commits = Seen(layer, cache, t)
            /\ layer[t] = NoTask => Robbed(db[t], g)
            /\ layer[t] # NoTask => g = layer[t]
        BY <1>1, <2>1, <3>2, <3>3, ShownTask DEF GetTask
      <3>5. l[t] = [g EXCEPT !.commits = b] /\ b \in SUBSET g.commits
        BY <3>1, <3>3, <3>4
      <3>6. CASE Robbed(db[t], g)
        <4>1. Robbed(db[t], [g EXCEPT !.commits = b])
          BY <2>1, <3>4, <3>5, <3>6, Shrinks
        <4>2. Robbed(db'[t], l[t])
          BY <1>1, <3>5, <4>1
        <4> QED  BY <4>2
      <3>7. CASE layer[t] # NoTask /\ pc = "blame" /\ Blamed(t, g)
        <4>1. g = [triggered[t] EXCEPT !.commits = g.commits] /\ t \in Triggered
          BY <3>7 DEF Blamed
        <4>2. l[t] = [triggered[t] EXCEPT !.commits = b]
          BY <2>1, <3>4, <3>5, <4>1, Shrinks
        <4>3. l[t].commits = b
          BY <2>1, <3>4, <3>5, Shrinks
        <4> QED  BY <2>2, <3>7, <4>1, <4>2, <4>3
      <3> QED  BY <1>1, <3>4, <3>6, <3>7 DEF LayerOK
    <2> QED  BY <2>3, <2>4, <2>5
  <1>7. pc' = "blame" => \A x \in Fakes : l[x] = NoTask
    <2> SUFFICES ASSUME pc = "blame", NEW x \in Fakes
                 PROVE  l[x] = NoTask
      OBVIOUS
    <2>1. x \in Ids /\ x \notin TaskIds /\ x # i /\ layer[x] = NoTask
      BY <1>1, IdFacts DEF LayerOK
    <2>2. Seen(layer, cache, x) = {}
      BY <2>1 DEF Seen
    <2> QED  BY <1>3, <2>1, <2>2
  <1> QED  BY <1>3, <1>4, <1>5, <1>6, <1>7 DEF LayerOK

LEMMA ComputeBlamelistStep ==
  ASSUME Inv, ComputeBlamelist
  PROVE  Inv'
  <1> USE DEF ComputeBlamelist
  <1>1. PICK t \in TaskIds : /\ t \in ToBlame
                             /\ layer' = LayerWith(t, triggered[t])
    BY DEF First
  <1>2. t \in Ids /\ t \in Triggered /\ layer[t] = NoTask
    BY <1>1, IdFacts DEF ToBlame
  <1>3. triggered[t] \in Tasks /\ triggered[t].key \in Keys
    BY <1>2 DEF Inv, TypeOK, QueueOK
  <1>4. layer' \in [Ids -> Tasks] /\ LayerOK'
    BY <1>1, <1>2, <1>3, LayerStep DEF cached
  <1>5. TypeOK'
    BY <1>4 DEF Inv, TypeOK, cached
  <1>6. DbOK' /\ CacheOK' /\ AttemptsOK' /\ JobsOK' /\ IdsInOrder'
    BY <1>5, LoopFrame
  <1>7. Quiet /\ SwarmStep /\ NewVersions
    BY Unchanged
  <1>8. QueueOK' /\ UpdOK'
    BY <1>5, <1>7, QueueFrame, UpdFrame DEF Inv
  <1>9. PcOK'
    BY DEF Inv, PcOK, Triggered
  <1> QED  BY <1>4, <1>5, <1>6, <1>8, <1>9 DEF Inv

LEMMA ProcessCandidateStep ==
  ASSUME Inv, NEW c \in cands, ProcessCandidate(c)
  PROVE  Inv'
  <1> USE DEF ProcessCandidate
  <1>1. c \in CandidateType /\ c.key \in Keys
    BY DEF Inv, TypeOK, CandidateType
  <1>2. cands' \subseteq cands /\ chosen' \subseteq cands \union chosen
    OBVIOUS
  <1>3. layer' \in [Ids -> Tasks] /\ (cands' # {} => LayerOK')
    <2>1. CASE cands' # {}
      <3>1. PICK i \in Fakes : /\ layer[i] = NoTask
                               /\ layer' = LayerWith(i, MakeTask(c))
        BY <2>1 DEF First
      <3>2. pc' = pc
        BY <2>1
      <3>3. PICK task : task = MakeTask(c)
        OBVIOUS
      <3>4. task \in Tasks /\ task.key \in Keys
        <4>1. task = [key |-> c.key, attempt |-> c.attempt,
                      status |-> "pending", commits |-> {}, jobs |-> c.jobs,
                      ver |-> 0]
          BY <3>3 DEF MakeTask
        <4> QED  BY <1>1, <4>1 DEF Tasks, Statuses, CandidateType
      <3>5. i \in Ids /\ i \notin TaskIds
        BY IdFacts
      <3> QED  BY <3>1, <3>2, <3>3, <3>4, <3>5, LayerStep DEF cached
    <2>2. CASE cands' = {}
      BY <2>2, NoTaskType DEF NoLayer
    <2> QED  BY <2>1, <2>2
  <1>4. TypeOK'
    BY <1>2, <1>3 DEF Inv, TypeOK, cached
  <1>5. DbOK' /\ CacheOK' /\ AttemptsOK' /\ JobsOK' /\ IdsInOrder' /\ IndexAgrees'
    BY <1>4, LoopFrame
  <1>6. LayerOK'
    BY <1>3, <1>4, <1>5, LayerEmpty
  <1>7. Quiet /\ SwarmStep /\ NewVersions
    BY Unchanged
  <1>8. QueueOK' /\ UpdOK'
    BY <1>2, <1>4, <1>7, QueueFrame, UpdFrame DEF Inv
  <1>9. PcOK'
    BY DEF Inv, PcOK, Triggered
  <1> QED  BY <1>4, <1>5, <1>6, <1>8, <1>9 DEF Inv

\* A candidate leaves chosen.
LEMMA TriggerFacts ==
  ASSUME Inv, TypeOK', NEW c \in chosen, Trigger(c), SwarmStep, IdsInOrder',
         \A t \in msgs' : t \in msgs \/ swarm'[t] \in Final
  PROVE  /\ DbOK' /\ CacheOK' /\ LayerOK' /\ AttemptsOK' /\ UpdOK' /\ JobsOK'
         /\ UNCHANGED triggered => QueueOK' /\ PcOK'
  <1> USE DEF Trigger
  <1>1. Quiet /\ NewVersions
    BY Unchanged
  <1>2. IndexAgrees' /\ \A t \in TaskIds : CopyOf(cache'[t], db'[t])
    BY <1>1, CacheFrame DEF Inv
  <1>3. DbOK' /\ CacheOK' /\ AttemptsOK' /\ JobsOK'
    BY <1>1, <1>2, SharedFrame
  <1>4. LayerOK'
    BY <1>2, LayerIsEmpty, LayerEmpty DEF Inv
  <1>5. UpdOK'
    BY <1>1, UpdFrame DEF Inv
  <1>6. UNCHANGED triggered => QueueOK'
    BY <1>1, QueueFrame DEF Inv
  <1>7. UNCHANGED triggered => PcOK'
    <2> SUFFICES ASSUME UNCHANGED triggered
                 PROVE  PcOK'
      OBVIOUS
    <2>1. cands' = {}
      BY DEF Inv, PcOK
    <2>2. triggered \in [TaskIds -> Tasks]
      BY DEF Inv, TypeOK
    <2>3. triggered = Empty <=> Triggered = {}
      BY <2>2 DEF Triggered, Empty
    <2>4. Triggered' = Triggered
      BY DEF Triggered
    <2> QED  BY <2>1, <2>3, <2>4 DEF PcOK, Inv
  <1> QED  BY <1>3, <1>4, <1>5, <1>6, <1>7

LEMMA FirstUnused ==
  ASSUME Inv, NEW t \in TaskIds, First(t, Unused), NEW s \in Statuses,
         swarm' = [swarm EXCEPT ![t] = s]
  PROVE  /\ SwarmStep /\ IdsInOrder'
         /\ swarm[t] = "none"
         /\ swarm' \in [TaskIds -> {"none"} \union Statuses]
         /\ \A u \in TaskIds : swarm[u] # "none" => u < t
  <1>1. swarm[t] = "none" /\ \A u \in TaskIds : swarm[u] = "none" => t <= u
    BY DEF First, Unused
  <1>2. s # "none"
    BY DEF Statuses, Final
  <1>3. \A u \in TaskIds : swarm'[u] = IF u = t THEN s ELSE swarm[u]
    BY DEF Inv, TypeOK
  <1>4. \A u \in TaskIds : u \in Int
    BY DEF TaskIds
  <1>5. \A u \in TaskIds : swarm[u] # "none" => u < t
    BY <1>1, <1>4 DEF Inv, IdsInOrder
  <1>6. IdsInOrder'
    BY <1>1, <1>2, <1>3, <1>4 DEF Inv, IdsInOrder
  <1>7. SwarmStep
    BY <1>1, <1>2, <1>3 DEF SwarmStep
  <1> QED  BY <1>1, <1>5, <1>6, <1>7 DEF Inv, TypeOK

LEMMA TriggerTaskStep ==
  ASSUME Inv, NEW c \in chosen, TriggerTask(c)
  PROVE  Inv'
  <1> USE DEF TriggerTask
  <1>1. PICK t \in TaskIds, status \in {"pending", "success"} :
          /\ First(t, Unused)
          /\ swarm' = [swarm EXCEPT ![t] = status]
          /\ triggered' = [triggered EXCEPT ![t] =
                             [MakeTask(c) EXCEPT !.status = status]]
          /\ pendingInsert' = pendingInsert \union {t}
    OBVIOUS
  <1>2. status \in Statuses
    BY DEF Statuses, Final
  <1>3. /\ SwarmStep /\ IdsInOrder'
        /\ swarm[t] = "none"
        /\ swarm' \in [TaskIds -> {"none"} \union Statuses]
        /\ \A u \in TaskIds : swarm[u] # "none" => u < t
    BY <1>1, <1>2, FirstUnused
  <1>4. PICK task : task = [MakeTask(c) EXCEPT !.status = status]
    OBVIOUS
  <1>5. /\ task \in Tasks
        /\ task = [key |-> c.key, attempt |-> c.attempt, status |-> status,
                   commits |-> {}, jobs |-> c.jobs, ver |-> 0]
    <2>1. c \in CandidateType
      BY DEF Inv, TypeOK
    <2>2. PICK m : m = MakeTask(c)
      OBVIOUS
    <2>3. m = [key |-> c.key, attempt |-> c.attempt, status |-> "pending",
               commits |-> {}, jobs |-> c.jobs, ver |-> 0]
      BY <2>2 DEF MakeTask
    <2>4. m \in Tasks
      BY <2>1, <2>3 DEF Tasks, Statuses, CandidateType
    <2>5. /\ [m EXCEPT !.status = status] \in Tasks
          /\ [m EXCEPT !.status = status] =
               [key |-> m.key, attempt |-> m.attempt, status |-> status,
                commits |-> m.commits, jobs |-> m.jobs, ver |-> m.ver]
      BY <1>2, <2>4, WithStatus
    <2> QED  BY <1>4, <2>2, <2>3, <2>5
  <1>6. triggered' = [triggered EXCEPT ![t] = task]
    BY <1>1, <1>4
  <1>7. TypeOK'
    <2>1. triggered' \in [TaskIds -> Tasks]
      BY <1>5, <1>6 DEF Inv, TypeOK
    <2>2. pendingInsert' \subseteq TaskIds /\ chosen' \subseteq CandidateType
      BY <1>1 DEF Inv, TypeOK, Trigger
    <2>3. pc' \in {"idle", "jobs", "score", "trigger", "insert", "blame"}
      BY DEF Trigger
    <2>4. UNCHANGED <<db, jobs, cache, index, cands, layer, tries, upd, msgs,
                      faults>>
      BY DEF Trigger, cached
    <2> QED  BY <1>3, <2>1, <2>2, <2>3, <2>4 DEF Inv, TypeOK
  <1>8. /\ DbOK' /\ CacheOK' /\ LayerOK' /\ AttemptsOK' /\ UpdOK' /\ JobsOK'
    BY <1>3, <1>7, TriggerFacts
  <1>9. /\ \A u \in TaskIds : triggered'[u] = IF u = t THEN task ELSE triggered[u]
        /\ task.key = c.key /\ task.attempt = c.attempt /\ task.ver = 0
        /\ task.commits = {} /\ task.status = status
    BY <1>5, <1>6 DEF Inv, TypeOK
  <1>10. c.key \in Keys
    BY DEF Inv, TypeOK, CandidateType
  <1>11. task # NoTask
    BY <1>9, <1>10, KeyedTask
  <1>12. /\ t \notin Triggered
         /\ Triggered' = Triggered \union {t}
    <2>1. t \notin Triggered
      BY <1>3 DEF Inv, QueueOK
    <2>2. Triggered' = Triggered \union {t}
      BY <1>9, <1>11 DEF Triggered
    <2> QED  BY <2>1, <2>2
  <1>13. cands' \union chosen' \subseteq (cands \union chosen) \ {c}
    <2>1. cands = {}
      BY DEF Trigger, Inv, PcOK
    <2> QED  BY <2>1 DEF Trigger
  <1>14. \A k, n : Due(k, n) => Due(k, n)'
    BY DEF Due, TasksOf, InDB, Trigger
  <1>15. \A k : TasksOf(k)' = TasksOf(k)
    BY DEF TasksOf, InDB, Trigger
  <1>16. QueueOK'
    <2>1. \A x, y \in cands' \union chosen' :
            /\ Due(x.key, x.attempt)'
            /\ x.key = y.key => x = y
            /\ x.key # c.key
      BY <1>13, <1>14 DEF Inv, QueueOK
    <2>2. ASSUME NEW u \in Triggered
          PROVE  /\ u \in TaskIds
                 /\ triggered'[u] = triggered[u]
                 /\ swarm'[u] = swarm[u]
                 /\ triggered[u].key # c.key
      <3>1. u \in TaskIds /\ u # t
        BY <1>12 DEF Triggered
      <3>2. triggered[u].key # c.key
        BY DEF Inv, QueueOK
      <3> QED  BY <1>1, <1>9, <3>1, <3>2 DEF Inv, TypeOK
    <2>3. /\ triggered'[t].ver = 0 /\ triggered'[t].commits = {}
          /\ triggered'[t].key \in Keys
          /\ triggered'[t].status = swarm'[t]
          /\ swarm'[t] # "none"
          /\ db'[t].ver = 0
          /\ Due(c.key, c.attempt)'
      <3>1. swarm'[t] = status /\ status # "none"
        BY <1>1 DEF Inv, TypeOK
      <3>2. db'[t].ver = 0
        BY <1>3 DEF Inv, DbOK, Trigger
      <3>3. Due(c.key, c.attempt)
        BY DEF Inv, QueueOK
      <3> QED  BY <1>9, <1>10, <1>14, <3>1, <3>2, <3>3
    <2>4. \A u \in TasksOf(c.key)' : u < t
      <3>1. ASSUME NEW u \in TasksOf(c.key)
            PROVE  u < t
        <4>1. u \in TaskIds /\ db[u].ver > 0
          BY DEF TasksOf, InDB
        <4>2. swarm[u] # "none"
          <5>1. db[u].ver # 0
            BY <4>1 DEF Inv, TypeOK, Tasks
          <5> QED  BY <4>1, <5>1 DEF Inv, DbOK
        <4> QED  BY <1>3, <4>1, <4>2
      <3> QED  BY <1>15, <3>1
    <2>5. ASSUME NEW u \in Triggered'
          PROVE  /\ triggered'[u].ver = 0 /\ triggered'[u].commits = {}
                 /\ triggered'[u].key \in Keys
                 /\ triggered'[u].status \in {"pending", swarm'[u]}
                 /\ swarm'[u] # "none"
                 /\ db'[u].ver = 0
                 /\ Due(triggered[u].key, triggered[u].attempt)'
                 /\ \A x \in TasksOf(triggered[u].key)' : x < u
                 /\ \A x \in cands' \union chosen' : x.key # triggered'[u].key
                 /\ \A x \in Triggered' : triggered'[x].key = triggered'[u].key
                                            => x = u
      <3>1. CASE u = t
        <4>1. triggered'[u].key = c.key /\ triggered'[u].attempt = c.attempt
          BY <1>9, <3>1
        <4>2. Due(triggered[u].key, triggered[u].attempt)'
          BY <2>3, <4>1 DEF Due, TasksOf, InDB
        <4>3. \A x \in TasksOf(triggered[u].key)' : x < u
          BY <2>4, <3>1, <4>1 DEF TasksOf, InDB
        <4>4. \A x \in Triggered' : triggered'[x].key = triggered'[u].key
                                            => x = u
          BY <1>12, <2>2, <3>1, <4>1
        <4>5. \A x \in cands' \union chosen' : x.key # triggered'[u].key
          BY <2>1, <4>1
        <4> QED  BY <2>3, <3>1, <4>2, <4>3, <4>4, <4>5
      <3>2. CASE u \in Triggered
        <4>1. /\ triggered'[u] = triggered[u] /\ swarm'[u] = swarm[u]
              /\ u \in TaskIds /\ triggered[u].key # c.key
          BY <2>2, <3>2
        <4>2. /\ triggered[u].ver = 0 /\ triggered[u].commits = {}
              /\ triggered[u].key \in Keys
              /\ triggered[u].status \in {"pending", swarm[u]}
              /\ swarm[u] # "none"
              /\ db[u].ver = 0
              /\ Due(triggered[u].key, triggered[u].attempt)
              /\ \A x \in TasksOf(triggered[u].key) : x < u
              /\ \A x \in cands \union chosen : x.key # triggered[u].key
              /\ \A x \in Triggered : triggered[x].key = triggered[u].key
                                        => x = u
          BY <3>2 DEF Inv, QueueOK
        <4>3. Due(triggered[u].key, triggered[u].attempt)'
          <5>1. PICK k, n : k = triggered[u].key /\ n = triggered[u].attempt
            OBVIOUS
          <5>2. Due(k, n)'
            BY <1>14, <4>2, <5>1
          <5> QED  BY <4>1, <5>1, <5>2
        <4>4. \A x \in TasksOf(triggered[u].key)' : x < u
          BY <4>1, <4>2 DEF TasksOf, InDB, Trigger
        <4>5. \A x \in Triggered' : triggered'[x].key = triggered'[u].key
                                      => x = u
          BY <1>9, <1>12, <2>2, <4>1, <4>2
        <4>6. \A x \in cands' \union chosen' : x.key # triggered'[u].key
          BY <1>13, <4>1, <4>2
        <4>7. db'[u].ver = 0
          BY <4>2 DEF Trigger
        <4> QED  BY <4>1, <4>2, <4>3, <4>4, <4>5, <4>6, <4>7
      <3> QED  BY <1>12, <3>1, <3>2
    <2> QED  BY <2>1, <2>5 DEF QueueOK
  <1>17. PcOK'
    <2>1. cands' = {}
      BY DEF Trigger, Inv, PcOK
    <2>2. triggered' # Empty
      BY <1>9, <1>11 DEF Empty
    <2> QED  BY <1>12, <2>1, <2>2 DEF PcOK, Trigger
  <1> QED  BY <1>3, <1>7, <1>8, <1>16, <1>17 DEF Inv

LEMMA TriggerFailsStep ==
  ASSUME Inv, NEW c \in chosen, TriggerFails(c) \/ NoResource(c)
  PROVE  Inv'
  <1> USE DEF TriggerFails, NoResource
  <1>1. /\ Trigger(c) /\ UNCHANGED triggered
        /\ faults' \in 0 .. MaxFaults
    BY BoundsAssumption DEF Fault, Inv, TypeOK
  <1>2. /\ SwarmStep /\ IdsInOrder'
        /\ swarm' \in [TaskIds -> {"none"} \union Statuses]
        /\ \A t \in msgs' : t \in msgs \/ swarm'[t] \in Final
        /\ msgs' \subseteq TaskIds
        /\ pendingInsert' \subseteq TaskIds
    <2>1. CASE UNCHANGED <<swarm, msgs, pendingInsert>>
      BY <2>1, Unchanged DEF Inv, IdsInOrder, TypeOK
    <2>2. ASSUME NEW t \in TaskIds, First(t, Unused),
                 swarm' = [swarm EXCEPT ![t] = "pending"],
                 UNCHANGED <<msgs, pendingInsert>>
          PROVE  /\ SwarmStep /\ IdsInOrder'
                 /\ swarm' \in [TaskIds -> {"none"} \union Statuses]
                 /\ \A x \in msgs' : x \in msgs
                 /\ msgs' \subseteq TaskIds
                 /\ pendingInsert' \subseteq TaskIds
      <3>1. "pending" \in Statuses
        BY DEF Statuses
      <3>2. msgs' \subseteq TaskIds /\ pendingInsert' \subseteq TaskIds
        BY <2>2 DEF Inv, TypeOK
      <3> QED  BY <2>2, <3>1, <3>2, FirstUnused
    <2>3. ASSUME NEW t \in TaskIds, First(t, Unused),
                 swarm' = [swarm EXCEPT ![t] = "mishap"],
                 msgs' = msgs \union {t},
                 pendingInsert' = pendingInsert \union {t}
          PROVE  /\ SwarmStep /\ IdsInOrder'
                 /\ swarm' \in [TaskIds -> {"none"} \union Statuses]
                 /\ \A x \in msgs' : x \in msgs \/ swarm'[x] \in Final
                 /\ msgs' \subseteq TaskIds
                 /\ pendingInsert' \subseteq TaskIds
      <3>1. "mishap" \in Statuses /\ "mishap" \in Final
        BY DEF Statuses, Final
      <3>2. swarm'[t] = "mishap"
        BY <2>3 DEF Inv, TypeOK
      <3>3. msgs' \subseteq TaskIds /\ pendingInsert' \subseteq TaskIds
        BY <2>3 DEF Inv, TypeOK
      <3> QED  BY <2>3, <3>1, <3>2, <3>3, FirstUnused
    <2> QED  BY <2>1, <2>2, <2>3
  <1>3. TypeOK'
    BY <1>1, <1>2 DEF Inv, TypeOK, Trigger, cached
  <1> QED  BY <1>1, <1>2, <1>3, TriggerFacts DEF Inv

\* addTasks ends, or begins another attempt.
LEMMA PutFailsStep ==
  ASSUME Inv, PutConflicts \/ PutFails
  PROVE  Inv'
  <1> USE DEF PutConflicts, PutFails
  <1>1. /\ UNCHANGED <<jobs, db, swarm, msgs, cached, cands, chosen, upd>>
        /\ layer' = NoLayer
        /\ faults' \in 0 .. MaxFaults
    BY BoundsAssumption DEF Fault, Inv, TypeOK
  <1>2. /\ tries' \in 0 .. NumRetries - 1
        /\ pendingInsert' \subseteq TaskIds
    BY BoundsAssumption DEF EndInserting, MayRetry, Inv, TypeOK
  <1>3. \/ triggered' = triggered /\ pc' = "insert"
        \/ triggered' = Empty /\ pc' = "idle"
    BY DEF EndInserting
  <1>4. layer' \in [Ids -> Tasks] /\ Empty \in [TaskIds -> Tasks]
    BY <1>1, NoTaskType DEF NoLayer, Empty
  <1>5. TypeOK'
    BY <1>1, <1>2, <1>3, <1>4 DEF Inv, TypeOK, cached
  <1>6. DbOK' /\ CacheOK' /\ AttemptsOK' /\ JobsOK' /\ IdsInOrder' /\ IndexAgrees'
    BY <1>1, <1>5, LoopFrame
  <1>7. Quiet /\ SwarmStep /\ NewVersions
    BY <1>1, Unchanged
  <1>8. LayerOK'
    BY <1>1, <1>5, <1>6, LayerEmpty
  <1>9. UpdOK'
    BY <1>1, <1>5, <1>7, UpdFrame DEF Inv
  <1>10. cands = {} /\ chosen = {} /\ Triggered # {}
    BY DEF Inv, PcOK
  <1>11. QueueOK' /\ PcOK'
    <2>1. CASE triggered' = triggered /\ pc' = "insert"
      <3>1. Triggered' = Triggered
        BY <2>1 DEF Triggered
      <3>2. QueueOK'
        BY <1>1, <1>7, <2>1, QueueFrame DEF Inv
      <3> QED  BY <1>1, <1>10, <2>1, <3>1, <3>2 DEF PcOK
    <2>2. CASE triggered' = Empty /\ pc' = "idle"
      <3>1. Triggered' = {}
        BY <2>2 DEF Triggered, Empty
      <3> QED  BY <1>1, <1>10, <3>1, <2>2 DEF PcOK, QueueOK
    <2> QED  BY <1>3, <2>1, <2>2
  <1> QED  BY <1>5, <1>6, <1>8, <1>9, <1>11 DEF Inv

LEMMA CrashStep ==
  ASSUME Inv, Crash
  PROVE  Inv'
  <1> USE DEF Crash
  <1>1. Quiet /\ SwarmStep /\ NewVersions
    BY Unchanged
  <1>2. \A c \in Commits : /\ index'[c] \in TaskIds \union {0}
                           /\ \A t \in TaskIds : index'[c] = t <=>
                                                  c \in cache'[t].commits
    <2> SUFFICES ASSUME NEW c \in Commits
                 PROVE  /\ index'[c] \in TaskIds \union {0}
                        /\ \A t \in TaskIds : index'[c] = t <=>
                                               c \in db[t].commits
      OBVIOUS
    <2>1. index'[c] = Owner(c)
      OBVIOUS
    <2>2. \A t, u \in TaskIds : c \in db[t].commits /\ c \in db[u].commits => t = u
      BY DEF Inv, DbOK, BlamelistsDisjoint
    <2>3. 0 \notin TaskIds
      BY IdFacts
    <2> QED  BY <2>1, <2>2, <2>3 DEF Owner
  <1>3. index' \in [Commits -> TaskIds \union {0}]
    BY <1>2
  <1>4. NoUpdate \in [task : TaskIds \union {0}, copy : Tasks,
                      tries : 0 .. NumRetries - 1]
    BY BoundsAssumption, NoTaskType DEF NoUpdate
  <1>5. /\ layer' \in [Ids -> Tasks] /\ triggered' \in [TaskIds -> Tasks]
        /\ faults' \in 0 .. MaxFaults /\ tries' \in 0 .. NumRetries - 1
        /\ upd' \in [Updaters -> [task : TaskIds \union {0}, copy : Tasks,
                                  tries : 0 .. NumRetries - 1]]
    BY <1>4, NoTaskType, BoundsAssumption
    DEF NoLayer, Empty, NoUpdates, Fault, Inv, TypeOK
  <1>6. TypeOK'
    BY <1>3, <1>5 DEF Inv, TypeOK
  <1>7. IndexAgrees'
    BY <1>2 DEF IndexAgrees
  <1>8. \A t \in TaskIds : CopyOf(cache'[t], db'[t])
    BY DEF CopyOf, Inv, TypeOK, Tasks
  <1>9. DbOK' /\ CacheOK' /\ AttemptsOK' /\ JobsOK'
    BY <1>1, <1>6, <1>7, <1>8, SharedFrame
  <1>10. LayerOK'
    BY <1>6, <1>7, LayerEmpty
  <1>11. Triggered' = {}
    BY DEF Triggered, Empty
  <1>12. QueueOK' /\ PcOK' /\ IdsInOrder'
    BY <1>11 DEF QueueOK, PcOK, Inv, IdsInOrder
  <1>13. UpdOK'
    BY DEF NoUpdates, UpdOK, Inv
  <1> QED  BY <1>6, <1>9, <1>10, <1>12, <1>13 DEF Inv

-----------------------------------------------------------------------------
(***************************************************************************)
(* The queue and the verdicts.                                             *)
(***************************************************************************)
\* What the queue is computed from.
QueueInput ==
  /\ db \in [TaskIds -> Tasks] /\ cache \in [TaskIds -> Tasks]
  /\ jobs \in [Jobs -> [status : {"none", "in_progress"} \union Final,
                        kind : JobKinds \union {NoKind}]]
  /\ \A j \in Jobs : jobs[j].status # "none" => jobs[j].kind \in JobKinds
  /\ \A t \in TaskIds : CopyOf(cache[t], db[t])
  /\ AttemptsOK

QueueResult ==
  /\ Candidates \subseteq CandidateType
  /\ \A c \in Candidates : Due(c.key, c.attempt)
  /\ \A c, d \in Candidates : c.key = d.key => c = d

\* The cache knows which tasks there are.
LEMMA CachedTasks ==
  ASSUME db \in [TaskIds -> Tasks], cache \in [TaskIds -> Tasks],
         \A t \in TaskIds : CopyOf(cache[t], db[t])
  PROVE  \A k : GetTasksByKey(k) = TasksOf(k)
  <1>1. \A t \in TaskIds : cache[t].ver > 0 <=> db[t].ver > 0
    BY DEF CopyOf, Tasks
  <1>2. \A t \in TaskIds : cache[t].key = db[t].key
    BY DEF CopyOf
  <1> QED  BY <1>1, <1>2 DEF GetTasksByKey, TasksOf, InDB

LEMMA KeyOfJob ==
  ASSUME NEW j \in Jobs, jobs[j].kind \in JobKinds
  PROVE  KeyOf(j) \in Keys
  BY JobKindsAssumption DEF KeyOf, Keys

\* The last task of a key tells which attempt is due, if any.
LEMMA NextAttempt ==
  ASSUME QueueInput, NEW k \in Keys, NeedsATask(k)
  PROVE  Attempt(k) \in Nat /\ Due(k, Attempt(k))
  <1> DEFINE tasks == TasksOf(k)
             n == Cardinality(tasks)
             m == Max(tasks)
  <1>1. GetTasksByKey(k) = tasks
    BY CachedTasks DEF QueueInput
  <1>2. tasks \in SUBSET TaskIds /\ n \in Nat /\ IsFiniteSet(tasks)
    BY TaskIdsFinite DEF TasksOf
  <1>3. CASE tasks = {}
    <2>1. Attempt(k) = 0 /\ n = 0
      BY <1>1, <1>3, FS_EmptySet DEF Attempt
    <2> QED  BY <1>3, <2>1, BoundsAssumption DEF Due
  <1>4. CASE tasks # {}
    <2>1. m \in tasks /\ \A t \in tasks : t <= m
      BY <1>2, <1>4, MaxIsMember
    <2>2. /\ {db[t].attempt : t \in tasks} = 0 .. n - 1
          /\ \A t, u \in tasks : t < u => /\ db[t].status \in Failed
                                          /\ db[t].attempt < db[u].attempt
      BY DEF QueueInput, AttemptsOK
    <2>3. /\ Attempt(k) = cache[m].attempt + 1
          /\ cache[m].status \in Failed
          /\ cache[m].attempt < MaxAttempts - 1
      BY <1>1, <1>4 DEF Attempt, NeedsATask
    <2>4. m \in TaskIds /\ cache[m].attempt = db[m].attempt
          /\ db[m].status \in Failed /\ db[m].attempt \in Nat
      BY <1>2, <2>1, <2>3 DEF QueueInput, CopyOf, Failed, Tasks
    <2> HIDE DEF tasks, m, n
    <2>5. db[m].attempt \in 0 .. n - 1
      BY <2>1, <2>2
    <2>6. PICK t \in tasks : db[t].attempt = n - 1
      <3>1. n - 1 \in 0 .. n - 1
        BY <1>2, <2>5
      <3> QED  BY <2>2, <3>1
    <2>7. \A u \in tasks : u \in Int
      BY <1>2 DEF TaskIds
    <2>8. t = m
      BY <1>2, <2>1, <2>2, <2>5, <2>6, <2>7
    <2>9. Attempt(k) = n
      BY <1>2, <2>3, <2>4, <2>6, <2>8
    <2>10. \A u \in tasks : db[u].status \in Failed
      BY <2>1, <2>2, <2>4, <2>7
    <2>11. n < MaxAttempts
      BY <1>2, <2>3, <2>4, <2>9, BoundsAssumption
    <2> QED  BY <1>2, <2>9, <2>10, <2>11 DEF Due, tasks, n
  <1> QED  BY <1>3, <1>4

LEMMA QueueFacts == QueueInput => QueueResult
  <1> SUFFICES ASSUME QueueInput
               PROVE  QueueResult
    OBVIOUS
  <1>1. ASSUME NEW c \in Candidates
        PROVE  /\ c \in CandidateType
               /\ Due(c.key, c.attempt)
               /\ c = MakeCandidate(c.key)
    <2>1. PICK j \in Unfinished :
            NeedsATask(KeyOf(j)) /\ c = MakeCandidate(KeyOf(j))
      BY DEF Candidates
    <2>2. PICK k : k = KeyOf(j)
      OBVIOUS
    <2>3. j \in Jobs /\ jobs[j].kind \in JobKinds
      BY DEF Unfinished, QueueInput
    <2>4. k \in Keys /\ NeedsATask(k) /\ c = MakeCandidate(k)
      BY <2>1, <2>2, <2>3, KeyOfJob
    <2>5. Attempt(k) \in Nat /\ Due(k, Attempt(k))
      BY <2>4, NextAttempt
    <2>6. /\ c.key = k /\ c.attempt = Attempt(k)
          /\ c = [key |-> k, attempt |-> Attempt(k), jobs |-> c.jobs]
          /\ c.jobs \subseteq Jobs
      BY <2>4 DEF MakeCandidate, Unfinished
    <2> QED  BY <2>4, <2>5, <2>6 DEF CandidateType
  <1> QED  BY <1>1 DEF QueueResult

\* UpdateUnfinishedJobs, when the tasks can be written: a quiet step.
LEMMA LinkedFacts ==
  ASSUME Inv, Current(Linked), db' = Put(Linked),
         Insert([t \in Unlinked |-> db'[t]])
  PROVE  /\ db' \in [TaskIds -> Tasks] /\ Quiet
         /\ \A t \in TaskIds : db'[t].status = db[t].status
         /\ cache' \in [TaskIds -> Tasks]
         /\ index' = index
         /\ IndexAgrees'
         /\ \A t \in TaskIds : CopyOf(cache'[t], db'[t])
  <1>1. /\ db \in [TaskIds -> Tasks] /\ cache \in [TaskIds -> Tasks]
        /\ \A t \in TaskIds : CopyOf(cache[t], db[t])
        /\ Unlinked \in SUBSET TaskIds
        /\ TypeOK /\ IndexAgrees
    BY DEF Inv, TypeOK, CacheOK, Unlinked
  <1>2. PICK put : put = Linked
    OBVIOUS
  <1>3. ASSUME NEW t \in Unlinked
        PROVE  /\ put[t] \in Tasks
               /\ put[t].key = db[t].key /\ put[t].attempt = db[t].attempt
               /\ put[t].status = db[t].status
               /\ put[t].commits = db[t].commits
               /\ put[t].ver = db[t].ver
               /\ db[t].ver > 0
    <2>1. PICK js \in SUBSET Jobs :
            put[t] = [cache[t] EXCEPT !.jobs = js]
      <3>1. cache[t].jobs \union {j \in Unfinished : KeyOf(j) = cache[t].key}
              \in SUBSET Jobs
        BY <1>1 DEF Tasks, Unfinished
      <3> QED  BY <1>2, <3>1 DEF Linked
    <2>2. cache[t] \in Tasks /\ t \in TaskIds
      BY <1>1
    <2>3. /\ [cache[t] EXCEPT !.jobs = js] \in Tasks
          /\ [cache[t] EXCEPT !.jobs = js] =
               [key |-> cache[t].key, attempt |-> cache[t].attempt,
                status |-> cache[t].status, commits |-> cache[t].commits,
                jobs |-> js, ver |-> cache[t].ver]
      BY <2>2, WithJobs
    <2>4. put[t].ver = db[t].ver
      BY <1>2 DEF Current, Linked
    <2>5. cache[t] = db[t]
      BY <1>1, <2>1, <2>2, <2>3, <2>4 DEF CopyOf
    <2>6. cache[t].ver > 0
      BY DEF Unlinked, GetTasksByKey
    <2> QED  BY <2>1, <2>3, <2>4, <2>5, <2>6
  <1>4. DOMAIN put = Unlinked
    BY <1>2 DEF Linked
  <1>5. db' = Put(put)
    BY <1>2
  <1>6. /\ db' \in [TaskIds -> Tasks]
        /\ \A t \in TaskIds \ Unlinked : db'[t] = db[t]
        /\ \A t \in Unlinked :
             db'[t] = [key |-> put[t].key, attempt |-> put[t].attempt,
                       status |-> put[t].status, commits |-> put[t].commits,
                       jobs |-> put[t].jobs, ver |-> put[t].ver + 1]
    BY <1>1, <1>3, <1>4, <1>5, PutFacts
  <1>7. \A t \in TaskIds : db[t].ver \in Nat /\ cache[t].ver \in Nat
    BY <1>1 DEF Tasks
  <1>8. ASSUME NEW t \in Unlinked
         PROVE  /\ t \in TaskIds /\ db'[t] \in Tasks
                /\ db'[t].key = db[t].key /\ db'[t].attempt = db[t].attempt
                /\ db'[t].status = db[t].status
                /\ db'[t].commits = db[t].commits
                /\ db'[t].ver = db[t].ver + 1 /\ db[t].ver > 0
    <2>1. t \in TaskIds /\ db'[t] \in Tasks
      BY <1>1, <1>6
    <2>2. db'[t] = [key |-> put[t].key, attempt |-> put[t].attempt,
                    status |-> put[t].status, commits |-> put[t].commits,
                    jobs |-> put[t].jobs, ver |-> put[t].ver + 1]
      BY <1>6
    <2> QED  BY <1>3, <2>1, <2>2
  <1>9. Quiet
    <2>1. ASSUME NEW t \in TaskIds \ Unlinked
          PROVE  db'[t] = db[t]
      BY <1>6
    <2> QED  BY <1>8, <2>1 DEF Quiet
  <1>10. PICK new : new = [t \in Unlinked |-> db'[t]]
    OBVIOUS
  <1>11. /\ DOMAIN new = Unlinked /\ Insert(new)
         /\ \A t \in Unlinked : /\ new[t] \in Tasks /\ new[t] = db'[t]
                                /\ new[t].ver > cache[t].ver
    <2>1. \A t \in Unlinked : cache[t].ver <= db[t].ver
      BY <1>1 DEF CopyOf
    <2>2. \A t \in Unlinked : new[t] = db'[t]
      BY <1>10
    <2>3. \A t \in Unlinked : db'[t].ver > cache[t].ver
      BY <1>1, <1>7, <1>8, <2>1
    <2>4. Insert(new) /\ DOMAIN new = Unlinked
      BY <1>10
    <2> QED  BY <1>8, <2>2, <2>3, <2>4
  <1>12. \A t \in TaskIds : cache'[t] = IF t \in Unlinked THEN db'[t] ELSE cache[t]
    BY <1>1, <1>11 DEF Insert, CacheWith, Newer
  <1>13. ASSUME NEW t \in TaskIds
         PROVE  CopyOf(cache'[t], db'[t])
    <2>1. db'[t] \in Tasks /\ db[t] \in Tasks
      BY <1>1, <1>6
    <2>2. CASE t \in Unlinked
      BY <1>12, <2>1, <2>2 DEF CopyOf, Tasks
    <2>3. CASE t \notin Unlinked
      BY <1>1, <1>6, <1>12, <2>3
    <2> QED  BY <2>2, <2>3
  <1>14. \A t \in TaskIds : /\ cache'[t].commits = db[t].commits
                            /\ cache[t].commits = db[t].commits
    BY <1>1, <1>9, <1>13, SameTasks DEF CopyOf
  <1>15. \A t, u \in TaskIds :
           t # u => cache'[t].commits \intersect cache'[u].commits = {}
    BY <1>14 DEF Inv, DbOK, BlamelistsDisjoint
  <1>16. /\ cache' \in [TaskIds -> Tasks]
         /\ index' \in [Commits -> TaskIds \union {0}]
         /\ IndexAgrees'
    BY <1>1, <1>11, <1>15, InsertFacts
  <1>17. index' = index
    BY <1>1, <1>14, <1>16, SameIndex
  <1>18. \A t \in TaskIds : db'[t].status = db[t].status
    BY <1>6, <1>8
  <1> QED  BY <1>6, <1>9, <1>13, <1>16, <1>17, <1>18

\* The verdict which the cache justifies is justified by the database.
LEMMA DerivedVerdict ==
  ASSUME Inv, NEW j \in Unfinished
  PROVE  LET tasks == TasksOf(KeyOf(j))
             verdict == DeriveStatus(j)
         IN  /\ verdict \in {"in_progress"} \union Final
             /\ verdict = "success" =>
                  \E t \in tasks : db[t].status = "success"
             /\ verdict \in Failed =>
                  /\ Cardinality(tasks) = MaxAttempts
                  /\ \A t \in tasks : db[t].status \in Failed
  <1> DEFINE tasks == TasksOf(KeyOf(j))
             verdict == DeriveStatus(j)
             n == Cardinality(tasks)
  <1>1. /\ db \in [TaskIds -> Tasks] /\ cache \in [TaskIds -> Tasks]
        /\ \A t \in TaskIds : CopyOf(cache[t], db[t])
    BY DEF Inv, TypeOK, CacheOK
  <1>2. GetTasksByKey(KeyOf(j)) = tasks
    BY <1>1, CachedTasks
  <1>3. KeyOf(j) \in Keys
    BY KeyOfJob DEF Inv, JobsOK, Unfinished
  <1>4. tasks \in SUBSET TaskIds /\ n \in Nat
    BY TaskIdsFinite DEF TasksOf
  <1>5. n <= MaxAttempts
    BY <1>3 DEF Inv, AttemptsOK
  <1>6. ASSUME NEW t \in tasks
        PROVE  /\ cache[t].status = "success" => db[t].status = "success"
               /\ cache[t].status \in Failed => db[t].status \in Failed
               /\ cache[t].status \in {"success", "pending"} \union Failed
    BY <1>1, <1>4 DEF CopyOf, Tasks, Statuses, Failed, Final
  <1>7. verdict = IF \E t \in tasks : cache[t].status = "success"
                  THEN "success"
                  ELSE IF \/ \E t \in tasks : cache[t].status = "pending"
                          \/ n < MaxAttempts
                  THEN "in_progress"
                  ELSE IF \E t \in tasks : cache[t].status = "failure"
                  THEN "failure" ELSE "mishap"
    BY <1>2 DEF DeriveStatus
  <1> HIDE DEF tasks, verdict, n
  <1>8. verdict \in {"in_progress"} \union Final
    BY <1>7 DEF Final
  <1>9. verdict = "success" => \E t \in tasks : db[t].status = "success"
    BY <1>6, <1>7
  <1>10. verdict \in Failed => /\ n = MaxAttempts
                               /\ \A t \in tasks : db[t].status \in Failed
    BY <1>4, <1>5, <1>6, <1>7, BoundsAssumption DEF Failed
  <1> QED  BY <1>8, <1>9, <1>10 DEF tasks, verdict, n

\* The jobs get their verdicts, and the queue is computed again.
LEMMA VerdictsStep ==
  ASSUME Inv, db' \in [TaskIds -> Tasks], Quiet,
         jobs' = [j \in Jobs |->
                    IF j \in Unfinished
                    THEN [jobs[j] EXCEPT !.status = DeriveStatus(j)]
                    ELSE jobs[j]]
  PROVE  /\ jobs' \in [Jobs -> [status : {"none", "in_progress"} \union Final,
                                kind : JobKinds \union {NoKind}]]
         /\ JobsOK'
  <1>1. ASSUME NEW j \in Jobs
        PROVE  LET tasks == TasksOf(KeyOf(j))
               IN  /\ jobs'[j] \in [status : {"none", "in_progress"} \union Final,
                                    kind : JobKinds \union {NoKind}]
                   /\ jobs'[j].kind = jobs[j].kind
                   /\ jobs'[j].status = "none" => jobs[j].status = "none"
                   /\ jobs[j].status = "none" => jobs'[j].status = "none"
                   /\ jobs'[j].status = "success" =>
                        \E t \in tasks : db[t].status = "success"
                   /\ jobs'[j].status \in Failed =>
                        /\ Cardinality(tasks) = MaxAttempts
                        /\ \A t \in tasks : db[t].status \in Failed
    <2>1. jobs[j] \in [status : {"none", "in_progress"} \union Final,
                       kind : JobKinds \union {NoKind}]
      BY DEF Inv, TypeOK
    <2>2. CASE j \in Unfinished
      <3>1. PICK verdict : verdict = DeriveStatus(j)
        OBVIOUS
      <3>2. LET tasks == TasksOf(KeyOf(j))
            IN  /\ verdict \in {"in_progress"} \union Final
                /\ verdict = "success" =>
                     \E t \in tasks : db[t].status = "success"
                /\ verdict \in Failed =>
                     /\ Cardinality(tasks) = MaxAttempts
                     /\ \A t \in tasks : db[t].status \in Failed
        BY <2>2, <3>1, DerivedVerdict
      <3>3. jobs'[j] = [jobs[j] EXCEPT !.status = verdict]
        BY <2>2, <3>1
      <3>4. /\ jobs'[j].status = verdict /\ jobs'[j].kind = jobs[j].kind
            /\ jobs'[j] \in [status : {"none", "in_progress"} \union Final,
                             kind : JobKinds \union {NoKind}]
        BY <2>1, <3>2, <3>3
      <3>5. verdict # "none" /\ jobs[j].status = "in_progress"
        BY <2>2, <3>2 DEF Final, Unfinished
      <3> QED  BY <3>2, <3>4, <3>5
    <2>3. CASE j \notin Unfinished
      <3>1. jobs'[j] = jobs[j]
        BY <2>3
      <3> QED  BY <2>1, <3>1 DEF Inv, JobsOK, VerdictIsJustified
    <2> QED  BY <2>2, <2>3
  <1>2. jobs' \in [Jobs -> [status : {"none", "in_progress"} \union Final,
                            kind : JobKinds \union {NoKind}]]
    BY <1>1
  <1>3. ASSUME NEW j \in Jobs
        PROVE  LET tasks == TasksOf(KeyOf(j))'
               IN  /\ jobs'[j].status = "success" =>
                        \E t \in tasks : db'[t].status = "success"
                   /\ jobs'[j].status \in Failed =>
                        /\ Cardinality(tasks) = MaxAttempts
                        /\ \A t \in tasks : db'[t].status \in Failed
    <2>1. PICK tasks : tasks = TasksOf(KeyOf(j))
      OBVIOUS
    <2>2. KeyOf(j)' = KeyOf(j)
      BY <1>1 DEF KeyOf
    <2>3. TasksOf(KeyOf(j))' = tasks
      BY <2>1, <2>2, SameTasks DEF Inv
    <2>4. \A t \in tasks :
            t \in TaskIds /\ (db[t].status \in Final =>
                                db'[t].status = db[t].status)
      BY <2>1, SameTasks DEF TasksOf, Inv
    <2>5. /\ jobs'[j].status = "success" =>
               \E t \in tasks : db[t].status = "success"
          /\ jobs'[j].status \in Failed =>
               /\ Cardinality(tasks) = MaxAttempts
               /\ \A t \in tasks : db[t].status \in Failed
      BY <1>1, <2>1
    <2> QED  BY <2>3, <2>4, <2>5 DEF Final, Failed
  <1>4. \A j \in Jobs : jobs'[j].status # "none" => jobs'[j].kind \in JobKinds
    BY <1>1 DEF Inv, JobsOK
  <1> QED  BY <1>2, <1>3, <1>4 DEF JobsOK, VerdictIsJustified

LEMMA UpdateUnfinishedJobsStep ==
  ASSUME Inv, UpdateUnfinishedJobs
  PROVE  Inv'
  <1> USE DEF UpdateUnfinishedJobs
  <1>1. /\ UNCHANGED <<swarm, msgs, layer, chosen, triggered, tries,
                       pendingInsert, upd>>
        /\ pc = "jobs" /\ cands = {} /\ chosen = {} /\ Triggered = {}
        /\ TypeOK /\ DbOK /\ CacheOK /\ AttemptsOK
    BY DEF Inv, PcOK
  <1>2. SwarmStep /\ IdsInOrder'
    BY Unchanged DEF Inv, IdsInOrder
  <1>3. /\ db' \in [TaskIds -> Tasks] /\ cache' \in [TaskIds -> Tasks]
        /\ Quiet /\ index' = index /\ IndexAgrees'
        /\ \A t \in TaskIds : CopyOf(cache'[t], db'[t])
    <2>1. CASE /\ Current(Linked) /\ db' = Put(Linked)
               /\ Insert([t \in Unlinked |-> db'[t]])
      BY <2>1, LinkedFacts
    <2>2. CASE UNCHANGED <<db, cached>>
      <3>1. Quiet
        BY <2>2, Unchanged
      <3> QED  BY <1>1, <2>2, <3>1, CacheFrame DEF TypeOK, cached
    <2> QED  BY <2>1, <2>2
  <1>4. faults' \in 0 .. MaxFaults
    BY <1>1, BoundsAssumption DEF Fault, TypeOK
  <1>5. AttemptsOK'
    BY <1>1, <1>3, QuietAttempts
  <1>6. /\ jobs' \in [Jobs -> [status : {"none", "in_progress"} \union Final,
                               kind : JobKinds \union {NoKind}]]
        /\ JobsOK'
    <2>1. CASE UNCHANGED jobs
      BY <1>1, <1>3, <2>1, JobsFrame DEF Inv, TypeOK
    <2>2. CASE jobs' = [j \in Jobs |->
                          IF j \in Unfinished
                          THEN [jobs[j] EXCEPT !.status = DeriveStatus(j)]
                          ELSE jobs[j]]
      BY <1>3, <2>2, VerdictsStep
    <2> QED  BY <2>1, <2>2
  <1>7. QueueResult'
    <2>1. (QueueInput => QueueResult)'
      BY QueueFacts, PTL
    <2>2. QueueInput'
      BY <1>3, <1>5, <1>6 DEF QueueInput, JobsOK
    <2> QED  BY <2>1, <2>2
  <1>8. /\ cands' \subseteq CandidateType
        /\ \A c \in cands' : Due(c.key, c.attempt)'
        /\ \A c, d \in cands' : c.key = d.key => c = d
        /\ pc' = IF cands' = {} THEN "idle" ELSE "score"
    <2>1. CASE /\ cands' = Candidates'
               /\ pc' = IF cands' = {} THEN "idle" ELSE "score"
      BY <1>7, <2>1 DEF QueueResult
    <2>2. CASE pc' = "idle" /\ UNCHANGED cands
      BY <1>1, <2>2
    <2> QED  BY <2>1, <2>2
  <1>9. TypeOK'
    BY <1>1, <1>3, <1>4, <1>6, <1>8 DEF TypeOK
  <1>10. DbOK'
    BY <1>1, <1>2, <1>3, <1>9, QuietDb
  <1>11. CacheOK'
    BY <1>3 DEF CacheOK
  <1>12. LayerOK'
    BY <1>1, <1>3, <1>9, LayerIsEmpty, LayerEmpty DEF Inv
  <1>13. Triggered' = {}
    BY <1>1 DEF Triggered
  <1>14. QueueOK'
    BY <1>1, <1>8, <1>13 DEF QueueOK
  <1>15. PcOK'
    BY <1>1, <1>8, <1>13 DEF PcOK
  <1>16. UpdOK'
    BY <1>1, <1>2, <1>3, <1>9, QuietVersions, UpdFrame DEF Inv
  <1> QED  BY <1>2, <1>5, <1>6, <1>9, <1>10, <1>11, <1>12, <1>14, <1>15, <1>16
           DEF Inv

-----------------------------------------------------------------------------
(***************************************************************************)
(* New tasks enter the database.                                           *)
(***************************************************************************)
\* The triggered tasks are new; the tasks of the layer have its blamelists.
Entered ==
  /\ db' \in [TaskIds -> Tasks]
  /\ \A t \in Triggered :
       /\ t \in TaskIds /\ layer[t] # NoTask
       /\ db[t].ver = 0 /\ db'[t].ver = 1
       /\ db'[t].key = triggered[t].key
       /\ db'[t].attempt = triggered[t].attempt
       /\ db'[t].status = triggered[t].status
  /\ \A t \in TaskIds \ Triggered :
       IF layer[t] = NoTask
       THEN db'[t] = db[t]
       ELSE /\ db[t].ver > 0 /\ db'[t].ver = db[t].ver + 1
            /\ db'[t].key = db[t].key
            /\ db'[t].attempt = db[t].attempt
            /\ db'[t].status = db[t].status
  /\ \A t \in TaskIds : /\ db'[t].commits = Seen(layer, cache, t)
                         /\ Rooted(db'[t])

LEMMA EnteredFacts ==
  ASSUME Inv, pc = "blame", ToBlame = {}, Current(UpdatedTasks),
         db' = Put(UpdatedTasks)
  PROVE  Entered
  <1> DEFINE D == {u \in TaskIds : layer[u] # NoTask}
  <1>1. /\ db \in [TaskIds -> Tasks] /\ triggered \in [TaskIds -> Tasks]
        /\ \A t \in TaskIds : layer[t] \in Tasks
    BY IdFacts DEF Inv, TypeOK
  <1>2. Triggered \subseteq D
    BY DEF ToBlame, Triggered
  <1>3. PICK put : put = UpdatedTasks
    OBVIOUS
  <1>4. DOMAIN put = D /\ \A t \in D : put[t] = layer[t]
    BY <1>3 DEF UpdatedTasks
  <1>5. /\ db' \in [TaskIds -> Tasks]
        /\ \A t \in TaskIds \ D : db'[t] = db[t]
        /\ \A t \in D :
             db'[t] = [key |-> put[t].key, attempt |-> put[t].attempt,
                       status |-> put[t].status, commits |-> put[t].commits,
                       jobs |-> put[t].jobs, ver |-> put[t].ver + 1]
    <2>1. D \in SUBSET TaskIds /\ \A t \in D : put[t] \in Tasks
      BY <1>1, <1>4
    <2>2. db' = Put(put)
      BY <1>3
    <2> HIDE DEF D
    <2> QED  BY <1>1, <1>4, <2>1, <2>2, PutFacts
  <1>6. ASSUME NEW t \in D
        PROVE  /\ db'[t].key = layer[t].key
               /\ db'[t].attempt = layer[t].attempt
               /\ db'[t].status = layer[t].status
               /\ db'[t].commits = layer[t].commits
               /\ db'[t].ver = layer[t].ver + 1
    BY <1>4, <1>5
  <1>7. ASSUME NEW t \in D
        PROVE  layer[t].ver = db[t].ver
    BY <1>3, <1>4 DEF Current
  <1>8. ASSUME NEW t \in Triggered
        PROVE  /\ t \in TaskIds /\ layer[t] # NoTask
               /\ db[t].ver = 0 /\ db'[t].ver = 1
               /\ db'[t].key = triggered[t].key
               /\ db'[t].attempt = triggered[t].attempt
               /\ db'[t].status = triggered[t].status
    <2>1. t \in D
      BY <1>2
    <2>2. db[t].ver = 0
      BY DEF Inv, QueueOK
    <2>3. layer[t].ver = 0
      BY <1>7, <2>1, <2>2
    <2>4. ~Robbed(db[t], layer[t])
      BY <2>3 DEF Robbed
    <2>5. layer[t] = [triggered[t] EXCEPT !.commits = layer[t].commits]
      BY <2>1, <2>4 DEF Inv, LayerOK, Blamed
    <2>6. /\ layer[t].key = triggered[t].key
          /\ layer[t].attempt = triggered[t].attempt
          /\ layer[t].status = triggered[t].status
      <3>1. triggered[t] \in Tasks /\ layer[t].commits \in SUBSET Commits
        BY <1>1, <2>1 DEF Tasks
      <3>2. PICK x, b : x = triggered[t] /\ b = layer[t].commits
        OBVIOUS
      <3>3. layer[t] = [key |-> x.key, attempt |-> x.attempt,
                        status |-> x.status, commits |-> b, jobs |-> x.jobs,
                        ver |-> x.ver]
        BY <2>5, <3>1, <3>2, WithCommits
      <3> QED  BY <3>2, <3>3
    <2> QED  BY <1>6, <2>1, <2>2, <2>3, <2>6
  <1>9. ASSUME NEW t \in D, t \notin Triggered
        PROVE  /\ db[t].ver > 0 /\ db'[t].ver = db[t].ver + 1
               /\ db'[t].key = db[t].key
               /\ db'[t].attempt = db[t].attempt
               /\ db'[t].status = db[t].status
    <2>1. Robbed(db[t], layer[t])
      BY <1>9 DEF Inv, LayerOK, Blamed
    <2>2. /\ db[t].ver > 0
          /\ layer[t] = [db[t] EXCEPT !.commits = layer[t].commits]
      BY <1>7, <2>1 DEF Robbed
    <2>3. db[t] \in Tasks /\ layer[t].commits \in SUBSET Commits
      BY <1>1 DEF Tasks
    <2>4. PICK x, b : x = db[t] /\ b = layer[t].commits
      OBVIOUS
    <2>5. layer[t] = [key |-> x.key, attempt |-> x.attempt,
                      status |-> x.status, commits |-> b, jobs |-> x.jobs,
                      ver |-> x.ver]
      BY <2>2, <2>3, <2>4, WithCommits
    <2> QED  BY <1>6, <2>2, <2>4, <2>5
  <1>10. ASSUME NEW t \in TaskIds
         PROVE  /\ db'[t].commits = Seen(layer, cache, t)
                /\ Rooted(db'[t])
    <2>1. CASE t \in D
      <3>1. Rooted(layer[t])
        BY <2>1, IdFacts DEF Inv, LayerOK
      <3> QED  BY <1>6, <2>1, <3>1 DEF Seen, Rooted
    <2>2. CASE t \notin D
      <3>1. CopyOf(cache[t], db[t]) /\ Rooted(db[t])
        BY DEF Inv, CacheOK, DbOK
      <3>2. db'[t] = db[t]
        BY <1>5, <2>2
      <3> QED  BY <2>2, <3>1, <3>2 DEF Seen, CopyOf
    <2> QED  BY <2>1, <2>2
  <1> QED  BY <1>5, <1>8, <1>9, <1>10 DEF Entered

\* A task which is in the database already changes in its blamelist only.
LEMMA EnteredVersions ==
  ASSUME Inv, Entered
  PROVE  /\ NewVersions
         /\ \A t \in TaskIds : layer[t] # NoTask => db'[t].ver > db[t].ver
         /\ \A t \in TaskIds : db[t].ver > 0 =>
              /\ t \notin Triggered
              /\ db'[t].ver > 0 /\ db'[t].key = db[t].key
              /\ db'[t].attempt = db[t].attempt
              /\ db'[t].status = db[t].status
         /\ \A t \in TaskIds : db'[t].ver > 0 => db[t].ver > 0 \/ t \in Triggered
  <1>1. \A t \in TaskIds : db[t].ver \in Nat
    BY DEF Inv, TypeOK, Tasks
  <1>2. ASSUME NEW t \in TaskIds
        PROVE  db'[t] = db[t] \/ db'[t].ver > db[t].ver
    BY <1>1 DEF Entered
  <1>3. \A t \in TaskIds : layer[t] # NoTask => db'[t].ver > db[t].ver
    BY <1>1 DEF Entered
  <1>4. ASSUME NEW t \in TaskIds, db[t].ver > 0
        PROVE  /\ t \notin Triggered
               /\ db'[t].ver > 0 /\ db'[t].key = db[t].key
               /\ db'[t].attempt = db[t].attempt
               /\ db'[t].status = db[t].status
    BY <1>1, <1>4 DEF Entered
  <1>5. ASSUME NEW t \in TaskIds, t \notin Triggered, db'[t].ver > 0
        PROVE  db[t].ver > 0
    BY <1>5 DEF Entered
  <1> QED  BY <1>2, <1>3, <1>4, <1>5 DEF NewVersions

LEMMA EnteredDb ==
  ASSUME Inv, Entered, UNCHANGED swarm
  PROVE  DbOK'
  <1>1. BlamelistsDisjoint'
    <2> SUFFICES ASSUME NEW t \in TaskIds, NEW u \in TaskIds, NEW c,
                        c \in db'[t].commits, c \in db'[u].commits
                 PROVE  t = u
      BY DEF BlamelistsDisjoint
    <2>1. c \in Commits
      BY DEF Entered, Tasks
    <2>2. t \in Ids /\ u \in Ids
      BY IdFacts
    <2>3. c \in Seen(layer, cache, t) /\ c \in Seen(layer, cache, u)
      BY DEF Entered
    <2> QED  BY <2>1, <2>2, <2>3 DEF Inv, LayerOK, Agree
  <1>2. ASSUME NEW t \in TaskIds
        PROVE  /\ db'[t].ver = 0 => db'[t] = NoTask
               /\ db'[t].ver > 0 => db'[t].key \in Keys
               /\ swarm'[t] = "none" => db'[t].ver = 0
               /\ db'[t].status \in {"pending", swarm'[t]}
               /\ Rooted(db'[t])
    <2>1. db[t].ver \in Nat
      BY DEF Inv, TypeOK, Tasks
    <2>2. /\ db[t].ver = 0 => db[t] = NoTask
          /\ db[t].ver > 0 => db[t].key \in Keys
          /\ swarm[t] = "none" => db[t].ver = 0
          /\ db[t].status \in {"pending", swarm[t]}
      BY DEF Inv, DbOK
    <2>3. CASE t \in Triggered
      <3>1. /\ triggered[t].key \in Keys /\ swarm[t] # "none"
            /\ triggered[t].status \in {"pending", swarm[t]}
        BY <2>3 DEF Inv, QueueOK
      <3> QED  BY <2>3, <3>1 DEF Entered
    <2>4. CASE t \notin Triggered
      BY <2>1, <2>2, <2>4 DEF Entered
    <2> QED  BY <2>3, <2>4
  <1> QED  BY <1>1, <1>2 DEF DbOK

LEMMA EnteredCache ==
  ASSUME Inv, Entered, Insert([t \in DOMAIN UpdatedTasks |-> db'[t]])
  PROVE  /\ cache' \in [TaskIds -> Tasks]
         /\ index' \in [Commits -> TaskIds \union {0}]
         /\ CacheOK'
  <1> DEFINE D == {u \in TaskIds : layer[u] # NoTask}
  <1>1. PICK new : new = [t \in DOMAIN UpdatedTasks |-> db'[t]]
    OBVIOUS
  <1>2. /\ DOMAIN new = D /\ D \in SUBSET TaskIds
        /\ \A t \in D : new[t] = db'[t] /\ new[t] \in Tasks
        /\ Insert(new)
    BY <1>1 DEF UpdatedTasks, Entered
  <1>3. /\ TypeOK /\ IndexAgrees
        /\ \A t \in TaskIds : CopyOf(cache[t], db[t])
    BY DEF Inv, CacheOK
  <1>4. \A t \in TaskIds : /\ db[t].ver \in Nat /\ cache[t].ver \in Nat
                           /\ db'[t] \in Tasks /\ db'[t].ver \in Nat
    BY <1>3 DEF TypeOK, Tasks, Entered
  <1>5. ASSUME NEW t \in D
        PROVE  new[t].ver > cache[t].ver
    <2>1. db'[t].ver > db[t].ver /\ cache[t].ver <= db[t].ver
      BY <1>3, EnteredVersions DEF CopyOf
    <2> QED  BY <1>2, <1>4, <2>1
  <1>6. \A t \in TaskIds : cache'[t] = IF t \in D THEN db'[t] ELSE cache[t]
    <2> HIDE DEF D
    <2> QED  BY <1>2, <1>5 DEF Insert, CacheWith, Newer
  <1>7. ASSUME NEW t \in TaskIds
        PROVE  CopyOf(cache'[t], db'[t])
    <2>1. CASE t \in D
      BY <1>4, <1>6, <2>1 DEF CopyOf, Tasks
    <2>2. CASE t \notin D
      <3>1. db'[t] = db[t]
        <4>1. t \notin Triggered
          BY <2>2 DEF Entered
        <4> QED  BY <2>2, <4>1 DEF Entered
      <3> QED  BY <1>3, <1>6, <2>2, <3>1
    <2> QED  BY <2>1, <2>2
  <1>8. BlamelistsDisjoint'
    <2>1. ASSUME NEW t \in TaskIds, NEW u \in TaskIds, NEW c,
                 c \in db'[t].commits, c \in db'[u].commits
          PROVE  t = u
      <3>1. c \in Commits
        BY <1>4, <2>1 DEF Tasks
      <3>2. t \in Ids /\ u \in Ids
        BY IdFacts
      <3>3. c \in Seen(layer, cache, t) /\ c \in Seen(layer, cache, u)
        BY <2>1 DEF Entered
      <3> QED  BY <3>1, <3>2, <3>3 DEF Inv, LayerOK, Agree
    <2> QED  BY <2>1 DEF BlamelistsDisjoint
  <1>9. \A t, u \in TaskIds :
          t # u => cache'[t].commits \intersect cache'[u].commits = {}
    BY <1>7, <1>8 DEF BlamelistsDisjoint, CopyOf
  <1>10. /\ cache' \in [TaskIds -> Tasks]
         /\ index' \in [Commits -> TaskIds \union {0}]
         /\ IndexAgrees'
    <2> HIDE DEF D
    <2> QED  BY <1>2, <1>3, <1>9, InsertFacts
  <1> QED  BY <1>7, <1>10 DEF CacheOK

\* The attempts of a key, with the one which is new.
LEMMA EnteredTasks ==
  ASSUME Inv, Entered, NEW k
  PROVE  /\ TasksOf(k)' = TasksOf(k) \union {t \in Triggered : triggered[t].key = k}
         /\ \A t \in TasksOf(k) : /\ t \in TaskIds /\ t \notin Triggered
                                  /\ db'[t].status = db[t].status
                                  /\ db'[t].attempt = db[t].attempt
  <1>1. ASSUME NEW t \in TasksOf(k)
        PROVE  /\ t \in TaskIds /\ t \notin Triggered
               /\ db'[t].status = db[t].status
               /\ db'[t].attempt = db[t].attempt
               /\ t \in TasksOf(k)'
    BY EnteredVersions DEF TasksOf, InDB
  <1>2. ASSUME NEW t \in Triggered, triggered[t].key = k
        PROVE  t \in TasksOf(k)'
    BY <1>2 DEF Entered, TasksOf, InDB
  <1>3. ASSUME NEW t \in TasksOf(k)'
        PROVE  t \in TasksOf(k) \/ (t \in Triggered /\ triggered[t].key = k)
    <2>1. t \in TaskIds /\ db'[t].ver > 0 /\ db'[t].key = k
      BY DEF TasksOf, InDB
    <2>2. CASE t \in Triggered
      BY <2>1, <2>2 DEF Entered
    <2>3. CASE t \notin Triggered
      BY <2>1, <2>3, EnteredVersions DEF TasksOf, InDB
    <2> QED  BY <2>2, <2>3
  <1> QED  BY <1>1, <1>2, <1>3

LEMMA EnteredAttempts ==
  ASSUME Inv, Entered
  PROVE  AttemptsOK'
  <1> SUFFICES ASSUME NEW k \in Keys
               PROVE  /\ {db'[t].attempt : t \in TasksOf(k)'} =
                           0 .. Cardinality(TasksOf(k)') - 1
                      /\ Cardinality(TasksOf(k)') <= MaxAttempts
                      /\ \A t, u \in TasksOf(k)' :
                           t < u => /\ db'[t].status \in Failed
                                    /\ db'[t].attempt < db'[u].attempt
    BY DEF AttemptsOK
  <1> DEFINE n == Cardinality(TasksOf(k))
  <1>1. /\ {db[t].attempt : t \in TasksOf(k)} = 0 .. n - 1
        /\ n <= MaxAttempts
        /\ \A t, u \in TasksOf(k) : t < u => /\ db[t].status \in Failed
                                             /\ db[t].attempt < db[u].attempt
    BY DEF Inv, AttemptsOK
  <1>2. /\ TasksOf(k)' = TasksOf(k) \union {t \in Triggered : triggered[t].key = k}
        /\ \A t \in TasksOf(k) : /\ t \in TaskIds /\ t \notin Triggered
                                 /\ db'[t].status = db[t].status
                                 /\ db'[t].attempt = db[t].attempt
    BY EnteredTasks
  <1>3. TasksOf(k) \in SUBSET TaskIds /\ IsFiniteSet(TasksOf(k)) /\ n \in Nat
    BY TaskIdsFinite DEF TasksOf
  <1>4. {db'[t].attempt : t \in TasksOf(k)} = 0 .. n - 1
    BY <1>1, <1>2
  <1>5. CASE ~\E t \in Triggered : triggered[t].key = k
    <2>1. TasksOf(k)' = TasksOf(k)
      BY <1>2, <1>5
    <2> QED  BY <1>1, <1>2, <1>4, <2>1
  <1>6. CASE \E t \in Triggered : triggered[t].key = k
    <2>1. PICK new \in Triggered : triggered[new].key = k
      BY <1>6
    <2>2. /\ Due(k, triggered[new].attempt)
          /\ \A u \in TasksOf(k) : u < new
          /\ \A u \in Triggered : triggered[u].key = k => u = new
      BY <2>1 DEF Inv, QueueOK
    <2>3. /\ TasksOf(k)' = TasksOf(k) \union {new}
          /\ new \notin TasksOf(k) /\ new \in TaskIds
      BY <1>2, <2>1, <2>2 DEF Entered
    <2>4. db'[new].attempt = n /\ n < MaxAttempts
          /\ \A t \in TasksOf(k) : db[t].status \in Failed
      BY <2>1, <2>2 DEF Entered, Due
    <2>5. Cardinality(TasksOf(k)') = n + 1
      BY <1>3, <2>3, FS_AddElement
    <2>6. {db'[t].attempt : t \in TasksOf(k)'} = 0 .. n
      <3>1. {db'[t].attempt : t \in TasksOf(k)'} =
              {db'[t].attempt : t \in TasksOf(k)} \union {n}
        BY <2>3, <2>4
      <3>2. (0 .. n - 1) \union {n} = 0 .. n
        BY <1>3
      <3> QED  BY <1>4, <3>1, <3>2
    <2>7. \A t \in TasksOf(k) : db'[t].attempt < n
      <3>1. \A t \in TasksOf(k) : db'[t].attempt \in 0 .. n - 1
        BY <1>4
      <3> QED  BY <1>3, <3>1
    <2>8. ASSUME NEW t \in TasksOf(k)', NEW u \in TasksOf(k)', t < u
          PROVE  db'[t].status \in Failed /\ db'[t].attempt < db'[u].attempt
      <3>1. \A x \in TaskIds : x \in Int
        BY DEF TaskIds
      <3>2. t \in TasksOf(k)
        BY <1>2, <2>2, <2>3, <2>8, <3>1
      <3>3. CASE u = new
        BY <1>2, <2>4, <2>7, <3>2, <3>3
      <3>4. CASE u \in TasksOf(k)
        BY <1>1, <1>2, <2>8, <3>2, <3>4
      <3> QED  BY <2>3, <3>3, <3>4
    <2> QED  BY <1>3, <2>4, <2>5, <2>6, <2>8, BoundsAssumption
  <1> QED  BY <1>5, <1>6

LEMMA EnteredJobs ==
  ASSUME Inv, Entered, UNCHANGED jobs
  PROVE  JobsOK'
  <1>1. ASSUME NEW j \in Jobs
        PROVE  LET tasks == TasksOf(KeyOf(j))'
               IN  /\ jobs'[j].status = "success" =>
                        \E t \in tasks : db'[t].status = "success"
                   /\ jobs'[j].status \in Failed =>
                        /\ Cardinality(tasks) = MaxAttempts
                        /\ \A t \in tasks : db'[t].status \in Failed
    <2>1. PICK k : k = KeyOf(j)
      OBVIOUS
    <2>2. KeyOf(j)' = k
      BY <2>1 DEF KeyOf
    <2>3. /\ TasksOf(k)' =
               TasksOf(k) \union {t \in Triggered : triggered[t].key = k}
          /\ \A t \in TasksOf(k) : db'[t].status = db[t].status
      BY EnteredTasks
    <2>4. /\ jobs[j].status = "success" =>
               \E t \in TasksOf(k) : db[t].status = "success"
          /\ jobs[j].status \in Failed =>
               /\ Cardinality(TasksOf(k)) = MaxAttempts
               /\ \A t \in TasksOf(k) : db[t].status \in Failed
      BY <2>1 DEF Inv, JobsOK, VerdictIsJustified
    <2>5. ASSUME jobs[j].status \in Failed
          PROVE  TasksOf(k)' = TasksOf(k)
      <3>1. ASSUME NEW t \in Triggered, triggered[t].key = k
            PROVE  FALSE
        <4>1. Due(k, triggered[t].attempt)
          BY <3>1 DEF Inv, QueueOK
        <4> QED  BY <2>4, <2>5, <4>1, BoundsAssumption DEF Due
      <3> QED  BY <2>3, <3>1
    <2>6. TasksOf(KeyOf(j))' = TasksOf(k)'
      BY <2>2 DEF TasksOf
    <2>7. /\ jobs'[j].status = "success" =>
               \E t \in TasksOf(k)' : db'[t].status = "success"
          /\ jobs'[j].status \in Failed =>
               /\ Cardinality(TasksOf(k)') = MaxAttempts
               /\ \A t \in TasksOf(k)' : db'[t].status \in Failed
      BY <2>3, <2>4, <2>5
    <2> QED  BY <2>6, <2>7
  <1> QED  BY <1>1 DEF Inv, JobsOK, VerdictIsJustified

LEMMA PutTasksStep ==
  ASSUME Inv, PutTasks
  PROVE  Inv'
  <1> USE DEF PutTasks
  <1>1. Entered
    BY EnteredFacts
  <1>2. SwarmStep /\ IdsInOrder'
    BY Unchanged DEF Inv, IdsInOrder
  <1>3. DbOK' /\ AttemptsOK' /\ JobsOK'
    BY <1>1, EnteredDb, EnteredAttempts, EnteredJobs
  <1>4. /\ cache' \in [TaskIds -> Tasks]
        /\ index' \in [Commits -> TaskIds \union {0}]
        /\ CacheOK'
    BY <1>1, EnteredCache
  <1>5. /\ layer' \in [Ids -> Tasks] /\ triggered' \in [TaskIds -> Tasks]
        /\ tries' \in 0 .. NumRetries - 1
        /\ pendingInsert' \subseteq TaskIds
        /\ pc' = "idle"
    BY NoTaskType, BoundsAssumption DEF NoLayer, EndInserting, Empty, Inv, TypeOK
  <1>6. TypeOK'
    BY <1>1, <1>4, <1>5 DEF Inv, TypeOK, Entered
  <1>7. LayerOK'
    BY <1>4, <1>6, LayerEmpty DEF CacheOK
  <1>8. Triggered' = {}
    BY DEF EndInserting, Triggered, Empty
  <1>9. cands' = {} /\ chosen' = {}
    BY DEF Inv, PcOK
  <1>10. QueueOK' /\ PcOK'
    BY <1>5, <1>8, <1>9 DEF QueueOK, PcOK
  <1>11. UpdOK'
    <2>1. NewVersions
      BY <1>1, EnteredVersions
    <2> QED  BY <1>2, <1>6, <2>1, UpdFrame DEF Inv
  <1> QED  BY <1>2, <1>3, <1>4, <1>6, <1>7, <1>10, <1>11 DEF Inv

-----------------------------------------------------------------------------
(***************************************************************************)
(* The invariant.                                                          *)
(***************************************************************************)
LEMMA InitInv == Init => Inv
  <1> SUFFICES ASSUME Init
               PROVE  Inv
    OBVIOUS
  <1> USE DEF Init
  <1>1. /\ \A t \in TaskIds : /\ db[t] = NoTask /\ cache[t] = NoTask
                              /\ triggered[t] = NoTask /\ swarm[t] = "none"
        /\ \A i \in Ids : layer[i] = NoTask
        /\ \A c \in Commits : index[c] = 0
        /\ NoTask.ver = 0 /\ NoTask.commits = {} /\ NoTask.status = "pending"
        /\ 0 \notin Ids
    BY IdFacts DEF Empty, NoLayer, NoTask
  <1>2. TypeOK
    <2>1. /\ db \in [TaskIds -> Tasks] /\ cache \in [TaskIds -> Tasks]
          /\ triggered \in [TaskIds -> Tasks] /\ layer \in [Ids -> Tasks]
      BY NoTaskType DEF Empty, NoLayer
    <2>2. upd \in [Updaters -> [task : TaskIds \union {0}, copy : Tasks,
                                tries : 0 .. NumRetries - 1]]
      BY NoTaskType, BoundsAssumption DEF NoUpdates, NoUpdate
    <2>3. tries \in 0 .. NumRetries - 1 /\ faults \in 0 .. MaxFaults
      BY BoundsAssumption
    <2>4. jobs \in [Jobs -> [status : {"none", "in_progress"} \union Final,
                             kind : JobKinds \union {NoKind}]]
      OBVIOUS
    <2> QED  BY <2>1, <2>2, <2>3, <2>4 DEF TypeOK
  <1>3. Triggered = {} /\ \A k : TasksOf(k) = {}
    BY <1>1 DEF Triggered, TasksOf, InDB
  <1>4. DbOK /\ IdsInOrder
    BY <1>1 DEF DbOK, BlamelistsDisjoint, Rooted, IdsInOrder
  <1>5. IndexAgrees
    BY <1>1, IdFacts DEF IndexAgrees
  <1>6. CacheOK
    BY <1>1, <1>5 DEF CacheOK, CopyOf
  <1>7. LayerOK
    <2>1. Agree(layer, cache, index)
      BY <1>1 DEF Agree, Lookup, Seen
    <2> QED  BY <1>1, <2>1, IdFacts DEF LayerOK
  <1>8. AttemptsOK
    <2>1. Cardinality({}) = 0 /\ 0 .. 0 - 1 = {}
      BY FS_EmptySet
    <2>2. \A k : {db[t].attempt : t \in TasksOf(k)} = {}
      BY <1>3
    <2>3. \A k : Cardinality(TasksOf(k)) = 0
      BY <1>3, <2>1
    <2> QED  BY <1>3, <2>1, <2>2, <2>3, BoundsAssumption DEF AttemptsOK
  <1>9. QueueOK /\ PcOK
    BY <1>3 DEF QueueOK, PcOK
  <1>10. UpdOK
    BY DEF UpdOK, NoUpdates
  <1>11. JobsOK
    BY DEF JobsOK, VerdictIsJustified, Failed
  <1> QED  BY <1>2, <1>4, <1>6, <1>7, <1>8, <1>9, <1>10, <1>11 DEF Inv

LEMMA Stutter ==
  ASSUME Inv, UNCHANGED vars
  PROVE  Inv'
  <1>1. UNCHANGED <<db, jobs, swarm, msgs, cached, loop, pendingInsert, upd,
                    faults>>
    BY DEF vars
  <1>2. Quiet /\ SwarmStep /\ NewVersions
    BY <1>1, Unchanged
  <1>3. TypeOK'
    BY <1>1 DEF Inv, TypeOK, cached, loop
  <1>4. IndexAgrees' /\ \A t \in TaskIds : CopyOf(cache'[t], db'[t])
    BY <1>1, <1>2, CacheFrame DEF Inv
  <1>5. IdsInOrder' /\ index' = index
    BY <1>1 DEF Inv, IdsInOrder, cached
  <1>6. UpdOK'
    BY <1>1, <1>2, <1>3, UpdFrame DEF Inv
  <1> QED  BY <1>1, <1>2, <1>3, <1>4, <1>5, <1>6, OutsideFrame

LEMMA NextInv == Inv /\ [Next]_vars => Inv'
  <1> SUFFICES ASSUME Inv, [Next]_vars
               PROVE  Inv'
    OBVIOUS
  <1>1. ASSUME NEW j \in Jobs, NEW kind \in JobKinds, NewJob(j, kind)
        PROVE  Inv'
    BY <1>1, NewJobStep
  <1>2. CASE MainLoop
    <2>1. ASSUME NEW arrived \in SUBSET Stale,
                 StartLoop(arrived) \/ StartAttempt(arrived)
          PROVE  Inv'
      BY <2>1, StartStep
    <2>2. CASE UpdateUnfinishedJobs
      BY <2>2, UpdateUnfinishedJobsStep
    <2>3. ASSUME NEW c \in cands, ProcessCandidate(c)
          PROVE  Inv'
      BY <2>3, ProcessCandidateStep
    <2>4. ASSUME NEW c \in chosen, TriggerTask(c)
          PROVE  Inv'
      BY <2>4, TriggerTaskStep
    <2>5. CASE ComputeBlamelist
      BY <2>5, ComputeBlamelistStep
    <2>6. CASE PutTasks
      BY <2>6, PutTasksStep
    <2>7. CASE PutConflicts
      BY <2>7, PutFailsStep
    <2> QED  BY <1>2, <2>1, <2>2, <2>3, <2>4, <2>5, <2>6, <2>7 DEF MainLoop
  <1>3. ASSUME NEW t \in TaskIds, NEW result \in Results,
               SwarmingFinishes(t, result)
        PROVE  Inv'
    BY <1>3, SwarmingFinishesStep
  <1>4. ASSUME NEW t \in TaskIds, HandleSwarmingPubSub(t)
        PROVE  Inv'
    BY <1>4, PubSubStep
  <1>5. ASSUME NEW t \in TaskIds, UpdateUnfinishedTask(t)
        PROVE  Inv'
    BY <1>5, UpdateUnfinishedTaskStep
  <1>6. ASSUME NEW u \in Updaters, WriteTask(u)
        PROVE  Inv'
    BY <1>6, WriteTaskStep
  <1>7. CASE Faulty
    <2>1. ASSUME NEW c \in chosen, TriggerFails(c) \/ NoResource(c)
          PROVE  Inv'
      BY <2>1, TriggerFailsStep
    <2>2. CASE PutFails
      BY <2>2, PutFailsStep
    <2>3. CASE Crash
      BY <2>3, CrashStep
    <2> QED  BY <1>7, <2>1, <2>2, <2>3 DEF Faulty
  <1>8. CASE UNCHANGED vars
    BY <1>8, Stutter
  <1> QED  BY <1>1, <1>2, <1>3, <1>4, <1>5, <1>6, <1>7, <1>8 DEF Next

LEMMA Invariance == Spec => []Inv
  BY InitInv, NextInv, PTL DEF Spec

-----------------------------------------------------------------------------
(***************************************************************************)
(* The theorems.                                                           *)
(***************************************************************************)
\* The type of all state, for every history and all bounds; in particular
\* addTasks and UpdateTasksWithRetries stay within NUM_RETRIES attempts.
THEOREM TypeCorrect == Spec => []TypeOK
<1>1. Inv => TypeOK
  BY DEF Inv
<1> QED
  BY <1>1, Invariance, PTL

\* No commit is ever in the blamelists of two tasks, for every history without
\* a cycle, whatever the cache has missed, however the writes of the main loop
\* and of the updaters interleave, and after crashes.
THEOREM BlamelistsAreDisjoint == Spec => []BlamelistsDisjoint
<1>1. Inv => BlamelistsDisjoint
  BY DEF Inv, DbOK
<1> QED
  BY <1>1, Invariance, PTL

\* A task with a blamelist keeps its own revision in it: a later task at an
\* older commit steals only what is in the history of that commit, or all.
THEOREM EveryTaskHasItsRevision == Spec => []OwnRevision
<1>1. Inv => OwnRevision
  BY DEF Inv, DbOK, Rooted, OwnRevision
<1> QED
  BY <1>1, Invariance, PTL

\* The attempts which filterTaskCandidates numbers from the cache have no gaps
\* and no repetitions in the database, each but the last has failed, and there
\* are at most MaxAttempts of them.
THEOREM AttemptsAreInOrder == Spec => []AttemptsInOrder
<1>1. Inv => AttemptsInOrder
  <2> SUFFICES ASSUME Inv
               PROVE  AttemptsInOrder
    OBVIOUS
  <2>1. \A t \in TaskIds : db[t].key # NoKey => db[t].key \in Keys
    BY DEF Inv, TypeOK, Tasks
  <2> QED  BY <2>1 DEF Inv, AttemptsOK, AttemptsInOrder
<1> QED
  BY <1>1, Invariance, PTL

\* What updateUnfinishedJobs concludes from its cache holds in the database.
THEOREM VerdictsAreJustified == Spec => []VerdictIsJustified
<1>1. Inv => VerdictIsJustified
  BY DEF Inv, JobsOK
<1> QED
  BY <1>1, Invariance, PTL

\* The index by commit and the tasks of the cache never disagree.
THEOREM IndexIsRight == Spec => []IndexAgrees
<1>1. Inv => IndexAgrees
  BY DEF Inv, CacheOK
<1> QED
  BY <1>1, Invariance, PTL

-----------------------------------------------------------------------------
(***************************************************************************)
(* The ledger.                                                             *)
(***************************************************************************)
Outcome(t) == IF InDB(t) THEN db[t].status ELSE "none"

OwnerIsUnique ==
  \A c \in Commits : /\ Owner(c) \in TaskIds \union {0}
                     /\ \A t \in TaskIds : Owner(c) = t <=> c \in db[t].commits

LEMMA UniqueOwner == BlamelistsDisjoint => OwnerIsUnique
  <1> SUFFICES ASSUME BlamelistsDisjoint, NEW c \in Commits
               PROVE  /\ Owner(c) \in TaskIds \union {0}
                      /\ \A t \in TaskIds : Owner(c) = t <=> c \in db[t].commits
    BY DEF OwnerIsUnique
  <1>1. \A t, u \in TaskIds : c \in db[t].commits /\ c \in db[u].commits => t = u
    BY DEF BlamelistsDisjoint
  <1> QED  BY <1>1, IdFacts DEF Owner

\* Most steps change neither blamelists nor results.
LEMMA LedgerFrame ==
  ASSUME Inv, Inv', Quiet,
         \A t \in TaskIds : db'[t].status = db[t].status
  PROVE  UNCHANGED Ledger!ledger
  <1>1. \A t \in TaskIds : db[t].ver \in Nat
    BY DEF Inv, TypeOK, Tasks
  <1>2. \A t \in TaskIds : Outcome(t)' = Outcome(t)
    BY <1>1 DEF Quiet, Outcome, InDB
  <1>3. \A c : Owner(c)' = Owner(c)
    BY SameTasks DEF Inv, Owner
  <1> QED  BY <1>2, <1>3 DEF Ledger!ledger, Outcome

LEMMA ConcludeStep ==
  ASSUME Inv, Inv', NEW u \in Updaters, WriteTask(u)
  PROVE  Ledger!Conclude \/ UNCHANGED Ledger!ledger
  <1>1. CASE UNCHANGED db
    BY <1>1, Unchanged, LedgerFrame
  <1>2. CASE /\ upd[u].copy.ver = db[upd[u].task].ver
             /\ db' = Put([x \in {upd[u].task} |-> upd[u].copy])
    <2>1. PICK t : t = upd[u].task
      OBVIOUS
    <2>2. /\ Quiet
          /\ \A x \in TaskIds \ {t} : db'[x] = db[x]
          /\ t \in TaskIds /\ swarm[t] \in Final
          /\ db[t].status = "pending" /\ InDB(t)
          /\ db'[t].status = swarm[t] /\ db'[t].ver > 0
      BY <1>2, <2>1, WriteFacts DEF WriteTask, Inv
    <2>3. \A c : Owner(c)' = Owner(c)
      BY <2>2, SameTasks DEF Inv, Owner
    <2>4. /\ Outcome(t) = "pending" /\ Outcome(t)' = swarm[t]
          /\ \A x \in TaskIds \ {t} : Outcome(x)' = Outcome(x)
      BY <2>2 DEF Outcome, InDB
    <2>5. [x \in TaskIds |-> Outcome(x)]' =
            [[x \in TaskIds |-> Outcome(x)] EXCEPT ![t] = swarm[t]]
      BY <2>2, <2>4
    <2>6. Ledger!Final = Final
      BY DEF Ledger!Final, Final
    <2> QED  BY <2>2, <2>3, <2>4, <2>5, <2>6 DEF Ledger!Conclude, Outcome
  <1> QED  BY <1>1, <1>2 DEF WriteTask

LEMMA EnterStep ==
  ASSUME Inv, Inv', PutTasks
  PROVE  Ledger!Enter
  <1> DEFINE new == {t \in TaskIds : Outcome(t) = "none" /\ Outcome(t)' # "none"}
  <1>1. Entered /\ pc = "blame"
    BY EnteredFacts DEF PutTasks
  <1>2. \A t \in TaskIds : /\ db[t].ver \in Nat /\ db[t].status \in Statuses
                           /\ db'[t].ver \in Nat /\ db'[t].status \in Statuses
    BY DEF Inv, TypeOK, Tasks
  <1>3. "none" \notin Statuses
    BY DEF Statuses, Final
  <1>4. new = Triggered
    <2>1. ASSUME NEW t \in Triggered
          PROVE  t \in new
      BY <1>1, <1>2, <1>3 DEF Entered, Outcome, InDB
    <2>2. ASSUME NEW t \in new
          PROVE  t \in Triggered
      BY <1>1, <1>2, <1>3, EnteredVersions DEF Outcome, InDB
    <2> QED  BY <2>1, <2>2
  <1>5. new # {}
    BY <1>1, <1>4 DEF Inv, PcOK
  <1>6. \A t \in TaskIds : Outcome(t)' \in {"none"} \union Statuses
    BY <1>2 DEF Outcome
  <1>7. \A t \in TaskIds \ new : Outcome(t)' = Outcome(t)
    <2>1. ASSUME NEW t \in TaskIds, t \notin Triggered
          PROVE  Outcome(t)' = Outcome(t)
      BY <1>1, <1>2, <2>1 DEF Entered, Outcome, InDB
    <2> QED  BY <1>4, <2>1
  <1>8. OwnerIsUnique /\ OwnerIsUnique'
    <2>1. (BlamelistsDisjoint => OwnerIsUnique)'
      BY UniqueOwner, PTL
    <2> QED  BY <2>1, UniqueOwner DEF Inv, DbOK
  <1>9. ASSUME NEW c \in Commits, Owner(c)' # Owner(c)
        PROVE  Owner(c)' \in new
    <2>1. PICK o, p : o = Owner(c) /\ p = Owner(c)'
      OBVIOUS
    <2>2. /\ o \in TaskIds \union {0} /\ p \in TaskIds \union {0} /\ o # p
          /\ \A t \in TaskIds : /\ o = t <=> c \in db[t].commits
                                /\ p = t <=> c \in db'[t].commits
      BY <1>8, <1>9, <2>1 DEF OwnerIsUnique
    <2>3. \A t \in TaskIds : p = t <=> c \in Seen(layer, cache, t)
      BY <1>1, <2>2 DEF Entered
    <2>4. p # 0
      <3> SUFFICES ASSUME p = 0
                   PROVE  FALSE
        OBVIOUS
      <3>1. o \in TaskIds /\ c \in cache[o].commits
        BY <2>2 DEF Inv, CacheOK, CopyOf
      <3>2. index[c] = o
        BY <3>1 DEF Inv, CacheOK, IndexAgrees
      <3>3. \A i \in Ids : c \notin layer[i].commits
        <4>1. ASSUME NEW i \in Fakes
              PROVE  layer[i] = NoTask
          BY <1>1 DEF Inv, LayerOK
        <4>2. ASSUME NEW i \in TaskIds
              PROVE  c \notin layer[i].commits
          <5>1. c \notin Seen(layer, cache, i)
            BY <2>3, IdFacts
          <5> QED  BY <5>1 DEF Seen, NoTask
        <4> QED  BY <4>1, <4>2, IdFacts DEF NoTask
      <3>4. Lookup(layer, index, c) = o
        BY <3>2, <3>3 DEF Lookup
      <3>5. c \in Seen(layer, cache, o)
        BY <3>1, <3>4, IdFacts DEF Inv, LayerOK, Agree
      <3> QED  BY <2>3, <3>1, <3>5, IdFacts
    <2>5. ASSUME p \notin Triggered
          PROVE  FALSE
      <3>1. p \in TaskIds /\ c \in db'[p].commits /\ c \notin db[p].commits
        BY <2>2, <2>4
      <3>2. layer[p] # NoTask
        BY <1>1, <2>5, <3>1 DEF Entered
      <3>3. Robbed(db[p], layer[p])
        BY <2>5, <3>1, <3>2 DEF Inv, LayerOK, Blamed
      <3>4. db'[p].commits = layer[p].commits
        BY <1>1, <3>1, <3>2 DEF Entered, Seen
      <3> QED  BY <3>1, <3>3, <3>4 DEF Robbed
    <2> QED  BY <1>4, <2>1, <2>5
  <1>10. /\ [t \in TaskIds |-> Outcome(t)]' \in [TaskIds -> Ledger!Outcomes]
         /\ [c \in Commits |-> Owner(c)]' \in [Commits -> TaskIds \union {0}]
    <2>1. {"none"} \union Statuses = Ledger!Outcomes
      BY DEF Ledger!Outcomes, Statuses, Ledger!Final, Final
    <2> QED  BY <1>6, <1>8, <2>1 DEF OwnerIsUnique
  <1> QED  BY <1>5, <1>7, <1>9, <1>10 DEF Ledger!Enter, Outcome

LEMMA LedgerStep ==
  ASSUME Inv, Inv', [Next]_vars
  PROVE  [Ledger!LedgerNext]_Ledger!ledger
  <1>1. CASE UNCHANGED db
    BY <1>1, Unchanged, LedgerFrame
  <1>2. CASE PutTasks
    BY <1>2, EnterStep DEF Ledger!LedgerNext
  <1>3. ASSUME NEW u \in Updaters, WriteTask(u)
        PROVE  [Ledger!LedgerNext]_Ledger!ledger
    BY <1>3, ConcludeStep DEF Ledger!LedgerNext
  <1>4. CASE UpdateUnfinishedJobs
    <2>1. CASE /\ Current(Linked) /\ db' = Put(Linked)
               /\ Insert([t \in Unlinked |-> db'[t]])
      BY <2>1, LinkedFacts, LedgerFrame
    <2> QED  BY <1>1, <1>4, <2>1 DEF UpdateUnfinishedJobs
  <1>5. \/ UNCHANGED db
        \/ PutTasks
        \/ \E u \in Updaters : WriteTask(u)
        \/ UpdateUnfinishedJobs
    BY DEF Next, vars, NewJob, MainLoop, Faulty, StartLoop, StartAttempt,
           ProcessCandidate, TriggerTask, Trigger, TriggerFails, NoResource,
           ComputeBlamelist, PutConflicts, PutFails, Crash, SwarmingFinishes,
           HandleSwarmingPubSub, UpdateUnfinishedTask
  <1> QED  BY <1>1, <1>2, <1>3, <1>4, <1>5

\* The scheduler implements the ledger of BlameLedger: a commit changes hands
\* only to a task which is entered in that transaction, never to nobody, and a
\* recorded result is never taken back, whoever writes from however old a copy.
THEOREM ImplementsTheLedger == Spec => KeepsTheLedger
<1>1. Init => Ledger!LedgerInit
  <2> SUFFICES ASSUME Init
               PROVE  Ledger!LedgerInit
    OBVIOUS
  <2>1. \A t \in TaskIds : db[t].ver = 0 /\ db[t].commits = {}
    BY DEF Init, Empty, NoTask
  <2> QED  BY <2>1 DEF Ledger!LedgerInit, Owner, InDB
<1>2. Inv /\ Inv' /\ [Next]_vars => [Ledger!LedgerNext]_Ledger!ledger
  BY LedgerStep
<1> QED
  BY <1>1, <1>2, Invariance, PTL DEF Spec, KeepsTheLedger, Ledger!LedgerSpec
======
