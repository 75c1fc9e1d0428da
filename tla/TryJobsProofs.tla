---------------------------- MODULE TryJobsProofs ----------------------------
(***************************************************************************)
(* Safety of the try jobs, for every number of builds, jobs and faults.    *)
(*                                                                         *)
(* The argument: whoever writes a job writes from a copy, and the write    *)
(* goes through only if the copy is what the database has.  So a job only  *)
(* ever evolves in a few ways (Evolves), every copy stays an earlier       *)
(* version of the job (CopyOf), and a copy which is done tells the final   *)
(* verdict.                                                                *)
(***************************************************************************)
EXTENDS TryJobs, TLAPS

\* x is the job d as it is or as it was.
CopyOf(x, d) ==
  /\ x.ver <= d.ver
  /\ x.ver = d.ver => x = d
  /\ x.ver = 0 => x = NoJob
  /\ x.ver > 0 => x.build = d.build /\ x.build \in Builds
  /\ Done(x) => x.status = d.status

\* What a step may make of the job d.
Evolves(d, e) ==
  \/ e = d
  \/ /\ e \in JobType
     /\ e.ver = d.ver + 1
     /\ e.build \in Builds
     /\ d.ver > 0 => e.build = d.build
     /\ Done(d) => e.status = d.status
     /\ d.ver > 0 /\ d.key = 0 => e.key = 0
     /\ e.key = 0 => Done(e)
     /\ e.key = 0 /\ e.status # "canceled" => Completed(e.build)

Copies == \A j \in JobIds : /\ CopyOf(db[j], db[j])
                            /\ CopyOf(cache[j], db[j])
                            /\ CopyOf(copies[j], db[j])

\* What updateJobs knows of the jobs it works on.
RoundOK ==
  /\ \A j \in beats \union bad : copies[j].ver > 0 /\ ~Done(copies[j])
  /\ \A j \in reports \union reported : copies[j].ver > 0 /\ Done(copies[j])
  /\ \A j \in reported : Completed(copies[j].build)

\* What insertNewJob knows of the job which it has inserted.
InsertOK ==
  \A b \in Builds :
    /\ ins[b].pc \in {"put", "start", "drop"} => ins[b].key > 0
    /\ ins[b].pc \in {"start", "drop"} =>
         /\ ins[b].job \in JobIds
         /\ db[ins[b].job].ver > 0
         /\ db[ins[b].job].ver = 1 =>
              db[ins[b].job] = [build |-> b, key |-> ins[b].key,
                                status |-> "in_progress", ver |-> 1]

Inv == TypeOK /\ Copies /\ RoundOK /\ InsertOK /\ ReleasedIsOver /\ ReportIsTrue

-----------------------------------------------------------------------------
(***************************************************************************)
(* Jobs, copies and writes.                                                *)
(***************************************************************************)
LEMMA NoJobType == NoJob \in JobType
  BY DEF NoJob, JobType

\* A copy stays a copy while the job evolves.
LEMMA CopyStays ==
  ASSUME NEW x \in JobType, NEW d \in JobType, NEW e \in JobType,
         CopyOf(x, d), Evolves(d, e)
  PROVE  CopyOf(x, e)
  BY DEF CopyOf, Evolves, JobType, Done

\* What a job evolves to is a copy of itself.
LEMMA CopyOfItself ==
  ASSUME NEW d \in JobType, NEW e \in JobType, CopyOf(d, d), Evolves(d, e)
  PROVE  CopyOf(e, e)
  BY DEF CopyOf, Evolves, JobType, Done

\* insertOrUpdateJob keeps what it has or takes what it gets.
LEMMA AddJobsStep ==
  ASSUME NEW jobs, AddJobs(jobs), cache \in [JobIds -> JobType],
         NEW D, D \subseteq JobIds, DOMAIN jobs = D,
         \A j \in D : jobs[j] \in JobType
  PROVE  /\ cache' \in [JobIds -> JobType]
         /\ \A j \in JobIds : \/ cache'[j] = cache[j]
                              \/ j \in D /\ cache'[j] = jobs[j]
  BY DEF AddJobs

LEMMA NextVersion ==
  ASSUME NEW x \in JobType, NEW n \in Nat
  PROVE  /\ [x EXCEPT !.ver = n] \in JobType
         /\ [x EXCEPT !.ver = n] = [build |-> x.build, key |-> x.key,
                                    status |-> x.status, ver |-> n]
  BY DEF JobType

LEMMA WithStatus ==
  ASSUME NEW x \in JobType, NEW s \in Verdicts
  PROVE  /\ [x EXCEPT !.status = s] \in JobType
         /\ [x EXCEPT !.status = s] = [build |-> x.build, key |-> x.key,
                                       status |-> s, ver |-> x.ver]
  BY DEF JobType

LEMMA WithoutKey ==
  ASSUME NEW x \in JobType
  PROVE  /\ [x EXCEPT !.key = 0] \in JobType
         /\ [x EXCEPT !.key = 0] = [build |-> x.build, key |-> 0,
                                    status |-> x.status, ver |-> x.ver]
  BY DEF JobType

LEMMA CanceledJob ==
  ASSUME NEW x \in JobType
  PROVE  Canceled(x) \in JobType
  BY DEF JobType, Canceled, Verdicts

\* A write of copies: each job is as it was, or the copy which was put was
\* current and has the next version now.
Written(x, d, e) == /\ x.ver = d.ver
                    /\ e = [build |-> x.build, key |-> x.key,
                            status |-> x.status, ver |-> d.ver + 1]

LEMMA PutStep ==
  ASSUME NEW put, Current(put), db' = Put(put), db \in [JobIds -> JobType],
         NEW D, D \subseteq JobIds, DOMAIN put = D,
         \A j \in D : put[j] \in JobType
  PROVE  /\ db' \in [JobIds -> JobType]
         /\ \A j \in JobIds \ D : db'[j] = db[j]
         /\ \A j \in D : Written(put[j], db[j], db'[j])
  <1>1. \A j \in D : put[j].ver = db[j].ver
    BY DEF Current
  <1>2. \A j \in D : db'[j] = [put[j] EXCEPT !.ver = db[j].ver + 1]
    BY <1>1 DEF Put
  <1>3. ASSUME NEW j \in D
        PROVE  db'[j] \in JobType /\ Written(put[j], db[j], db'[j])
    <2>1. db[j].ver + 1 \in Nat
      BY DEF JobType
    <2>2. put[j] \in JobType
      OBVIOUS
    <2>3. /\ [put[j] EXCEPT !.ver = db[j].ver + 1] \in JobType
          /\ [put[j] EXCEPT !.ver = db[j].ver + 1]
               = [build |-> put[j].build, key |-> put[j].key,
                  status |-> put[j].status, ver |-> db[j].ver + 1]
      BY <2>1, <2>2, NextVersion
    <2> QED  BY <1>1, <1>2, <2>3 DEF Written
  <1>4. \A j \in JobIds \ D : db'[j] = db[j]
    BY DEF Put
  <1> QED  BY <1>3, <1>4 DEF Put

-----------------------------------------------------------------------------
(***************************************************************************)
(* What a step does to the jobs.                                           *)
(***************************************************************************)
\* Every job evolves, and the cache takes nothing but jobs of the database.
DbStep == /\ db' \in [JobIds -> JobType]
          /\ \A j \in JobIds : Evolves(db[j], db'[j])
CacheStep == /\ cache' \in [JobIds -> JobType]
             /\ \A j \in JobIds : cache'[j] \in {cache[j], db[j], db'[j]}

LEMMA EvolvesIfWritten ==
  ASSUME NEW x \in JobType, NEW d \in JobType, NEW e \in JobType,
         Written(x, d, e),
         x.build \in Builds,
         d.ver > 0 => x.build = d.build,
         Done(d) => x.status = d.status,
         d.ver > 0 /\ d.key = 0 => x.key = 0,
         x.key = 0 => Done(x),
         x.key = 0 /\ x.status # "canceled" => Completed(x.build)
  PROVE  Evolves(d, e)
  BY DEF Evolves, Written, JobType, Done

LEMMA PutJobsStep ==
  ASSUME TypeOK, NEW put, NEW D, D \subseteq JobIds, DOMAIN put = D, PutJobs(put),
         \A j \in D : put[j] \in JobType,
         \A j \in D : /\ put[j].build \in Builds
                      /\ put[j].key = 0
                      /\ Done(put[j])
                      /\ put[j].status # "canceled" => Completed(put[j].build)
                      /\ put[j].ver = db[j].ver =>
                           /\ put[j].build = db[j].build
                           /\ Done(db[j]) => put[j].status = db[j].status
  PROVE  DbStep /\ CacheStep
  <1>0. /\ db \in [JobIds -> JobType]
        /\ cache \in [JobIds -> JobType]
    BY DEF TypeOK
  <1>1. CASE ~Current(put)
    BY <1>0, <1>1 DEF PutJobs, DbStep, CacheStep, Evolves
  <1>2. CASE Current(put)
    <2>1. db' = Put(put) /\ AddJobs([j \in DOMAIN put |-> db'[j]])
      BY <1>2 DEF PutJobs
    <2>2. /\ db' \in [JobIds -> JobType]
          /\ \A j \in JobIds \ D : db'[j] = db[j]
          /\ \A j \in D : Written(put[j], db[j], db'[j])
      BY <1>0, <1>2, <2>1, PutStep
    <2>3. ASSUME NEW j \in JobIds
          PROVE  Evolves(db[j], db'[j])
      <3>1. CASE j \notin D
        BY <2>2, <3>1 DEF Evolves
      <3>2. CASE j \in D
        <4>1. /\ put[j] \in JobType /\ db[j] \in JobType /\ db'[j] \in JobType
              /\ Written(put[j], db[j], db'[j])
          BY <1>0, <2>2, <3>2
        <4>2. put[j].ver = db[j].ver
          BY <4>1 DEF Written
        <4> QED  BY <3>2, <4>1, <4>2, EvolvesIfWritten
      <3> QED  BY <3>1, <3>2
    <2>4. CacheStep
      <3> DEFINE jobs == [j \in DOMAIN put |-> db'[j]]
      <3>1. DOMAIN jobs = D /\ \A j \in D : jobs[j] = db'[j] /\ jobs[j] \in JobType
        BY <2>2
      <3>2. AddJobs(jobs)
        BY <2>1
      <3> HIDE DEF jobs
      <3>3. /\ cache' \in [JobIds -> JobType]
            /\ \A j \in JobIds : \/ cache'[j] = cache[j]
                                 \/ j \in D /\ cache'[j] = jobs[j]
        BY <1>0, <3>1, <3>2, AddJobsStep
      <3> QED  BY <3>1, <3>3 DEF CacheStep
    <2> QED  BY <2>2, <2>3, <2>4 DEF DbStep
  <1> QED  BY <1>1, <1>2
LEMMA NoWrite ==
  ASSUME TypeOK, db' = db
  PROVE  DbStep
  BY DEF TypeOK, DbStep, Evolves

LEMMA NoCaching ==
  ASSUME TypeOK, cache' = cache
  PROVE  CacheStep
  BY DEF TypeOK, CacheStep

LEMMA UpdateStep ==
  ASSUME TypeOK, NEW arrived \in SUBSET Stale, Update(arrived)
  PROVE  CacheStep
  <1> DEFINE jobs == [j \in arrived |-> db[j]]
  <1>1. arrived \subseteq JobIds
    BY DEF Stale
  <1>2. cache \in [JobIds -> JobType] /\ db \in [JobIds -> JobType]
    BY DEF TypeOK
  <1>3. DOMAIN jobs = arrived /\ \A j \in arrived : jobs[j] = db[j] /\ jobs[j] \in JobType
    BY <1>1, <1>2
  <1>4. AddJobs(jobs)
    BY DEF Update
  <1> HIDE DEF jobs
  <1>5. /\ cache' \in [JobIds -> JobType]
        /\ \A j \in JobIds : \/ cache'[j] = cache[j]
                             \/ j \in arrived /\ cache'[j] = jobs[j]
    BY <1>1, <1>2, <1>3, <1>4, AddJobsStep
  <1> QED  BY <1>3, <1>5 DEF CacheStep

LEMMA SetStatusStep ==
  ASSUME Inv, NEW j \in JobIds, NEW s \in Verdicts, SetStatus(j, s)
  PROVE  DbStep /\ CacheStep
  <1> DEFINE put == [x \in {j} |-> [db[x] EXCEPT !.status = s]]
  <1>0. /\ TypeOK /\ db \in [JobIds -> JobType] /\ db[j] \in JobType
        /\ db[j].ver > 0 /\ ~Done(db[j])
        /\ CopyOf(db[j], db[j])
        /\ db[j].key # 0
    BY DEF Inv, TypeOK, Copies, SetStatus, InDB, ReleasedIsOver
  <1>1. /\ [db[j] EXCEPT !.status = s] \in JobType
        /\ [db[j] EXCEPT !.status = s] = [build |-> db[j].build, key |-> db[j].key,
                                          status |-> s, ver |-> db[j].ver]
    BY <1>0, WithStatus
  <1>2. /\ DOMAIN put = {j} /\ put[j] \in JobType
        /\ put[j] = [build |-> db[j].build, key |-> db[j].key,
                     status |-> s, ver |-> db[j].ver]
        /\ db' = Put(put)
    BY <1>1 DEF SetStatus
  <1> HIDE DEF put
  <1>3. Current(put)
    BY <1>2 DEF Current
  <1>4. /\ db' \in [JobIds -> JobType]
        /\ \A i \in JobIds \ {j} : db'[i] = db[i]
        /\ Written(put[j], db[j], db'[j])
    BY <1>0, <1>2, <1>3, PutStep
  <1>5. Evolves(db[j], db'[j])
    BY <1>0, <1>2, <1>4, EvolvesIfWritten DEF CopyOf
  <1>6. DbStep
    BY <1>4, <1>5 DEF DbStep, Evolves
  <1> QED  BY <1>0, <1>6, NoCaching DEF SetStatus

LEMMA PutJobStep ==
  ASSUME Inv, NEW b \in Builds, PutJob(b)
  PROVE  DbStep /\ CacheStep
  <1>0. TypeOK /\ db \in [JobIds -> JobType] /\ cache \in [JobIds -> JobType]
    BY DEF Inv, TypeOK
  <1>1. CASE UNCHANGED <<db, cache>>
    BY <1>0, <1>1, NoWrite, NoCaching
  <1>2. ASSUME NEW j \in JobIds, \A i \in JobIds : InDB(i) <=> i < j,
               db' = Put(NewJob(b, j)),
               UNCHANGED cache \/ AddJobs([x \in {j} |-> db'[x]])
        PROVE  DbStep /\ CacheStep
    <2> DEFINE put == NewJob(b, j)
    <2>1. db[j].ver = 0
      BY <1>0, <1>2 DEF InDB, JobIds, JobType
    <2>2. ins[b].key \in Nat /\ ins[b].key > 0
      BY DEF Inv, TypeOK, InsertOK, PutJob
    <2>3. /\ DOMAIN put = {j}
          /\ put[j] = [build |-> b, key |-> ins[b].key,
                       status |-> "in_progress", ver |-> 0]
          /\ put[j] \in JobType
      BY <2>2 DEF NewJob, JobType
    <2>4. db' = Put(put)
      BY <1>2
    <2> HIDE DEF put
    <2>5. Current(put)
      BY <2>1, <2>3 DEF Current
    <2>6. /\ db' \in [JobIds -> JobType]
          /\ \A i \in JobIds \ {j} : db'[i] = db[i]
          /\ Written(put[j], db[j], db'[j])
      BY <1>0, <2>3, <2>4, <2>5, PutStep
    <2>7. ~Done(db[j])
      BY <2>1 DEF Inv, Copies, CopyOf, NoJob, Done
    <2>8. Evolves(db[j], db'[j])
      BY <1>0, <2>1, <2>2, <2>3, <2>6, <2>7, EvolvesIfWritten
    <2>9. DbStep
      BY <2>6, <2>8 DEF DbStep, Evolves
    <2>10. CASE UNCHANGED cache
      BY <1>0, <2>9, <2>10, NoCaching
    <2>11. CASE AddJobs([x \in {j} |-> db'[x]])
      <3> DEFINE jobs == [x \in {j} |-> db'[x]]
      <3>1. /\ DOMAIN jobs = {j} /\ \A x \in {j} : jobs[x] \in JobType
            /\ jobs[j] = db'[j] /\ AddJobs(jobs)
        BY <2>6, <2>11
      <3> HIDE DEF jobs
      <3>2. /\ cache' \in [JobIds -> JobType]
            /\ \A x \in JobIds : \/ cache'[x] = cache[x]
                                 \/ x \in {j} /\ cache'[x] = jobs[x]
        BY <1>0, <3>1, AddJobsStep
      <3>3. CacheStep
        BY <3>1, <3>2 DEF CacheStep
      <3> QED  BY <2>9, <3>3
    <2> QED  BY <1>2, <2>10, <2>11
  <1> QED  BY <1>1, <1>2 DEF PutJob
LEMMA DropJobStep ==
  ASSUME Inv, NEW b \in Builds, DropJob(b)
  PROVE  DbStep /\ CacheStep
  <1> DEFINE i == ins[b].job
             job == [build |-> b, key |-> ins[b].key, status |-> "in_progress",
                     ver |-> 1]
             put == [x \in {i} |-> Canceled(job)]
  <1>0. /\ TypeOK /\ ins[b].key \in Nat /\ i \in JobIds
        /\ db[i].ver = 1 => db[i] = job
    BY DEF Inv, TypeOK, InsertOK, DropJob
  <1>1. CASE UNCHANGED <<db, cache>>
    BY <1>0, <1>1, NoWrite, NoCaching
  <1>2. CASE PutJobs(put)
    <2>1. job \in JobType
      BY <1>0 DEF JobType
    <2>2. /\ DOMAIN put = {i} /\ put[i] = Canceled(job) /\ put[i] \in JobType
      BY <2>1, CanceledJob
    <2>3. put[i] = [build |-> b, key |-> 0, status |-> "canceled", ver |-> 1]
      BY <2>2 DEF Canceled
    <2>4. {i} \subseteq JobIds
      BY <1>0
    <2>5. PutJobs(put)
      BY <1>2
    <2> HIDE DEF put
    <2>6. \A j \in {i} : /\ put[j].build \in Builds
                         /\ put[j].key = 0
                         /\ Done(put[j])
                         /\ put[j].status = "canceled"
                         /\ put[j].ver = db[j].ver =>
                              /\ put[j].build = db[j].build
                              /\ Done(db[j]) => put[j].status = db[j].status
      BY <1>0, <2>3 DEF Done
    <2> QED  BY <1>0, <2>2, <2>4, <2>5, <2>6, PutJobsStep
  <1> QED  BY <1>1, <1>2 DEF DropJob

LEMMA LocalCancelStep ==
  ASSUME Inv, LocalCancelJobs
  PROVE  DbStep /\ CacheStep
  <1> DEFINE put == [j \in bad |-> Canceled(copies[j])]
  <1>0. /\ TypeOK /\ bad \subseteq JobIds
        /\ \A j \in bad : /\ copies[j] \in JobType /\ copies[j].ver > 0
                          /\ ~Done(copies[j]) /\ CopyOf(copies[j], db[j])
    BY DEF Inv, TypeOK, RoundOK, Copies
  <1>1. CASE UNCHANGED <<db, cache>>
    BY <1>0, <1>1, NoWrite, NoCaching
  <1>2. CASE PutJobs(put)
    <2>1. DOMAIN put = bad /\ \A j \in bad : /\ put[j] \in JobType
                                            /\ put[j] = Canceled(copies[j])
      BY <1>0, CanceledJob
    <2>2. PutJobs(put)
      BY <1>2
    <2> HIDE DEF put
    <2>3. ASSUME NEW j \in bad
          PROVE  /\ put[j].build \in Builds
                 /\ put[j].key = 0
                 /\ Done(put[j])
                 /\ put[j].status = "canceled"
                 /\ put[j].ver = db[j].ver =>
                      /\ put[j].build = db[j].build
                      /\ Done(db[j]) => put[j].status = db[j].status
      <3>1. put[j] = [build |-> copies[j].build, key |-> 0, status |-> "canceled",
                      ver |-> copies[j].ver]
        BY <2>1 DEF Canceled
      <3> QED  BY <1>0, <3>1 DEF CopyOf, Done
    <2> QED  BY <1>0, <2>1, <2>2, <2>3, PutJobsStep
  <1> QED  BY <1>1, <1>2 DEF LocalCancelJobs

LEMMA PutFinishedStep ==
  ASSUME Inv, PutFinished
  PROVE  DbStep /\ CacheStep
  <1> DEFINE put == [j \in reported |-> [copies[j] EXCEPT !.key = 0]]
  <1>0. /\ TypeOK /\ reported \subseteq JobIds
        /\ \A j \in reported :
             /\ copies[j] \in JobType /\ copies[j].ver > 0
             /\ Done(copies[j]) /\ CopyOf(copies[j], db[j])
             /\ Completed(copies[j].build)
    BY DEF Inv, TypeOK, RoundOK, Copies
  <1>1. CASE UNCHANGED <<db, cache>>
    BY <1>0, <1>1, NoWrite, NoCaching
  <1>2. CASE PutJobs(put)
    <2>1. DOMAIN put = reported
      OBVIOUS
    <2>2. ASSUME NEW j \in reported
          PROVE  /\ put[j] \in JobType
                 /\ put[j] = [build |-> copies[j].build, key |-> 0,
                              status |-> copies[j].status, ver |-> copies[j].ver]
      <3>1. copies[j] \in JobType
        BY <1>0
      <3>2. put[j] = [copies[j] EXCEPT !.key = 0]
        OBVIOUS
      <3> QED  BY <3>1, <3>2, WithoutKey
    <2>3. PutJobs(put)
      BY <1>2
    <2> HIDE DEF put
    <2>4. ASSUME NEW j \in reported
          PROVE  /\ put[j].build \in Builds
                 /\ put[j].key = 0
                 /\ Done(put[j])
                 /\ Completed(put[j].build)
                 /\ put[j].ver = db[j].ver =>
                      /\ put[j].build = db[j].build
                      /\ Done(db[j]) => put[j].status = db[j].status
      <3>0. put[j] = [build |-> copies[j].build, key |-> 0,
                      status |-> copies[j].status, ver |-> copies[j].ver]
        BY <2>2
      <3>1. /\ put[j].build = copies[j].build /\ put[j].key = 0
            /\ put[j].status = copies[j].status /\ put[j].ver = copies[j].ver
        BY <3>0
      <3>2. /\ copies[j].ver > 0 /\ Done(copies[j])
            /\ CopyOf(copies[j], db[j]) /\ Completed(copies[j].build)
        BY <1>0
      <3> QED  BY <3>1, <3>2 DEF CopyOf, Done
    <2> QED  BY <1>0, <2>1, <2>2, <2>3, <2>4, PutJobsStep
  <1> QED  BY <1>1, <1>2 DEF PutFinished

LEMMA JobStep ==
  ASSUME Inv, [Next]_vars
  PROVE  DbStep /\ CacheStep
  <1>0. TypeOK
    BY DEF Inv
  <1>1. CASE UNCHANGED vars
    BY <1>0, <1>1, NoWrite, NoCaching DEF vars
  <1>2. ASSUME NEW arrived \in SUBSET Stale, Poll(arrived)
        PROVE  DbStep /\ CacheStep
    BY <1>0, <1>2, NoWrite, UpdateStep DEF Poll
  <1>3. ASSUME NEW b \in Builds,
               \/ Rejects(b) \/ RemoteCancelBuild(b) \/ TryLeaseBuild(b)
               \/ JobStarted(b) \/ PersonCancels(b) \/ LeaseExpires(b)
        PROVE  DbStep /\ CacheStep
    <2>1. UNCHANGED <<db, cache>>
      BY <1>3 DEF Rejects, RemoteCancelBuild, TryLeaseBuild, JobStarted,
                  PersonCancels, LeaseExpires
    <2> QED  BY <1>0, <2>1, NoWrite, NoCaching
  <1>4. ASSUME NEW b \in Builds, PutJob(b) \/ DropJob(b)
        PROVE  DbStep /\ CacheStep
    BY <1>4, PutJobStep, DropJobStep
  <1>5. ASSUME NEW arrived \in SUBSET Stale, GetActiveTryJobs(arrived)
        PROVE  DbStep /\ CacheStep
    BY <1>0, <1>5, NoWrite, UpdateStep DEF GetActiveTryJobs
  <1>6. CASE \/ \E S \in SUBSET beats : HeartbeatBatch(S)
             \/ \E j \in reports : JobFinished(j)
    <2>1. UNCHANGED <<db, cache>>
      BY <1>6 DEF HeartbeatBatch, JobFinished
    <2> QED  BY <1>0, <2>1, NoWrite, NoCaching
  <1>7. CASE LocalCancelJobs \/ PutFinished
    BY <1>7, LocalCancelStep, PutFinishedStep
  <1>8. ASSUME NEW j \in JobIds, UpdateUnfinishedJob(j) \/ CancelJob(j)
        PROVE  DbStep /\ CacheStep
    BY <1>8, SetStatusStep DEF UpdateUnfinishedJob, CancelJob, Verdicts
  <1>9. CASE Crash
    BY <1>0, <1>9, NoWrite DEF Crash, CacheStep, TypeOK
  <1> QED  BY <1>1, <1>2, <1>3, <1>4, <1>5, <1>6, <1>7, <1>8, <1>9
           DEF Next, InsertNewJob, UpdateJobs

-----------------------------------------------------------------------------
(***************************************************************************)
(* What a step does to the builds.                                         *)
(***************************************************************************)
BuildType == [status : {"scheduled", "leased", "completed"},
              key : Nat, result : {"none"} \union Verdicts]

BuildStep ==
  /\ build' \in [Builds -> BuildType]
  /\ \A b \in Builds :
       /\ Completed(b) => build'[b] = build[b]
       /\ \/ build'[b].result \in {build[b].result, "canceled"}
          \/ \E j \in reports : /\ copies[j].build = b
                               /\ build'[b].result = Result(copies[j])

LEMMA BuildsStay ==
  ASSUME TypeOK, UNCHANGED build
  PROVE  BuildStep
  BY DEF TypeOK, BuildStep, BuildType

LEMMA CompleteStep ==
  ASSUME TypeOK, NEW b \in Builds, NEW r \in Verdicts, ~Completed(b), Complete(b, r),
         \/ r = "canceled"
         \/ \E j \in reports : copies[j].build = b /\ r = Result(copies[j])
  PROVE  BuildStep
  <1>1. build \in [Builds -> BuildType]
    BY DEF TypeOK, BuildType
  <1>2. /\ build'[b] = [status |-> "completed", key |-> build[b].key, result |-> r]
        /\ \A c \in Builds \ {b} : build'[c] = build[c]
        /\ DOMAIN build' = Builds
        /\ build' \in [Builds -> BuildType]
    BY <1>1 DEF Complete, BuildType
  <1> QED  BY <1>2 DEF BuildStep

LEMMA BuildsStep ==
  ASSUME Inv, [Next]_vars
  PROVE  BuildStep
  <1>0. TypeOK /\ build \in [Builds -> BuildType]
    BY DEF Inv, TypeOK, BuildType
  <1>1. CASE UNCHANGED vars
    BY <1>0, <1>1, BuildsStay DEF vars
  <1>2. ASSUME NEW b \in Builds, Cancel(b)
        PROVE  BuildStep
    BY <1>0, <1>2, BuildsStay, CompleteStep DEF Cancel, Verdicts
  <1>3. ASSUME NEW b \in Builds, RemoteCancelBuild(b) \/ PersonCancels(b)
        PROVE  BuildStep
    BY <1>0, <1>2, <1>3, BuildsStay DEF RemoteCancelBuild, PersonCancels
  <1>4. ASSUME NEW b \in Builds, TryLeaseBuild(b)
        PROVE  BuildStep
    <2>1. CASE UNCHANGED build
      BY <1>0, <2>1, BuildsStay
    <2>2. CASE /\ build[b].status = "scheduled"
               /\ build' = [build EXCEPT ![b] = [status |-> "leased",
                                                 key |-> @.key + 1,
                                                 result |-> @.result]]
      <3>1. /\ build'[b] = [status |-> "leased", key |-> build[b].key + 1,
                            result |-> build[b].result]
            /\ \A c \in Builds \ {b} : build'[c] = build[c]
            /\ build' \in [Builds -> BuildType]
        BY <1>0, <2>2 DEF BuildType
      <3> QED  BY <2>2, <3>1 DEF BuildStep, Completed
    <2> QED  BY <1>4, <2>1, <2>2 DEF TryLeaseBuild
  <1>5. ASSUME NEW b \in Builds, LeaseExpires(b)
        PROVE  BuildStep
    <2>1. /\ \A c \in Builds \ {b} : build'[c] = build[c]
          /\ build'[b] = [build[b] EXCEPT !.status = "scheduled"]
          /\ build' = [build EXCEPT ![b] = [build[b] EXCEPT !.status = "scheduled"]]
      BY <1>0, <1>5 DEF LeaseExpires
    <2>2. /\ [build[b] EXCEPT !.status = "scheduled"] \in BuildType
          /\ [build[b] EXCEPT !.status = "scheduled"].result = build[b].result
      BY <1>0 DEF BuildType
    <2> QED  BY <1>0, <1>5, <2>1, <2>2 DEF BuildStep, LeaseExpires, Completed
  <1>6. ASSUME NEW b \in Builds,
               Rejects(b) \/ PutJob(b) \/ JobStarted(b) \/ DropJob(b)
        PROVE  BuildStep
    BY <1>0, <1>6, BuildsStay DEF Rejects, PutJob, JobStarted, DropJob
  <1>7. ASSUME NEW j \in reports, JobFinished(j)
        PROVE  BuildStep
    <2> DEFINE b == copies[j].build
    <2>1. CASE UNCHANGED build
      BY <1>0, <2>1, BuildsStay
    <2>2. CASE Holds(b, copies[j].key) /\ Complete(b, Result(copies[j]))
      <3>1. copies[j] \in JobType /\ copies[j].ver > 0 /\ CopyOf(copies[j], db[j])
        BY <1>7 DEF Inv, RoundOK, TypeOK, Copies
      <3>2. b \in Builds /\ Result(copies[j]) \in Verdicts /\ ~Completed(b)
        BY <2>2, <3>1 DEF CopyOf, Result, Verdicts, Completed, Holds
      <3> QED  BY <1>0, <2>2, <3>2, CompleteStep
    <2> QED  BY <1>7, <2>1, <2>2 DEF JobFinished
  <1>8. CASE \/ \E arrived \in SUBSET Stale : Poll(arrived) \/ GetActiveTryJobs(arrived)
             \/ \E S \in SUBSET beats : HeartbeatBatch(S)
             \/ LocalCancelJobs \/ PutFinished \/ Crash
             \/ \E j \in JobIds : UpdateUnfinishedJob(j) \/ CancelJob(j)
    <2>1. UNCHANGED build
      BY <1>8 DEF Poll, GetActiveTryJobs, HeartbeatBatch, LocalCancelJobs,
                  PutFinished, Crash, UpdateUnfinishedJob, CancelJob, SetStatus
    <2> QED  BY <1>0, <2>1, BuildsStay
  <1> QED  BY <1>1, <1>3, <1>4, <1>5, <1>6, <1>7, <1>8
           DEF Next, InsertNewJob, UpdateJobs
-----------------------------------------------------------------------------
(***************************************************************************)
(* The invariant.                                                          *)
(***************************************************************************)
LEMMA CopiesAreKept ==
  ASSUME Inv, [Next]_vars
  PROVE  /\ Copies'
         /\ copies' \in [JobIds -> JobType]
         /\ \A j \in JobIds : copies'[j] \in {copies[j], cache'[j], NoJob}
  <1>1. DbStep /\ CacheStep
    BY JobStep
  <1>2. /\ db \in [JobIds -> JobType] /\ cache \in [JobIds -> JobType]
        /\ copies \in [JobIds -> JobType]
        /\ db' \in [JobIds -> JobType] /\ cache' \in [JobIds -> JobType]
    BY <1>1 DEF Inv, TypeOK, DbStep, CacheStep
  <1>3. ASSUME NEW j \in JobIds
        PROVE  CopyOf(db'[j], db'[j])
    BY <1>1, <1>2, CopyOfItself DEF Inv, Copies, DbStep
  <1>4. ASSUME NEW j \in JobIds
        PROVE  CopyOf(cache'[j], db'[j])
    <2>1. CopyOf(cache[j], db'[j]) /\ CopyOf(db[j], db'[j])
      BY <1>1, <1>2, CopyStays DEF Inv, Copies, DbStep
    <2> QED  BY <1>1, <1>3, <2>1 DEF CacheStep
  <1>5. /\ copies' \in [JobIds -> JobType]
        /\ \A j \in JobIds : copies'[j] \in {copies[j], cache'[j], NoJob}
    <2>1. CASE UNCHANGED copies
      BY <1>2, <2>1
    <2>2. CASE copies' = NoJobs
      BY <2>2, NoJobType DEF NoJobs
    <2>3. ASSUME NEW arrived \in SUBSET Stale, GetActiveTryJobs(arrived)
          PROVE  /\ copies' \in [JobIds -> JobType]
                 /\ \A j \in JobIds : copies'[j] \in {copies[j], cache'[j], NoJob}
      BY <1>2, <2>3, NoJobType DEF GetActiveTryJobs
    <2>4. \/ UNCHANGED copies
          \/ copies' = NoJobs
          \/ \E arrived \in SUBSET Stale : GetActiveTryJobs(arrived)
      BY DEF Next, vars, round, InsertNewJob, UpdateJobs, Poll, Rejects,
             RemoteCancelBuild, TryLeaseBuild, PutJob, JobStarted, DropJob,
             PersonCancels, LeaseExpires, HeartbeatBatch, LocalCancelJobs,
             JobFinished, PutFinished, UpdateUnfinishedJob, CancelJob,
             SetStatus, Crash
    <2> QED  BY <2>1, <2>2, <2>3, <2>4
  <1>6. ASSUME NEW j \in JobIds
        PROVE  CopyOf(copies'[j], db'[j])
    <2>1. CopyOf(copies[j], db'[j])
      BY <1>1, <1>2, CopyStays DEF Inv, Copies, DbStep
    <2>2. CopyOf(NoJob, db'[j])
      BY <1>2, <1>3 DEF CopyOf, NoJob, Done, JobType
    <2> QED  BY <1>4, <1>5, <2>1, <2>2
  <1> QED  BY <1>3, <1>4, <1>5, <1>6 DEF Copies

LEMMA ReleasedIsKept ==
  ASSUME Inv, [Next]_vars
  PROVE  ReleasedIsOver'
  <1>1. DbStep /\ BuildStep
    BY JobStep, BuildsStep
  <1>2. ASSUME NEW j \in JobIds, db'[j].ver > 0, db'[j].key = 0
        PROVE  /\ Done(db'[j])
               /\ db'[j].status # "canceled" =>
                    build'[db'[j].build].status = "completed"
    <2>1. Evolves(db[j], db'[j]) /\ db[j] \in JobType /\ db'[j] \in JobType
      BY <1>1 DEF DbStep, Inv, TypeOK
    <2>2. /\ Done(db'[j])
          /\ db'[j].status # "canceled" => /\ Completed(db'[j].build)
                                           /\ db'[j].build \in Builds
      BY <1>2, <2>1 DEF Evolves, Inv, ReleasedIsOver, InDB, Copies, CopyOf
    <2> QED  BY <1>1, <2>2 DEF BuildStep, Completed
  <1> QED  BY <1>2 DEF ReleasedIsOver, InDB, Completed

LEMMA ReportIsKept ==
  ASSUME Inv, [Next]_vars
  PROVE  ReportIsTrue'
  <1>1. DbStep /\ BuildStep
    BY JobStep, BuildsStep
  <1>2. ASSUME NEW j \in JobIds, Done(db[j])
        PROVE  db'[j].build = db[j].build /\ db'[j].status = db[j].status
    <2>1. db[j].ver > 0 /\ db[j] \in JobType
      BY <1>2 DEF Inv, Copies, CopyOf, Done, NoJob, TypeOK, JobType
    <2> QED  BY <1>1, <1>2, <2>1 DEF DbStep, Evolves
  <1>3. ASSUME NEW j \in reports
        PROVE  /\ j \in JobIds /\ Done(copies[j]) /\ Done(db[j])
               /\ copies[j].build = db[j].build
               /\ copies[j].status = db[j].status
               /\ db[j].status \in {"in_progress"} \union Verdicts
    BY DEF Inv, TypeOK, JobType, RoundOK, Copies, CopyOf, Done
  <1>4. ASSUME NEW b \in Builds, build'[b].result = "success"
        PROVE  \E j \in JobIds : db'[j].build = b /\ db'[j].status \in {"success"}
    <2>1. CASE build[b].result = "success"
      <3>1. PICK j \in JobIds : db[j].build = b /\ db[j].status = "success"
        BY <2>1 DEF Inv, ReportIsTrue
      <3> QED  BY <1>2, <3>1 DEF Done
    <2>2. ASSUME NEW j \in reports, copies[j].build = b,
                 build'[b].result = Result(copies[j])
          PROVE  \E i \in JobIds : db'[i].build = b /\ db'[i].status \in {"success"}
      BY <1>2, <1>3, <1>4, <2>2 DEF Result
    <2> QED  BY <1>1, <1>4, <2>1, <2>2 DEF BuildStep
  <1>5. ASSUME NEW b \in Builds, build'[b].result = "failure"
        PROVE  \E j \in JobIds : /\ db'[j].build = b
                                 /\ db'[j].status \in {"failure", "canceled"}
    <2>1. CASE build[b].result = "failure"
      <3>1. PICK j \in JobIds : /\ db[j].build = b
                               /\ db[j].status \in {"failure", "canceled"}
        BY <2>1 DEF Inv, ReportIsTrue
      <3> QED  BY <1>2, <3>1 DEF Done
    <2>2. ASSUME NEW j \in reports, copies[j].build = b,
                 build'[b].result = Result(copies[j])
          PROVE  \E i \in JobIds : /\ db'[i].build = b
                                   /\ db'[i].status \in {"failure", "canceled"}
      BY <1>2, <1>3, <1>5, <2>2 DEF Result, Done, Verdicts
    <2> QED  BY <1>1, <1>5, <2>1, <2>2 DEF BuildStep
  <1> QED  BY <1>4, <1>5 DEF ReportIsTrue

\* The sets of updateJobs, and what it knows of the jobs in them.
LEMMA RoundIsKept ==
  ASSUME Inv, [Next]_vars
  PROVE  /\ RoundOK'
         /\ \A S \in {beats, bad, reports, reported}' : S \subseteq JobIds
         /\ writing' \in BOOLEAN
  <1>0. /\ beats \subseteq JobIds /\ bad \subseteq JobIds
        /\ reports \subseteq JobIds /\ reported \subseteq JobIds
        /\ writing \in BOOLEAN
    BY DEF Inv, TypeOK
  <1>1. ASSUME NEW j \in reported
        PROVE  build'[copies[j].build].status = "completed"
    <2>1. copies[j].build \in Builds /\ Completed(copies[j].build)
      BY <1>0 DEF Inv, RoundOK, Copies, CopyOf
    <2> QED  BY <2>1, BuildsStep DEF BuildStep, Completed
  <1>2. CASE UNCHANGED round
    BY <1>0, <1>1, <1>2 DEF round, Inv, RoundOK, Completed
  <1>3. ASSUME NEW arrived \in SUBSET Stale, GetActiveTryJobs(arrived)
        PROVE  /\ RoundOK'
               /\ \A S \in {beats, bad, reports, reported}' : S \subseteq JobIds
               /\ writing' \in BOOLEAN
    <2>1. /\ bad' = {} /\ reported' = {} /\ writing' \in BOOLEAN
          /\ reports' = Finished(cache')
          /\ beats' = Active(cache') \ reports'
          /\ \A j \in Active(cache') : copies'[j] = cache'[j]
      BY <1>3 DEF GetActiveTryJobs, Active
    <2>2. /\ reports' \subseteq Active(cache') /\ beats' \subseteq Active(cache')
          /\ Active(cache') \subseteq JobIds
      BY <2>1 DEF Active, Finished
    <2>3. ASSUME NEW j \in Active(cache')
          PROVE  copies'[j].ver > 0 /\ (Done(copies'[j]) <=> j \in reports')
      <3>1. j \in JobIds /\ cache'[j].key # 0 /\ CopyOf(cache'[j], db'[j])
        BY CopiesAreKept DEF Copies, Active
      <3>2. cache'[j].ver \in Nat
        BY <3>1, JobStep DEF CacheStep, JobType
      <3>3. cache'[j].ver > 0
        BY <3>1, <3>2 DEF CopyOf, NoJob
      <3> QED  BY <2>1, <3>3 DEF Finished
    <2> QED  BY <2>1, <2>2, <2>3 DEF RoundOK
  <1>4. ASSUME NEW S \in SUBSET beats, HeartbeatBatch(S)
        PROVE  /\ RoundOK'
               /\ \A T \in {beats, bad, reports, reported}' : T \subseteq JobIds
               /\ writing' \in BOOLEAN
    <2>1. /\ beats' \subseteq beats /\ bad' \subseteq beats \union bad
          /\ UNCHANGED <<copies, reports, reported, writing>>
      BY <1>4 DEF HeartbeatBatch
    <2> QED  BY <1>0, <1>1, <2>1 DEF Inv, RoundOK, Completed
  <1>5. CASE LocalCancelJobs
    BY <1>0, <1>1, <1>5 DEF LocalCancelJobs, Inv, RoundOK, Completed
  <1>6. ASSUME NEW j \in reports, JobFinished(j)
        PROVE  /\ RoundOK'
               /\ \A T \in {beats, bad, reports, reported}' : T \subseteq JobIds
               /\ writing' \in BOOLEAN
    <2> DEFINE b == copies[j].build
    <2>1. /\ reports' \subseteq reports
          /\ UNCHANGED <<copies, beats, bad, writing>>
      BY <1>6 DEF JobFinished
    <2>2. b \in Builds
      BY <1>0 DEF Inv, RoundOK, Copies, CopyOf
    <2>3. \/ reported' = reported
          \/ reported' = reported \union {j} /\ build'[b].status = "completed"
      <3>1. CASE Complete(b, Result(copies[j]))
        <4>1. build'[b].status = "completed"
          BY <2>2, <3>1 DEF Complete, Inv, TypeOK
        <4> QED  BY <1>6, <3>1, <4>1 DEF JobFinished
      <3>2. CASE ~Complete(b, Result(copies[j]))
        BY <1>6, <3>2 DEF JobFinished, AlreadyReported, Completed
      <3> QED  BY <3>1, <3>2
    <2>4. reported' \subseteq reported \union reports
      BY <2>3
    <2> QED  BY <1>0, <1>1, <2>1, <2>3, <2>4 DEF Inv, RoundOK, Completed
  <1>7. CASE PutFinished
    BY <1>0, <1>7 DEF PutFinished, Inv, RoundOK, Completed
  <1>8. CASE Crash
    BY <1>8 DEF Crash, RoundOK
  <1> QED  BY <1>2, <1>3, <1>4, <1>5, <1>6, <1>7, <1>8
           DEF Next, vars, InsertNewJob, UpdateJobs, Poll, Rejects,
               RemoteCancelBuild, TryLeaseBuild, PutJob, JobStarted, DropJob,
               PersonCancels, LeaseExpires, UpdateUnfinishedJob, CancelJob,
               SetStatus

InsType == [pc : {"idle", "lease", "put", "cancel", "start", "drop"},
            key : Nat, job : JobIds \union {0}]

\* insertNewJob for one build; i is what becomes of ins[b].
InsertedOK(b, i) ==
  /\ i.pc \in {"put", "start", "drop"} => i.key > 0
  /\ i.pc \in {"start", "drop"} =>
       /\ i.job \in JobIds
       /\ db'[i.job].ver > 0
       /\ db'[i.job].ver = 1 =>
            db'[i.job] = [build |-> b, key |-> i.key,
                          status |-> "in_progress", ver |-> 1]

LEMMA InsertedStays ==
  ASSUME Inv, [Next]_vars, NEW b \in Builds
  PROVE  InsertedOK(b, ins[b])
  <1>1. DbStep
    BY JobStep
  <1>2. CASE ins[b].pc \in {"start", "drop"}
    <2> DEFINE i == ins[b].job
    <2>1. /\ i \in JobIds /\ db[i].ver > 0 /\ ins[b].key > 0
          /\ db[i].ver = 1 => db[i] = [build |-> b, key |-> ins[b].key,
                                       status |-> "in_progress", ver |-> 1]
      BY <1>2 DEF Inv, InsertOK
    <2>2. db[i] \in JobType /\ Evolves(db[i], db'[i])
      BY <1>1, <2>1 DEF Inv, TypeOK, DbStep
    <2>3. db[i].ver \in Nat
      BY <2>2 DEF JobType
    <2>4. db'[i] = db[i] \/ db'[i].ver = db[i].ver + 1
      BY <2>2 DEF Evolves
    <2> QED  BY <2>1, <2>3, <2>4 DEF InsertedOK
  <1>3. CASE ins[b].pc \notin {"start", "drop"}
    BY <1>3 DEF Inv, InsertOK, InsertedOK
  <1> QED  BY <1>2, <1>3

LEMMA NewPc ==
  ASSUME NEW x \in InsType,
         NEW p \in {"idle", "lease", "put", "cancel", "start", "drop"}
  PROVE  /\ [x EXCEPT !.pc = p] \in InsType
         /\ [x EXCEPT !.pc = p] = [pc |-> p, key |-> x.key, job |-> x.job]
  BY DEF InsType

\* It is enough to look at the build whose goroutine makes the step.
LEMMA OneInsertion ==
  ASSUME Inv, [Next]_vars, NEW b \in Builds, NEW i \in InsType,
         ins' = [ins EXCEPT ![b] = i], InsertedOK(b, i)
  PROVE  InsertOK' /\ ins' \in [Builds -> InsType]
  <1>1. ins \in [Builds -> InsType]
    BY DEF Inv, TypeOK, InsType
  <1>2. ins' \in [Builds -> InsType]
    BY <1>1
  <1>3. \A c \in Builds : InsertedOK(c, ins'[c])
    BY <1>1, InsertedStays
  <1> QED  BY <1>2, <1>3 DEF InsertOK, InsertedOK

LEMMA InsertIsKept ==
  ASSUME Inv, [Next]_vars
  PROVE  InsertOK' /\ ins' \in [Builds -> InsType]
  <1>0. ins \in [Builds -> InsType] /\ build \in [Builds -> BuildType]
    BY DEF Inv, TypeOK, InsType, BuildType
  <1>1. CASE UNCHANGED ins
    BY <1>0, <1>1, InsertedStays DEF InsertOK, InsertedOK
  <1>3. Idle \in InsType /\ [Idle EXCEPT !.pc = "lease"] \in InsType
    BY DEF Idle, InsType
  <1>4. ASSUME NEW arrived \in SUBSET Stale, Poll(arrived)
        PROVE  InsertOK' /\ ins' \in [Builds -> InsType]
    <2>1. ins' \in [Builds -> InsType]
      BY <1>3, <1>4 DEF Poll
    <2>2. \A b \in Builds : ins'[b].pc \in {"idle", "lease"}
      BY <1>4 DEF Poll, Idle
    <2> QED  BY <2>1, <2>2 DEF InsertOK
  <1>5. CASE Crash
    <2>1. \A b \in Builds : ins'[b].pc = "idle"
      BY <1>5 DEF Crash, Idle
    <2> QED  BY <1>3, <1>5, <2>1 DEF Crash, InsertOK
  <1>6. ASSUME NEW b \in Builds, Returns(b)
        PROVE  InsertOK' /\ ins' \in [Builds -> InsType]
    <2>1. InsertedOK(b, Idle)
      BY DEF InsertedOK, Idle
    <2> QED  BY <1>3, <1>6, <2>1, OneInsertion DEF Returns
  <1>7. ASSUME NEW b \in Builds, NEW p \in {"cancel", "drop"}, Goes(b, p),
               p = "drop" => ins[b].pc = "start"
        PROVE  InsertOK' /\ ins' \in [Builds -> InsType]
    <2> DEFINE i == [ins[b] EXCEPT !.pc = p]
    <2>1. i \in InsType /\ i = [pc |-> p, key |-> ins[b].key, job |-> ins[b].job]
      <3>1. /\ ins[b] \in InsType
            /\ p \in {"idle", "lease", "put", "cancel", "start", "drop"}
        BY <1>0, <1>7
      <3> QED  BY <3>1, NewPc
    <2>2. ins' = [ins EXCEPT ![b] = i]
      BY <1>0, <1>7 DEF Goes
    <2> HIDE DEF i
    <2>3. InsertedOK(b, i)
      BY <1>7, <2>1, InsertedStays DEF InsertedOK
    <2> QED  BY <2>1, <2>2, <2>3, OneInsertion
  <1>8. ASSUME NEW b \in Builds, Rejects(b) \/ RemoteCancelBuild(b)
                                 \/ JobStarted(b) \/ DropJob(b)
        PROVE  InsertOK' /\ ins' \in [Builds -> InsType]
    BY <1>6, <1>7, <1>8 DEF Rejects, RemoteCancelBuild, JobStarted, DropJob
  <1>9. ASSUME NEW b \in Builds, TryLeaseBuild(b)
        PROVE  InsertOK' /\ ins' \in [Builds -> InsType]
    <2>1. CASE Returns(b)
      BY <1>6, <2>1
    <2>2. CASE /\ build' = [build EXCEPT ![b] = [status |-> "leased",
                                                 key |-> @.key + 1,
                                                 result |-> @.result]]
               /\ ins' = [ins EXCEPT ![b] = [pc |-> "put", key |-> build'[b].key,
                                             job |-> 0]]
      <3> DEFINE i == [pc |-> "put", key |-> build'[b].key, job |-> 0]
      <3>1. build'[b].key = build[b].key + 1 /\ build[b].key \in Nat
        BY <1>0, <2>2 DEF BuildType
      <3>2. i \in InsType /\ InsertedOK(b, i)
        BY <3>1 DEF InsType, InsertedOK
      <3> QED  BY <2>2, <3>2, OneInsertion
    <2> QED  BY <1>9, <2>1, <2>2 DEF TryLeaseBuild
  <1>10. ASSUME NEW b \in Builds, PutJob(b)
         PROVE  InsertOK' /\ ins' \in [Builds -> InsType]
    <2>1. CASE Goes(b, "cancel")
      BY <1>7, <2>1
    <2>2. ASSUME NEW j \in JobIds, \A x \in JobIds : InDB(x) <=> x < j,
                 db' = Put(NewJob(b, j)),
                 ins' = [ins EXCEPT ![b] = [pc |-> "start", key |-> @.key, job |-> j]]
          PROVE  InsertOK' /\ ins' \in [Builds -> InsType]
      <3> DEFINE i == [pc |-> "start", key |-> ins[b].key, job |-> j]
                 new == [build |-> b, key |-> ins[b].key,
                         status |-> "in_progress", ver |-> 0]
      <3>1. ins[b].key \in Nat /\ ins[b].key > 0 /\ i \in InsType
        BY <1>0, <1>10 DEF PutJob, Inv, InsertOK, InsType
      <3>2. db'[j] = [new EXCEPT !.ver = @ + 1]
        BY <2>2 DEF Put, NewJob
      <3>3. new \in JobType
        BY <3>1 DEF JobType
      <3>4. db'[j] = [build |-> b, key |-> ins[b].key,
                      status |-> "in_progress", ver |-> 1]
        BY <3>2
      <3>5. InsertedOK(b, i)
        BY <3>1, <3>4 DEF InsertedOK
      <3> QED  BY <2>2, <3>1, <3>5, OneInsertion
    <2> QED  BY <1>10, <2>1, <2>2 DEF PutJob
  <1> QED  BY <1>1, <1>4, <1>5, <1>8, <1>9, <1>10
           DEF Next, vars, InsertNewJob, UpdateJobs, PersonCancels, LeaseExpires,
               GetActiveTryJobs, HeartbeatBatch, LocalCancelJobs, JobFinished,
               PutFinished, UpdateUnfinishedJob, CancelJob, SetStatus

\* faults is counted up to its bound.
LEMMA FaultsAreBounded ==
  ASSUME Inv, [Next]_vars
  PROVE  faults' \in 0 .. MaxFaults
  <1>1. faults \in 0 .. MaxFaults
    BY DEF Inv, TypeOK
  <1>2. CASE UNCHANGED faults
    BY <1>1, <1>2
  <1>3. CASE Fault
    BY <1>1, <1>3, BoundsAssumption DEF Fault
  <1> QED  BY <1>2, <1>3
           DEF Next, vars, InsertNewJob, UpdateJobs, Poll, Rejects,
               RemoteCancelBuild, TryLeaseBuild, PutJob, JobStarted, DropJob,
               PersonCancels, LeaseExpires, GetActiveTryJobs, HeartbeatBatch,
               LocalCancelJobs, JobFinished, PutFinished, UpdateUnfinishedJob,
               CancelJob, SetStatus, Crash

LEMMA TypeIsKept ==
  ASSUME Inv, [Next]_vars
  PROVE  TypeOK'
  <1>1. build' \in [Builds -> BuildType]
    BY BuildsStep DEF BuildStep
  <1>2. db' \in [JobIds -> JobType] /\ cache' \in [JobIds -> JobType]
    BY JobStep DEF DbStep, CacheStep
  <1>3. copies' \in [JobIds -> JobType]
    BY CopiesAreKept
  <1>4. ins' \in [Builds -> InsType]
    BY InsertIsKept
  <1>5. /\ \A S \in {beats, bad, reports, reported}' : S \subseteq JobIds
        /\ \A j \in reports' \union reported' : Done(copies'[j])
        /\ writing' \in BOOLEAN
    BY RoundIsKept DEF RoundOK
  <1>6. faults' \in 0 .. MaxFaults
    BY FaultsAreBounded
  <1> QED  BY <1>1, <1>2, <1>3, <1>4, <1>5, <1>6 DEF TypeOK, InsType, BuildType

LEMMA InvInitially == Init => Inv
  <1> SUFFICES ASSUME Init PROVE Inv
    OBVIOUS
  <1>1. NoJobs \in [JobIds -> JobType] /\ CopyOf(NoJob, NoJob)
    BY NoJobType DEF NoJobs, CopyOf, NoJob, Done
  <1>2. Idle \in InsType
    BY DEF Idle, InsType
  <1>3. TypeOK
    <2>1. build \in [Builds -> BuildType]
      BY DEF Init, BuildType
    <2>2. ins \in [Builds -> InsType]
      BY <1>2 DEF Init
    <2>3. {db, cache, copies} \subseteq [JobIds -> JobType]
      BY <1>1 DEF Init
    <2>4. /\ beats = {} /\ bad = {} /\ reports = {} /\ reported = {}
          /\ writing \in BOOLEAN
      BY DEF Init
    <2>5. faults \in 0 .. MaxFaults
      BY BoundsAssumption DEF Init
    <2> QED  BY <2>1, <2>2, <2>3, <2>4, <2>5 DEF TypeOK, BuildType, InsType
  <1>4. Copies
    BY <1>1 DEF Init, Copies, NoJobs
  <1>5. RoundOK /\ InsertOK
    BY DEF Init, RoundOK, InsertOK, Idle
  <1>6. ReleasedIsOver /\ ReportIsTrue
    BY DEF Init, ReleasedIsOver, ReportIsTrue, InDB, NoJobs, NoJob
  <1> QED  BY <1>3, <1>4, <1>5, <1>6 DEF Inv

LEMMA InvIsKept == Inv /\ [Next]_vars => Inv'
  BY TypeIsKept, CopiesAreKept, RoundIsKept, InsertIsKept, ReleasedIsKept,
     ReportIsKept DEF Inv

LEMMA InvAlways == Spec => []Inv
  BY InvInitially, InvIsKept, PTL DEF Spec

-----------------------------------------------------------------------------
\* The state of the integrator keeps its type, and jobFinished is only ever
\* called for jobs which are done, in every interleaving of the two loops, the
\* other writers, faults and crashes.
THEOREM TypeCorrect == Spec => []TypeOK
  <1>1. Inv => TypeOK
    BY DEF Inv
  <1> QED  BY <1>1, InvAlways, PTL

\* Buildbucket is told the truth: a build which was completed with a result has
\* a job with that verdict in the database.
THEOREM ReportsAreTrue == Spec => []ReportIsTrue
  <1>1. Inv => ReportIsTrue
    BY DEF Inv
  <1> QED  BY <1>1, InvAlways, PTL

\* A job gives up its lease key only when it is over, and unless it was
\* cancelled, only when its build has been completed.
THEOREM ReleasedJobsAreOver == Spec => []ReleasedIsOver
  <1>1. Inv => ReleasedIsOver
    BY DEF Inv
  <1> QED  BY <1>1, InvAlways, PTL

\* No writer, from however old a copy, changes the verdict on a job or brings a
\* lease key back.
THEOREM VerdictsAreFinal == Spec => VerdictIsFinal
  <1> DEFINE Final == \A j \in JobIds :
                        /\ Done(db[j]) => db'[j].status = db[j].status
                        /\ InDB(j) /\ db[j].key = 0 => db'[j].key = 0
  <1>1. Inv /\ [Next]_vars => Final
    <2> SUFFICES ASSUME Inv, [Next]_vars, NEW j \in JobIds
                 PROVE  /\ Done(db[j]) => db'[j].status = db[j].status
                        /\ InDB(j) /\ db[j].key = 0 => db'[j].key = 0
      BY DEF Final
    <2>1. Evolves(db[j], db'[j])
      BY JobStep DEF DbStep
    <2> QED  BY <2>1 DEF Evolves, InDB
  <1>2. Inv /\ [Next]_vars => [Final]_vars
    BY <1>1
  <1> QED  BY <1>2, InvAlways, PTL DEF Spec, VerdictIsFinal

-----------------------------------------------------------------------------
(***************************************************************************)
(* The promises of BuildVerdicts.  First the forms which a change of the   *)
(* jobs takes: a job is made, ends, is given up with others before it is   *)
(* done, or is let go with others after it has been reported.              *)
(***************************************************************************)
\* The job j of the build b is made, with the lease which insertNewJob holds.
Made(b, j) ==
  /\ ins[b].pc = "put"
  /\ \A i \in JobIds : InDB(i) <=> i < j
  /\ db'[j] = [build |-> b, key |-> ins[b].key, status |-> "in_progress", ver |-> 1]
  /\ \A i \in JobIds \ {j} : db'[i] = db[i]

\* The job j ends.
Ended(j, s) ==
  /\ InDB(j) /\ ~Done(db[j])
  /\ db'[j] = [build |-> db[j].build, key |-> db[j].key, status |-> s,
               ver |-> db[j].ver + 1]
  /\ \A i \in JobIds \ {j} : db'[i] = db[i]

\* The jobs of S are cancelled, without their keys.
GivenUp(S) ==
  /\ S \subseteq JobIds
  /\ \A j \in S : /\ InDB(j) /\ ~Done(db[j])
                  /\ db'[j] = [build |-> db[j].build, key |-> 0,
                               status |-> "canceled", ver |-> db[j].ver + 1]
  /\ \A j \in JobIds \ S : db'[j] = db[j]

\* The reported jobs lose their keys.
Freed ==
  /\ PutFinished
  /\ \A j \in reported :
       /\ Done(db[j]) /\ Completed(db[j].build) /\ db[j].build \in Builds
       /\ db'[j] = [build |-> db[j].build, key |-> 0, status |-> db[j].status,
                    ver |-> db[j].ver + 1]
       /\ cache'[j] = db'[j]
  /\ \A j \in JobIds \ reported : db'[j] = db[j]

LEMMA MadeForm ==
  ASSUME Inv, NEW b \in Builds, PutJob(b)
  PROVE  UNCHANGED db \/ \E j \in JobIds : Made(b, j)
  <1>1. CASE UNCHANGED db
    BY <1>1
  <1>2. ASSUME NEW j \in JobIds, \A i \in JobIds : InDB(i) <=> i < j,
               db' = Put(NewJob(b, j))
        PROVE  Made(b, j)
    <2> DEFINE new == [build |-> b, key |-> ins[b].key,
                       status |-> "in_progress", ver |-> 0]
    <2>1. db'[j] = [new EXCEPT !.ver = @ + 1]
      BY <1>2 DEF Put, NewJob
    <2>2. [new EXCEPT !.ver = @ + 1]
            = [build |-> b, key |-> ins[b].key, status |-> "in_progress", ver |-> 1]
      OBVIOUS
    <2>3. \A i \in JobIds \ {j} : db'[i] = db[i]
      BY <1>2 DEF Put, NewJob
    <2> QED  BY <1>2, <2>1, <2>2, <2>3 DEF Made, PutJob
  <1> QED  BY <1>1, <1>2 DEF PutJob

LEMMA EndedForm ==
  ASSUME Inv, NEW j \in JobIds, NEW s \in Verdicts, SetStatus(j, s)
  PROVE  Ended(j, s)
  <1> DEFINE put == [x \in {j} |-> [db[x] EXCEPT !.status = s]]
  <1>1. db \in [JobIds -> JobType] /\ db[j] \in JobType /\ InDB(j) /\ ~Done(db[j])
    BY DEF Inv, TypeOK, SetStatus
  <1>2. /\ [db[j] EXCEPT !.status = s] \in JobType
        /\ [db[j] EXCEPT !.status = s] = [build |-> db[j].build, key |-> db[j].key,
                                          status |-> s, ver |-> db[j].ver]
    BY <1>1, WithStatus
  <1>3. /\ DOMAIN put = {j} /\ \A x \in {j} : put[x] \in JobType
        /\ put[j] = [build |-> db[j].build, key |-> db[j].key,
                     status |-> s, ver |-> db[j].ver]
        /\ db' = Put(put) /\ {j} \subseteq JobIds
    BY <1>2 DEF SetStatus
  <1> HIDE DEF put
  <1>4. Current(put)
    BY <1>3 DEF Current
  <1>5. /\ \A i \in JobIds \ {j} : db'[i] = db[i]
        /\ Written(put[j], db[j], db'[j])
    BY <1>1, <1>3, <1>4, PutStep
  <1> QED  BY <1>1, <1>3, <1>5 DEF Ended, Written

\* A write of current copies of unfinished jobs gives them up.
LEMMA GivenUpForm ==
  ASSUME Inv, NEW put, NEW D, D \subseteq JobIds, DOMAIN put = D, PutJobs(put),
         \A j \in D : /\ put[j] \in JobType /\ put[j].ver > 0
                      /\ put[j].key = 0 /\ put[j].status = "canceled"
                      /\ put[j].ver = db[j].ver =>
                           put[j].build = db[j].build /\ ~Done(db[j])
  PROVE  UNCHANGED db \/ GivenUp(D)
  <1>1. CASE ~Current(put)
    BY <1>1 DEF PutJobs
  <1>2. CASE Current(put)
    <2>1. db' = Put(put) /\ db \in [JobIds -> JobType]
      BY <1>2 DEF PutJobs, Inv, TypeOK
    <2>2. /\ \A j \in JobIds \ D : db'[j] = db[j]
          /\ \A j \in D : Written(put[j], db[j], db'[j])
      BY <1>2, <2>1, PutStep
    <2>3. ASSUME NEW j \in D
          PROVE  /\ InDB(j) /\ ~Done(db[j])
                 /\ db'[j] = [build |-> db[j].build, key |-> 0,
                              status |-> "canceled", ver |-> db[j].ver + 1]
      BY <2>2, <2>3 DEF Written, InDB
    <2> QED  BY <2>2, <2>3 DEF GivenUp
  <1> QED  BY <1>1, <1>2

LEMMA DropForm ==
  ASSUME Inv, NEW b \in Builds, DropJob(b)
  PROVE  UNCHANGED db \/ \E S \in SUBSET JobIds : GivenUp(S)
  <1> DEFINE i == ins[b].job
             job == [build |-> b, key |-> ins[b].key, status |-> "in_progress",
                     ver |-> 1]
             put == [x \in {i} |-> Canceled(job)]
  <1>0. /\ ins[b].key \in Nat /\ i \in JobIds
        /\ db[i].ver = 1 => db[i] = job
    BY DEF Inv, TypeOK, InsertOK, DropJob
  <1>1. CASE PutJobs(put)
    <2>1. job \in JobType
      BY <1>0 DEF JobType
    <2>2. /\ DOMAIN put = {i} /\ put[i] = Canceled(job) /\ put[i] \in JobType
      BY <2>1, CanceledJob
    <2>3. put[i] = [build |-> b, key |-> 0, status |-> "canceled", ver |-> 1]
      BY <2>2 DEF Canceled
    <2>4. {i} \subseteq JobIds /\ PutJobs(put)
      BY <1>0, <1>1
    <2> HIDE DEF put
    <2>5. \A j \in {i} : /\ put[j] \in JobType /\ put[j].ver > 0
                         /\ put[j].key = 0 /\ put[j].status = "canceled"
                         /\ put[j].ver = db[j].ver =>
                              put[j].build = db[j].build /\ ~Done(db[j])
      BY <1>0, <2>2, <2>3 DEF Done
    <2>6. UNCHANGED db \/ GivenUp({i})
      BY <2>2, <2>4, <2>5, GivenUpForm
    <2> QED  BY <1>0, <2>6
  <1> QED  BY <1>1 DEF DropJob

LEMMA LocalCancelForm ==
  ASSUME Inv, LocalCancelJobs
  PROVE  UNCHANGED db \/ \E S \in SUBSET JobIds : GivenUp(S)
  <1> DEFINE put == [j \in bad |-> Canceled(copies[j])]
  <1>0. /\ bad \subseteq JobIds
        /\ \A j \in bad : /\ copies[j] \in JobType /\ copies[j].ver > 0
                          /\ ~Done(copies[j]) /\ CopyOf(copies[j], db[j])
    BY DEF Inv, TypeOK, RoundOK, Copies
  <1>1. CASE PutJobs(put)
    <2>1. DOMAIN put = bad /\ \A j \in bad : /\ put[j] \in JobType
                                            /\ put[j] = Canceled(copies[j])
      BY <1>0, CanceledJob
    <2>2. PutJobs(put)
      BY <1>1
    <2> HIDE DEF put
    <2>3. ASSUME NEW j \in bad
          PROVE  /\ put[j].ver > 0 /\ put[j].key = 0 /\ put[j].status = "canceled"
                 /\ put[j].ver = db[j].ver =>
                      put[j].build = db[j].build /\ ~Done(db[j])
      <3>1. put[j] = [build |-> copies[j].build, key |-> 0, status |-> "canceled",
                      ver |-> copies[j].ver]
        BY <2>1 DEF Canceled
      <3> QED  BY <1>0, <3>1 DEF CopyOf
    <2>4. UNCHANGED db \/ GivenUp(bad)
      BY <1>0, <2>1, <2>2, <2>3, GivenUpForm
    <2> QED  BY <1>0, <2>4
  <1> QED  BY <1>1 DEF LocalCancelJobs

LEMMA FreedForm ==
  ASSUME Inv, PutFinished
  PROVE  UNCHANGED db \/ Freed
  <1> DEFINE put == [j \in reported |-> [copies[j] EXCEPT !.key = 0]]
  <1>0. /\ reported \subseteq JobIds /\ db \in [JobIds -> JobType]
        /\ \A j \in reported :
             /\ copies[j] \in JobType /\ copies[j].ver > 0
             /\ Done(copies[j]) /\ CopyOf(copies[j], db[j])
             /\ Completed(copies[j].build)
    BY DEF Inv, TypeOK, RoundOK, Copies
  <1>1. CASE PutJobs(put) /\ Current(put)
    <2>1. ASSUME NEW j \in reported
          PROVE  /\ put[j] \in JobType
                 /\ put[j] = [build |-> copies[j].build, key |-> 0,
                              status |-> copies[j].status, ver |-> copies[j].ver]
      BY <1>0, WithoutKey
    <2>2. /\ DOMAIN put = reported /\ Current(put)
          /\ db' = Put(put) /\ AddJobs([j \in DOMAIN put |-> db'[j]])
      BY <1>1 DEF PutJobs
    <2> HIDE DEF put
    <2>3. /\ \A j \in JobIds \ reported : db'[j] = db[j]
          /\ \A j \in reported : Written(put[j], db[j], db'[j])
      BY <1>0, <2>1, <2>2, PutStep
    <2>4. ASSUME NEW j \in reported
          PROVE  /\ Done(db[j]) /\ Completed(db[j].build) /\ db[j].build \in Builds
                 /\ db'[j] = [build |-> db[j].build, key |-> 0,
                              status |-> db[j].status, ver |-> db[j].ver + 1]
      <3>0. put[j] = [build |-> copies[j].build, key |-> 0,
                      status |-> copies[j].status, ver |-> copies[j].ver]
        BY <2>1
      <3>1. put[j].ver = db[j].ver /\ Written(put[j], db[j], db'[j])
        BY <2>3 DEF Written
      <3>2. copies[j] = db[j]
        <4>1. put[j].ver = copies[j].ver
          BY <3>0
        <4> QED  BY <1>0, <3>1, <4>1 DEF CopyOf
      <3>3. /\ put[j].build = db[j].build /\ put[j].key = 0
            /\ put[j].status = db[j].status
        BY <3>0, <3>2
      <3> QED  BY <1>0, <3>1, <3>2, <3>3 DEF Written, CopyOf
    <2>5. ASSUME NEW j \in reported
          PROVE  cache'[j] = db'[j]
      <3>1. j \in JobIds /\ cache[j].ver <= db[j].ver
        BY <1>0 DEF Inv, Copies, CopyOf
      <3>2. cache[j].ver \in Nat /\ db[j].ver \in Nat
        BY <3>1 DEF Inv, TypeOK, JobType
      <3>3. db'[j].ver = db[j].ver + 1
        <4>1. db'[j] = [build |-> db[j].build, key |-> 0,
                        status |-> db[j].status, ver |-> db[j].ver + 1]
          BY <2>4
        <4> QED  BY <4>1
      <3>4. db'[j].ver > cache[j].ver
        BY <3>1, <3>2, <3>3
      <3> QED  BY <2>2, <3>1, <3>4 DEF AddJobs
    <2> QED  BY <2>3, <2>4, <2>5 DEF Freed
  <1>2. CASE PutJobs(put) /\ ~Current(put)
    BY <1>2 DEF PutJobs
  <1> QED  BY <1>1, <1>2 DEF PutFinished

\* Every change of the jobs has one of the forms, and leaves the builds alone.
LEMMA JobForms ==
  ASSUME Inv, [Next]_vars
  PROVE  \/ UNCHANGED db
         \/ /\ UNCHANGED build
            /\ \/ \E b \in Builds, j \in JobIds : Made(b, j) /\ PutJob(b)
               \/ \E j \in JobIds, s \in Verdicts : Ended(j, s) /\ SetStatus(j, s)
               \/ \E S \in SUBSET JobIds : GivenUp(S)
               \/ Freed
  <1>1. ASSUME NEW b \in Builds, PutJob(b)
        PROVE  UNCHANGED db \/ (UNCHANGED build /\ \E j \in JobIds : Made(b, j))
    BY <1>1, MadeForm DEF PutJob
  <1>2. ASSUME NEW b \in Builds, DropJob(b)
        PROVE  \/ UNCHANGED db
               \/ UNCHANGED build /\ \E S \in SUBSET JobIds : GivenUp(S)
    BY <1>2, DropForm DEF DropJob
  <1>3. CASE LocalCancelJobs
    BY <1>3, LocalCancelForm DEF LocalCancelJobs
  <1>4. CASE PutFinished
    BY <1>4, FreedForm DEF PutFinished
  <1>5. ASSUME NEW j \in JobIds, UpdateUnfinishedJob(j) \/ CancelJob(j)
        PROVE  UNCHANGED build /\ \E s \in Verdicts : Ended(j, s) /\ SetStatus(j, s)
    <2>1. PICK s \in Verdicts : SetStatus(j, s)
      BY <1>5 DEF UpdateUnfinishedJob, CancelJob, Verdicts
    <2> QED  BY <2>1, EndedForm DEF SetStatus
  <1>6. CASE \/ UNCHANGED vars
             \/ \E arrived \in SUBSET Stale : Poll(arrived) \/ GetActiveTryJobs(arrived)
             \/ \E b \in Builds : \/ Rejects(b) \/ RemoteCancelBuild(b)
                                  \/ TryLeaseBuild(b) \/ JobStarted(b)
                                  \/ PersonCancels(b) \/ LeaseExpires(b)
             \/ \E S \in SUBSET beats : HeartbeatBatch(S)
             \/ \E j \in reports : JobFinished(j)
             \/ Crash
    BY <1>6 DEF vars, Poll, GetActiveTryJobs, Rejects, RemoteCancelBuild,
                TryLeaseBuild, JobStarted, PersonCancels, LeaseExpires,
                HeartbeatBatch, JobFinished, Crash
  <1> QED  BY <1>1, <1>2, <1>3, <1>4, <1>5, <1>6 DEF Next, InsertNewJob, UpdateJobs

\* What a job of the database is like.
LEMMA JobFacts ==
  ASSUME Inv, NEW j \in JobIds
  PROVE  /\ db[j] \in JobType /\ db[j].ver \in Nat /\ db[j].key \in Nat
         /\ InDB(j) <=> db[j].build \in Builds
         /\ ~InDB(j) => db[j] = NoJob
         /\ InDB(j) /\ ~Done(db[j]) => db[j].key # 0
         /\ Done(db[j]) => InDB(j)
  <1>1. db[j] \in JobType /\ CopyOf(db[j], db[j])
    BY DEF Inv, TypeOK, Copies
  <1>2. db[j].ver \in Nat /\ db[j].key \in Nat
    BY <1>1 DEF JobType
  <1>3. ~InDB(j) => db[j] = NoJob
    BY <1>1, <1>2 DEF InDB, CopyOf
  <1>4. InDB(j) <=> db[j].build \in Builds
    BY <1>1, <1>3, NoBuildAssumption DEF InDB, CopyOf, NoJob
  <1> QED  BY <1>1, <1>2, <1>3, <1>4 DEF Inv, ReleasedIsOver, NoJob, Done

(***************************************************************************)
(* A job which is done keeps its key until updateJobs, which has reported  *)
(* it, writes it without; so a copy with a key of a job which is done is   *)
(* what the database has.                                                  *)
(***************************************************************************)
ReadyInv ==
  /\ \A j \in JobIds : cache[j].key # 0 /\ Done(cache[j]) => cache[j] = db[j]
  /\ \A j \in reports \union reported : copies[j] = db[j] /\ db[j].key # 0

LEMMA DoneStays ==
  ASSUME Inv, [Next]_vars, NEW j \in JobIds, Done(db[j])
  PROVE  db'[j] = db[j] \/ (Freed /\ j \in reported)
  <1>1. ASSUME NEW b \in Builds, NEW i \in JobIds, Made(b, i)
        PROVE  db'[j] = db[j]
    <2>1. ~InDB(i) /\ InDB(j)
      BY <1>1, JobFacts DEF Made, JobIds
    <2> QED  BY <1>1, <2>1 DEF Made
  <1>2. ASSUME NEW i \in JobIds, NEW s \in Verdicts, Ended(i, s)
        PROVE  db'[j] = db[j]
    BY <1>2 DEF Ended
  <1>3. ASSUME NEW S \in SUBSET JobIds, GivenUp(S)
        PROVE  db'[j] = db[j]
    BY <1>3 DEF GivenUp
  <1>4. CASE Freed
    BY <1>4 DEF Freed
  <1> QED  BY <1>1, <1>2, <1>3, <1>4, JobForms

LEMMA ReadyIsKept ==
  ASSUME Inv, ReadyInv, [Next]_vars
  PROVE  ReadyInv'
  <1>1. ASSUME NEW j \in JobIds, cache'[j].key # 0, Done(cache'[j])
        PROVE  cache'[j] = db'[j]
    <2>1. cache'[j] \in {cache[j], db[j], db'[j]}
      BY JobStep DEF CacheStep
    <2>2. CASE cache'[j] = db[j]
      <3>1. CASE Freed /\ j \in reported
        BY <3>1 DEF Freed
      <3> QED  BY <1>1, <2>2, <3>1, DoneStays
    <2>3. CASE cache'[j] = cache[j]
      BY <1>1, <2>2, <2>3 DEF ReadyInv
    <2> QED  BY <2>1, <2>2, <2>3
  <1>2. ASSUME NEW j \in reports \union reported, ~PutFinished
        PROVE  copies[j] = db'[j] /\ db'[j].key # 0
    <2>1. j \in JobIds /\ Done(db[j]) /\ copies[j] = db[j] /\ db[j].key # 0
      BY DEF Inv, TypeOK, RoundOK, ReadyInv
    <2> QED  BY <1>2, <2>1, DoneStays DEF Freed
  <1>3. CASE PutFinished
    BY <1>1, <1>3 DEF PutFinished, ReadyInv
  <1>4. ASSUME NEW arrived \in SUBSET Stale, GetActiveTryJobs(arrived)
        PROVE  ReadyInv'
    <2>1. /\ reported' = {} /\ reports' = Finished(cache')
          /\ \A j \in Finished(cache') : copies'[j] = cache'[j]
      BY <1>4 DEF GetActiveTryJobs, Finished, Active
    <2> QED  BY <1>1, <2>1 DEF ReadyInv, Finished, Active
  <1>5. CASE Crash
    BY <1>1, <1>5 DEF Crash, ReadyInv
  <1>6. ASSUME UNCHANGED copies, ~PutFinished,
               reports' \union reported' \subseteq reports \union reported
        PROVE  ReadyInv'
    BY <1>1, <1>2, <1>6 DEF ReadyInv
  <1>7. ASSUME NEW j \in reports, JobFinished(j)
        PROVE  /\ UNCHANGED copies
               /\ reports' \union reported' \subseteq reports \union reported
    BY <1>7 DEF JobFinished
  <1>8. CASE UNCHANGED <<copies, reports, reported>>
    BY <1>3, <1>6, <1>8
  <1> QED  BY <1>3, <1>4, <1>5, <1>6, <1>7, <1>8
           DEF Next, vars, round, InsertNewJob, UpdateJobs, Poll, Rejects,
               RemoteCancelBuild, TryLeaseBuild, PutJob, JobStarted, DropJob,
               PersonCancels, LeaseExpires, HeartbeatBatch, LocalCancelJobs,
               UpdateUnfinishedJob, CancelJob, SetStatus

(***************************************************************************)
(* The keys of the leases of a build go up, and every lease is held by one *)
(* job at most: all jobs but the newest have a key which is too old.       *)
(***************************************************************************)
KeyInv ==
  /\ \A j \in JobIds : db[j].build \in Builds =>
       /\ db[j].key <= build[db[j].build].key
       /\ \A i \in JobIds : i < j /\ db[i].build = db[j].build =>
            db[i].key < build[db[i].build].key
  /\ \A b \in Builds : ins[b].pc = "put" =>
       /\ ins[b].key = build[b].key
       /\ \A j \in JobIds : db[j].build = b => db[j].key < ins[b].key

\* After PutJob the lease is in the job, or given up with it.
LEMMA PutJobPc ==
  ASSUME Inv, NEW b \in Builds, PutJob(b)
  PROVE  /\ ins'[b].pc \in {"start", "cancel"}
         /\ \A c \in Builds \ {b} : ins'[c] = ins[c]
  <1>1. ins \in [Builds -> InsType] /\ ins[b] \in InsType
    BY DEF Inv, TypeOK, InsType
  <1>2. CASE Goes(b, "cancel")
    <2>1. ins' = [ins EXCEPT ![b] = [ins[b] EXCEPT !.pc = "cancel"]]
      BY <1>1, <1>2 DEF Goes
    <2>2. [ins[b] EXCEPT !.pc = "cancel"]
            = [pc |-> "cancel", key |-> ins[b].key, job |-> ins[b].job]
      BY <1>1, NewPc
    <2> QED  BY <1>1, <2>1, <2>2
  <1>3. ASSUME NEW j,
               ins' = [ins EXCEPT ![b] = [pc |-> "start", key |-> @.key, job |-> j]]
        PROVE  /\ ins'[b].pc = "start"
               /\ \A c \in Builds \ {b} : ins'[c] = ins[c]
    BY <1>1, <1>3
  <1> QED  BY <1>2, <1>3 DEF PutJob

LEMMA KeyStep ==
  ASSUME Inv, [Next]_vars, NEW b \in Builds
  PROVE  /\ build[b].key \in Nat
         /\ \/ build'[b].key = build[b].key
            \/ build'[b].key = build[b].key + 1 /\ UNCHANGED db
         /\ ins'[b].pc = "put" =>
              \/ ins'[b] = ins[b] /\ build'[b].key = build[b].key
              \/ /\ ins'[b].key = build'[b].key
                 /\ build'[b].key = build[b].key + 1 /\ UNCHANGED db
  <1> DEFINE Same == build'[b].key = build[b].key
             Leased == build'[b].key = build[b].key + 1 /\ UNCHANGED db
  <1>0. /\ build \in [Builds -> BuildType] /\ build[b].key \in Nat
        /\ ins \in [Builds -> InsType]
    BY DEF Inv, TypeOK, BuildType, InsType
  <1>1. CASE UNCHANGED build
    <2>1. ins'[b].pc = "put" => ins'[b] = ins[b]
      <3>0. ASSUME NEW c \in Builds, NEW p \in {"cancel", "drop"}, Goes(c, p)
            PROVE  ins'[b].pc = "put" => ins'[b] = ins[b]
        <4>1. /\ ins' = [ins EXCEPT ![c] = [ins[c] EXCEPT !.pc = p]]
              /\ ins[c] \in InsType
          BY <1>0, <3>0 DEF Goes
        <4>2. [ins[c] EXCEPT !.pc = p] = [pc |-> p, key |-> ins[c].key, job |-> ins[c].job]
          BY <4>1, NewPc
        <4> QED  BY <1>0, <4>1, <4>2
      <3>1. ASSUME NEW c \in Builds, Returns(c) \/ Goes(c, "cancel") \/ Goes(c, "drop")
            PROVE  ins'[b].pc = "put" => ins'[b] = ins[b]
        BY <1>0, <3>0, <3>1 DEF Returns, Idle
      <3>2. ASSUME NEW c \in Builds, PutJob(c)
            PROVE  ins'[b].pc = "put" => ins'[b] = ins[b]
        BY <3>2, PutJobPc
      <3>3. ASSUME NEW c \in Builds, TryLeaseBuild(c)
            PROVE  ins'[b].pc = "put" => ins'[b] = ins[b]
        <4>1. CASE Returns(c)
          BY <3>1, <4>1
        <4>2. CASE /\ build[c].status = "scheduled"
                   /\ build' = [build EXCEPT ![c] = [status |-> "leased",
                                                     key |-> @.key + 1,
                                                     result |-> @.result]]
          <5>1. build'[c].status = "leased"
            BY <1>0, <4>2
          <5> QED  BY <1>1, <4>2, <5>1
        <4> QED  BY <3>3, <4>1, <4>2 DEF TryLeaseBuild
      <3>4. ASSUME NEW c \in Builds, \/ Rejects(c) \/ RemoteCancelBuild(c)
                                     \/ JobStarted(c) \/ DropJob(c)
            PROVE  ins'[b].pc = "put" => ins'[b] = ins[b]
        BY <3>1, <3>4 DEF Rejects, RemoteCancelBuild, JobStarted, DropJob
      <3>5. ASSUME NEW arrived \in SUBSET Stale, Poll(arrived)
            PROVE  ins'[b].pc # "put"
        BY <3>5 DEF Poll, Idle
      <3>6. CASE Crash
        BY <3>6 DEF Crash, Idle
      <3>7. CASE UNCHANGED ins
        BY <3>7
      <3> QED  BY <3>2, <3>3, <3>4, <3>5, <3>6, <3>7
               DEF Next, vars, InsertNewJob, UpdateJobs, PersonCancels,
                   LeaseExpires, GetActiveTryJobs, HeartbeatBatch,
                   LocalCancelJobs, JobFinished, PutFinished,
                   UpdateUnfinishedJob, CancelJob, SetStatus
    <2> QED  BY <1>0, <1>1, <2>1
  <1>2. ASSUME NEW c \in Builds, NEW r, Complete(c, r)
        PROVE  Same
    BY <1>0, <1>2 DEF Complete
  <1>3. ASSUME NEW c \in Builds, RemoteCancelBuild(c) \/ PersonCancels(c), ~UNCHANGED build
        PROVE  Same /\ (ins'[b].pc = "put" => ins'[b] = ins[b])
    <2>1. Same
      BY <1>2, <1>3 DEF RemoteCancelBuild, PersonCancels, Cancel
    <2>2. UNCHANGED ins \/ Returns(c)
      BY <1>3 DEF RemoteCancelBuild, PersonCancels
    <2> QED  BY <1>0, <2>1, <2>2 DEF Returns, Idle, InsType
  <1>4. ASSUME NEW c \in Builds, LeaseExpires(c)
        PROVE  Same /\ UNCHANGED ins
    <2>1. build' = [build EXCEPT ![c] = [build[c] EXCEPT !.status = "scheduled"]]
      BY <1>0, <1>4 DEF LeaseExpires
    <2>2. [build[c] EXCEPT !.status = "scheduled"].key = build[c].key
      BY <1>0 DEF BuildType
    <2> QED  BY <1>0, <1>4, <2>1, <2>2 DEF LeaseExpires
  <1>5. ASSUME NEW j \in reports, JobFinished(j), ~UNCHANGED build
        PROVE  Same /\ UNCHANGED ins
    <2>1. copies[j].build \in Builds /\ Complete(copies[j].build, Result(copies[j]))
      BY <1>5 DEF JobFinished, Inv, RoundOK, Copies, CopyOf, TypeOK
    <2> QED  BY <1>2, <1>5, <2>1 DEF JobFinished
  <1>6. ASSUME NEW c \in Builds, TryLeaseBuild(c), ~UNCHANGED build
        PROVE  /\ Same \/ Leased
               /\ ins'[b].pc = "put" => \/ ins'[b] = ins[b] /\ Same
                                        \/ ins'[b].key = build'[b].key /\ Leased
    <2>1. /\ build' = [build EXCEPT ![c] = [status |-> "leased", key |-> @.key + 1,
                                            result |-> @.result]]
          /\ \/ ins' = [ins EXCEPT ![c] = [pc |-> "put", key |-> build'[c].key,
                                           job |-> 0]]
             \/ Returns(c)
          /\ UNCHANGED db
      BY <1>6 DEF TryLeaseBuild
    <2>2. CASE b = c
      <3>1. Leased
        BY <1>0, <2>1, <2>2 DEF BuildType
      <3>2. ins'[b].pc = "put" => ins'[b].key = build'[b].key
        BY <1>0, <2>1, <2>2 DEF Returns, Idle, InsType
      <3> QED  BY <3>1, <3>2
    <2>3. CASE b # c
      BY <1>0, <2>1, <2>3 DEF Returns, BuildType, InsType
    <2> QED  BY <2>2, <2>3
  <1>7. \/ UNCHANGED build
        \/ \E c \in Builds : \/ RemoteCancelBuild(c) \/ PersonCancels(c)
                             \/ LeaseExpires(c) \/ TryLeaseBuild(c)
        \/ \E j \in reports : JobFinished(j)
    BY DEF Next, vars, InsertNewJob, UpdateJobs, Poll, Rejects, PutJob, JobStarted,
           DropJob, GetActiveTryJobs, HeartbeatBatch, LocalCancelJobs,
           PutFinished, UpdateUnfinishedJob, CancelJob, SetStatus, Crash
  <1> QED  BY <1>0, <1>1, <1>3, <1>4, <1>5, <1>6, <1>7

LEMMA KeysAreKept ==
  ASSUME Inv, KeyInv, [Next]_vars
  PROVE  KeyInv'
  <1>0. /\ \A j \in JobIds : /\ db[j] \in JobType /\ db[j].key \in Nat
                             /\ InDB(j) <=> db[j].build \in Builds
                             /\ ~InDB(j) => db[j] = NoJob
        /\ \A b \in Builds : build[b].key \in Nat
        /\ JobIds \subseteq Int
    BY JobFacts, KeyStep DEF JobIds
  \* Without a new job.
  <1>1. ASSUME \A j \in JobIds : /\ db'[j].build = db[j].build
                                 /\ db'[j].key \in {db[j].key, 0}
        PROVE  KeyInv'
    <2>1. ASSUME NEW j \in JobIds, db'[j].build \in Builds
          PROVE  /\ db'[j].key <= build'[db'[j].build].key
                 /\ \A i \in JobIds : i < j /\ db'[i].build = db'[j].build =>
                      db'[i].key < build'[db'[i].build].key
      <3> DEFINE b == db'[j].build
      <3>1. /\ b \in Builds /\ build[b].key \in Nat
            /\ build'[b].key \in {build[b].key, build[b].key + 1}
        BY <2>1, KeyStep
      <3>2. /\ db[j].build = b /\ db[j].key <= build[b].key
            /\ \A i \in JobIds : i < j /\ db[i].build = b => db[i].key < build[b].key
        BY <1>1, <3>1 DEF KeyInv
      <3>3. db'[j].key <= build'[b].key
        BY <1>0, <1>1, <3>1, <3>2
      <3>4. ASSUME NEW i \in JobIds, i < j, db'[i].build = b
            PROVE  db'[i].key < build'[b].key
        <4>1. db[i].build = b /\ db'[i].key \in {db[i].key, 0} /\ db[i].key \in Nat
          BY <1>0, <1>1, <3>4
        <4>2. db[i].key < build[b].key
          BY <3>2, <3>4, <4>1
        <4> QED  BY <3>1, <4>1, <4>2
      <3> QED  BY <3>3, <3>4
    <2>2. ASSUME NEW b \in Builds, ins'[b].pc = "put"
          PROVE  /\ ins'[b].key = build'[b].key
                 /\ \A j \in JobIds : db'[j].build = b => db'[j].key < ins'[b].key
      <3>1. CASE ins'[b] = ins[b] /\ build'[b].key = build[b].key
        <4>1. ins[b].key = build[b].key /\ build[b].key \in Nat
          BY <1>0, <2>2, <3>1 DEF KeyInv
        <4>2. ASSUME NEW j \in JobIds, db'[j].build = b
              PROVE  db'[j].key < ins'[b].key
          <5>1. /\ db[j].build = b /\ db[j].key \in Nat
                /\ db'[j].key \in {db[j].key, 0}
            BY <1>0, <1>1, <4>2
          <5>2. db[j].key < ins[b].key
            BY <2>2, <3>1, <5>1 DEF KeyInv
          <5> QED  BY <3>1, <4>1, <5>1, <5>2
        <4> QED  BY <3>1, <4>1, <4>2
      <3>2. CASE /\ ins'[b].key = build'[b].key
                 /\ build'[b].key = build[b].key + 1 /\ UNCHANGED db
        <4>1. ASSUME NEW j \in JobIds, db'[j].build = b
              PROVE  db'[j].key < ins'[b].key
          <5>1. db[j].build = b /\ db'[j].key = db[j].key /\ db[j].key \in Nat
            BY <1>0, <3>2, <4>1
          <5>2. db[j].key <= build[b].key
            BY <5>1 DEF KeyInv
          <5> QED  BY <1>0, <3>2, <5>1, <5>2
        <4> QED  BY <3>2, <4>1
      <3> QED  BY <2>2, <3>1, <3>2, KeyStep
    <2> QED  BY <2>1, <2>2 DEF KeyInv
  \* A new job is the newest one of its build, and has the newest key.
  <1>2. ASSUME NEW b \in Builds, NEW j \in JobIds, Made(b, j), PutJob(b),
               UNCHANGED build
        PROVE  KeyInv'
    <2>1. /\ ins[b].key = build[b].key /\ build[b].key \in Nat
          /\ \A i \in JobIds : db[i].build = b => db[i].key < ins[b].key
      BY <1>0, <1>2 DEF KeyInv, Made
    <2>2. /\ db'[j].build = b /\ db'[j].key = ins[b].key
          /\ \A i \in JobIds \ {j} : db'[i] = db[i]
      BY <1>2 DEF Made
    <2>3. \A i \in JobIds : db[i].build \in Builds => i < j
      BY <1>0, <1>2 DEF Made
    <2>4. ASSUME NEW k \in JobIds, db'[k].build \in Builds
          PROVE  /\ db'[k].key <= build'[db'[k].build].key
                 /\ \A i \in JobIds : i < k /\ db'[i].build = db'[k].build =>
                      db'[i].key < build'[db'[i].build].key
      <3>1. CASE k = j
        BY <1>0, <1>2, <2>1, <2>2, <3>1
      <3>2. CASE k # j
        <4>1. db'[k] = db[k] /\ k < j
          BY <2>2, <2>3, <2>4, <3>2
        <4>2. \A i \in JobIds : i < k => i # j
          BY <1>0, <4>1
        <4> QED  BY <1>2, <2>2, <2>4, <4>1, <4>2 DEF KeyInv
      <3> QED  BY <3>1, <3>2
    <2>5. ASSUME NEW c \in Builds, ins'[c].pc = "put"
          PROVE  /\ ins'[c].key = build'[c].key
                 /\ \A i \in JobIds : db'[i].build = c => db'[i].key < ins'[c].key
      <3>1. c # b
        BY <1>2, <2>5, PutJobPc
      <3>2. ins'[c] = ins[c] /\ build'[c].key = build[c].key
        BY <1>0, <1>2, <2>5, KeyStep
      <3>3. ASSUME NEW i \in JobIds, db'[i].build = c
            PROVE  db'[i] = db[i]
        BY <2>2, <3>1, <3>3
      <3> QED  BY <2>5, <3>2, <3>3 DEF KeyInv
    <2> QED  BY <2>4, <2>5 DEF KeyInv
  <1>3. CASE \/ UNCHANGED db
             \/ \E j \in JobIds, s \in Verdicts : Ended(j, s)
             \/ \E S \in SUBSET JobIds : GivenUp(S)
             \/ Freed
    <2>1. CASE UNCHANGED db
      BY <1>1, <2>1
    <2>2. ASSUME NEW i \in JobIds, NEW s \in Verdicts, Ended(i, s), NEW j \in JobIds
          PROVE  db'[j].build = db[j].build /\ db'[j].key \in {db[j].key, 0}
      BY <2>2 DEF Ended
    <2>3. ASSUME NEW S \in SUBSET JobIds, GivenUp(S), NEW j \in JobIds
          PROVE  db'[j].build = db[j].build /\ db'[j].key \in {db[j].key, 0}
      <3>1. CASE j \in S
        <4>1. db'[j] = [build |-> db[j].build, key |-> 0, status |-> "canceled",
                        ver |-> db[j].ver + 1]
          BY <2>3, <3>1 DEF GivenUp
        <4> QED  BY <4>1
      <3> QED  BY <2>3, <3>1 DEF GivenUp
    <2>4. ASSUME Freed, NEW j \in JobIds
          PROVE  db'[j].build = db[j].build /\ db'[j].key \in {db[j].key, 0}
      <3>1. CASE j \in reported
        <4>1. db'[j] = [build |-> db[j].build, key |-> 0, status |-> db[j].status,
                        ver |-> db[j].ver + 1]
          BY <2>4, <3>1 DEF Freed
        <4> QED  BY <4>1
      <3> QED  BY <2>4, <3>1 DEF Freed
    <2> QED  BY <1>1, <1>3, <2>1, <2>2, <2>3, <2>4
  <1> QED  BY <1>2, <1>3, JobForms

(***************************************************************************)
(* The builds: one is completed as cancelled or with the result of a job   *)
(* which is reported, or none is completed.                                *)
(***************************************************************************)
ResultInv == \A b \in Builds : Completed(b) => build[b].result \in Verdicts

\* Leases begin and run out.
NothingEnds ==
  \A b \in Builds : \/ build'[b] = build[b]
                    \/ ~Completed(b) /\ build'[b].status # "completed"

LEMMA BuildForms ==
  ASSUME Inv, [Next]_vars
  PROVE  \/ UNCHANGED build
         \/ /\ UNCHANGED db
            /\ \/ \E b \in Builds : ~Completed(b) /\ Complete(b, "canceled")
               \/ \E j \in reports :
                    /\ Holds(copies[j].build, copies[j].key)
                    /\ Complete(copies[j].build, Result(copies[j]))
               \/ NothingEnds
  <1>0. build \in [Builds -> BuildType]
    BY DEF Inv, TypeOK, BuildType
  <1>1. ASSUME NEW b \in Builds, RemoteCancelBuild(b) \/ PersonCancels(b)
        PROVE  /\ UNCHANGED db
               /\ UNCHANGED build \/ (~Completed(b) /\ Complete(b, "canceled"))
    BY <1>1 DEF RemoteCancelBuild, PersonCancels, Cancel
  <1>2. ASSUME NEW j \in reports, JobFinished(j)
        PROVE  /\ UNCHANGED db
               /\ \/ UNCHANGED build
                  \/ /\ Holds(copies[j].build, copies[j].key)
                     /\ Complete(copies[j].build, Result(copies[j]))
    BY <1>2 DEF JobFinished
  <1>3. ASSUME NEW b \in Builds, TryLeaseBuild(b)
        PROVE  UNCHANGED db /\ (UNCHANGED build \/ NothingEnds)
    <2>1. CASE /\ build[b].status = "scheduled"
               /\ build' = [build EXCEPT ![b] = [status |-> "leased",
                                                 key |-> @.key + 1,
                                                 result |-> @.result]]
      <3>1. /\ build'[b].status = "leased" /\ ~Completed(b)
            /\ \A c \in Builds \ {b} : build'[c] = build[c]
        BY <1>0, <2>1 DEF Completed
      <3> QED  BY <1>3, <3>1 DEF NothingEnds, TryLeaseBuild
    <2> QED  BY <1>3, <2>1 DEF TryLeaseBuild
  <1>4. ASSUME NEW b \in Builds, LeaseExpires(b)
        PROVE  UNCHANGED db /\ NothingEnds
    <2>1. /\ build' = [build EXCEPT ![b] = [build[b] EXCEPT !.status = "scheduled"]]
          /\ build[b].status = "leased" /\ UNCHANGED db
      BY <1>0, <1>4 DEF LeaseExpires
    <2>2. [build[b] EXCEPT !.status = "scheduled"].status = "scheduled"
      BY <1>0 DEF BuildType
    <2>3. /\ build'[b].status = "scheduled" /\ ~Completed(b)
          /\ \A c \in Builds \ {b} : build'[c] = build[c]
      BY <1>0, <2>1, <2>2 DEF Completed
    <2> QED  BY <2>1, <2>3 DEF NothingEnds
  <1>5. \/ UNCHANGED build
        \/ \E b \in Builds : \/ RemoteCancelBuild(b) \/ PersonCancels(b)
                             \/ LeaseExpires(b) \/ TryLeaseBuild(b)
        \/ \E j \in reports : JobFinished(j)
    BY DEF Next, vars, InsertNewJob, UpdateJobs, Poll, Rejects, PutJob, JobStarted,
           DropJob, GetActiveTryJobs, HeartbeatBatch, LocalCancelJobs,
           PutFinished, UpdateUnfinishedJob, CancelJob, SetStatus, Crash
  <1> QED  BY <1>1, <1>2, <1>3, <1>4, <1>5

LEMMA ResultIsKept ==
  ASSUME Inv, ResultInv, [Next]_vars
  PROVE  ResultInv'
  <1>0. build \in [Builds -> BuildType]
    BY DEF Inv, TypeOK, BuildType
  <1>1. ASSUME NEW b \in Builds, NEW r \in Verdicts, Complete(b, r)
        PROVE  ResultInv'
    <2>1. /\ build'[b] = [status |-> "completed", key |-> build[b].key, result |-> r]
          /\ \A c \in Builds \ {b} : build'[c] = build[c]
      BY <1>0, <1>1 DEF Complete
    <2>2. build'[b].result = r
      BY <2>1
    <2> QED  BY <2>1, <2>2 DEF ResultInv, Completed
  <1>2. ASSUME NEW j \in reports, Complete(copies[j].build, Result(copies[j]))
        PROVE  ResultInv'
    <2>1. copies[j].build \in Builds
      BY DEF Inv, TypeOK, RoundOK, Copies, CopyOf
    <2>2. Result(copies[j]) \in Verdicts
      BY DEF Result, Verdicts
    <2> QED  BY <1>1, <1>2, <2>1, <2>2
  <1>3. CASE UNCHANGED build \/ NothingEnds
    BY <1>3 DEF NothingEnds, ResultInv, Completed
  <1>4. "canceled" \in Verdicts
    BY DEF Verdicts
  <1> QED  BY <1>1, <1>2, <1>3, <1>4, BuildForms

-----------------------------------------------------------------------------
(***************************************************************************)
(* Every step is a step of BuildVerdicts, or stutters.                     *)
(***************************************************************************)
Outcome(b) == IF Completed(b) THEN build[b].result ELSE "none"
Verdict(j) == IF Done(db[j]) THEN db[j].status ELSE "none"
Owners == [j \in JobIds |-> db[j].build]
ActiveJobs == {j \in JobIds : db[j].key # 0}

LEMMA BookInitially == Init => Book!BookInit
  <1> SUFFICES ASSUME Init PROVE Book!BookInit
    OBVIOUS
  <1>1. \A b \in Builds : Outcome(b) = "none"
    BY DEF Init, Outcome, Completed
  <1>2. \A j \in JobIds : /\ db[j].build = NoBuild /\ db[j].key = 0
                          /\ Verdict(j) = "none"
    BY DEF Init, NoJobs, NoJob, Verdict, Done
  <1> QED  BY <1>1, <1>2 DEF Book!BookInit, Outcome, Verdict

\* While the builds stay as they are, so do their outcomes.
LEMMA OutcomesStay ==
  ASSUME UNCHANGED build
  PROVE  UNCHANGED [b \in Builds |-> IF Completed(b) THEN build[b].result ELSE "none"]
  BY DEF Completed

LEMMA BeginStep ==
  ASSUME Inv, NEW b \in Builds, NEW j \in JobIds, Made(b, j), UNCHANGED build
  PROVE  Book!Begin(j, b)
  <1>0. ins[b].key > 0 /\ ~InDB(j) /\ j \notin {i \in JobIds : i < j}
    BY JobFacts DEF Inv, InsertOK, Made, JobIds
  <1>1. /\ db'[j].build = b /\ db'[j].key = ins[b].key
        /\ db'[j].status = "in_progress"
        /\ \A i \in JobIds \ {j} : db'[i] = db[i]
    BY DEF Made
  <1>2. \A i \in JobIds : db[i].build # NoBuild <=> i < j
    BY JobFacts, NoBuildAssumption DEF Made, NoJob
  <1>3. Owners' = [Owners EXCEPT ![j] = b]
    BY <1>1 DEF Owners
  <1>4. ActiveJobs' = ActiveJobs \union {j}
    BY <1>0, <1>1 DEF ActiveJobs
  <1>5. ~Done(db[j]) /\ ~Done(db'[j])
    BY <1>0, <1>1, JobFacts DEF Done
  <1>6. [i \in JobIds |-> Verdict(i)]' = [i \in JobIds |-> Verdict(i)]
    BY <1>1, <1>5 DEF Verdict
  <1>7. \A i \in JobIds : Owners[i] # NoBuild <=> i < j
    BY <1>2 DEF Owners
  <1> QED  BY <1>3, <1>4, <1>6, <1>7, OutcomesStay
           DEF Book!Begin, Owners, ActiveJobs, Verdict

LEMMA ConcludeStep ==
  ASSUME Inv, NEW j \in JobIds, NEW s \in Verdicts, Ended(j, s), UNCHANGED build
  PROVE  Book!Conclude(j)
  <1>1. /\ db'[j].build = db[j].build /\ db'[j].key = db[j].key
        /\ db'[j].status = s
        /\ \A i \in JobIds \ {j} : db'[i] = db[i]
    BY DEF Ended
  <1>2. ~Done(db[j]) /\ Done(db'[j]) /\ db[j].key # 0
    BY <1>1, JobFacts DEF Ended, Done, Verdicts
  <1>3. Owners' = Owners /\ ActiveJobs' = ActiveJobs /\ j \in ActiveJobs
    BY <1>1, <1>2 DEF Owners, ActiveJobs
  <1>4. [i \in JobIds |-> Verdict(i)]' = [[i \in JobIds |-> Verdict(i)] EXCEPT ![j] = s]
    BY <1>1, <1>2 DEF Verdict
  <1>5. [i \in JobIds |-> Verdict(i)][j] = "none"
    BY <1>2 DEF Verdict
  <1>6. s \in {"success", "failure", "canceled"}
    BY DEF Verdicts
  <1> QED  BY <1>3, <1>4, <1>5, <1>6, OutcomesStay
           DEF Book!Conclude, Owners, ActiveJobs, Verdict

LEMMA GiveUpStep ==
  ASSUME Inv, NEW S \in SUBSET JobIds, GivenUp(S), UNCHANGED build
  PROVE  S \subseteq ActiveJobs /\ Book!GiveUp(S)
  <1>1. ASSUME NEW j \in S
        PROVE  /\ db'[j].build = db[j].build /\ db'[j].key = 0
               /\ db'[j].status = "canceled" /\ Done(db'[j])
               /\ ~Done(db[j]) /\ db[j].key # 0
    <2>1. db'[j] = [build |-> db[j].build, key |-> 0, status |-> "canceled",
                    ver |-> db[j].ver + 1]
      BY DEF GivenUp
    <2>2. db'[j].status = "canceled"
      BY <2>1
    <2> QED  BY <2>1, <2>2, JobFacts DEF GivenUp, Done
  <1>2. \A j \in JobIds \ S : db'[j] = db[j]
    BY DEF GivenUp
  <1>3. Owners' = Owners
    BY <1>1, <1>2 DEF Owners
  <1>4. ActiveJobs' = ActiveJobs \ S /\ S \subseteq ActiveJobs
    BY <1>1, <1>2 DEF ActiveJobs
  <1>5. ASSUME NEW j \in JobIds
        PROVE  Verdict(j)' = IF j \in S THEN "canceled" ELSE Verdict(j)
    BY <1>1, <1>2 DEF Verdict
  <1>6. \A j \in S : [i \in JobIds |-> Verdict(i)][j] = "none"
    BY <1>1 DEF Verdict
  <1>7. [i \in JobIds |-> Verdict(i)]'
          = [j \in JobIds |-> IF j \in S THEN "canceled"
                              ELSE [i \in JobIds |-> Verdict(i)][j]]
    BY <1>5
  <1> QED  BY <1>3, <1>4, <1>6, <1>7, OutcomesStay
           DEF Book!GiveUp, Owners, ActiveJobs, Verdict

LEMMA ReleaseStep ==
  ASSUME Inv, ReadyInv, ResultInv, Freed, UNCHANGED build
  PROVE  \E S \in SUBSET ActiveJobs : Book!Release(S)
  <1>0. PICK S \in SUBSET JobIds : S = reported
    BY DEF Inv, TypeOK
  <1>1. ASSUME NEW j \in S
        PROVE  /\ db'[j].build = db[j].build /\ db'[j].key = 0
               /\ db'[j].status = db[j].status
               /\ Done(db[j]) /\ db[j].key # 0
               /\ Verdict(j) # "none" /\ Outcome(db[j].build) # "none"
    <2>1. db'[j] = [build |-> db[j].build, key |-> 0, status |-> db[j].status,
                    ver |-> db[j].ver + 1]
      BY <1>0 DEF Freed
    <2>2. /\ Done(db[j]) /\ Completed(db[j].build) /\ db[j].build \in Builds
          /\ db[j].key # 0 /\ db[j] \in JobType
      BY <1>0, JobFacts DEF Freed, ReadyInv
    <2>3. Verdict(j) # "none"
      BY <2>2 DEF Verdict, JobType, Verdicts, Done
    <2>4. Outcome(db[j].build) # "none"
      BY <2>2 DEF ResultInv, Outcome, Verdicts
    <2> QED  BY <2>1, <2>2, <2>3, <2>4
  <1>2. \A j \in JobIds \ S : db'[j] = db[j]
    BY <1>0 DEF Freed
  <1>3. Owners' = Owners
    BY <1>1, <1>2 DEF Owners
  <1>4. ActiveJobs' = ActiveJobs \ S /\ S \subseteq ActiveJobs
    BY <1>0, <1>1, <1>2 DEF ActiveJobs
  <1>5. [i \in JobIds |-> Verdict(i)]' = [i \in JobIds |-> Verdict(i)]
    <2>1. \A i \in JobIds : db'[i].status = db[i].status
      BY <1>1, <1>2
    <2> QED  BY <2>1 DEF Verdict, Done
  <1>6. \A j \in S : /\ [i \in JobIds |-> Verdict(i)][j] # "none"
                     /\ [b \in Builds |-> Outcome(b)][Owners[j]] # "none"
    <2>1. \A j \in S : Owners[j] = db[j].build /\ db[j].build \in Builds
      BY <1>0 DEF Owners, Freed
    <2> QED  BY <1>0, <1>1, <2>1
  <1> QED  BY <1>3, <1>4, <1>5, <1>6, OutcomesStay
           DEF Book!Release, Owners, ActiveJobs, Verdict, Outcome

\* The build b is completed with a result.
LEMMA CompletionStep ==
  ASSUME Inv, NEW b \in Builds, NEW r \in Verdicts, ~Completed(b), Complete(b, r),
         UNCHANGED db
  PROVE  Book!Complete(b, r)
  <1>1. /\ build'[b].status = "completed" /\ build'[b].result = r
        /\ \A c \in Builds \ {b} : build'[c] = build[c]
    BY DEF Complete, Inv, TypeOK
  <1>2. [c \in Builds |-> Outcome(c)]' = [[c \in Builds |-> Outcome(c)] EXCEPT ![b] = r]
    BY <1>1 DEF Outcome, Completed
  <1>3. [c \in Builds |-> Outcome(c)][b] = "none"
    BY DEF Outcome
  <1> QED  BY <1>2, <1>3 DEF Book!Complete, Outcome, Done

\* updateJobs reports the newest job of the build, since the key of every other
\* one is too old.
LEMMA ReportStep ==
  ASSUME Inv, ReadyInv, KeyInv, NEW j \in reports,
         Holds(copies[j].build, copies[j].key),
         Complete(copies[j].build, Result(copies[j])), UNCHANGED db
  PROVE  j \in JobIds /\ Book!Report(j)
  <1>0. PICK b, r : b = db[j].build /\ r = Result(db[j])
    OBVIOUS
  <1>1. /\ j \in JobIds /\ Done(db[j]) /\ copies[j] = db[j] /\ db[j].key # 0
        /\ b \in Builds /\ db[j] \in JobType
    BY <1>0, JobFacts DEF Inv, TypeOK, RoundOK, ReadyInv
  <1>2. build[b].status = "leased" /\ build[b].key = db[j].key /\ build[b].key \in Nat
    BY <1>0, <1>1 DEF Holds, Inv, TypeOK
  <1>3. ASSUME NEW i \in JobIds, db[i].build = b
        PROVE  i <= j
    <2>1. j < i => db[j].key < build[b].key
      BY <1>0, <1>1, <1>3 DEF KeyInv
    <2>2. i \in Int /\ j \in Int
      BY <1>1, <1>3 DEF JobIds
    <2> QED  BY <1>2, <2>1, <2>2
  <1>4. r \in Verdicts /\ ~Completed(b) /\ Complete(b, r)
    BY <1>0, <1>1, <1>2 DEF Result, Verdicts, Completed
  <1>5. Book!Complete(b, r)
    BY <1>1, <1>4, CompletionStep
  <1>6. /\ [i \in JobIds |-> Verdict(i)][j] = db[j].status
        /\ db[j].status # "none" /\ j \in ActiveJobs /\ Owners[j] = b
        /\ \A i \in JobIds : Owners[i] = b => i <= j
    BY <1>0, <1>1, <1>3 DEF Verdict, Owners, ActiveJobs, JobType, Verdicts, Done
  <1>7. r = IF [i \in JobIds |-> Verdict(i)][j] = "success" THEN "success" ELSE "failure"
    BY <1>0, <1>6 DEF Result
  <1> QED  BY <1>1, <1>5, <1>6, <1>7
           DEF Book!Report, Book!Complete, Owners, ActiveJobs, Verdict

LEMMA BookStep ==
  ASSUME Inv, ReadyInv, KeyInv, ResultInv, [Next]_vars
  PROVE  [Book!BookNext]_Book!book
  <1>1. CASE UNCHANGED build
    <2>1. CASE UNCHANGED db
      BY <1>1, <2>1, OutcomesStay DEF Book!book, Done
    <2>2. ASSUME NEW b \in Builds, NEW j \in JobIds, Made(b, j)
          PROVE  Book!BookNext
      BY <1>1, <2>2, BeginStep DEF Book!BookNext
    <2>3. ASSUME NEW j \in JobIds, NEW s \in Verdicts, Ended(j, s)
          PROVE  Book!BookNext
      BY <1>1, <2>3, ConcludeStep DEF Book!BookNext
    <2>4. ASSUME NEW S \in SUBSET JobIds, GivenUp(S)
          PROVE  Book!BookNext
      BY <1>1, <2>4, GiveUpStep DEF Book!BookNext, ActiveJobs
    <2>5. CASE Freed
      BY <1>1, <2>5, ReleaseStep DEF Book!BookNext, ActiveJobs
    <2> QED  BY <2>1, <2>2, <2>3, <2>4, <2>5, JobForms
  <1>2. ASSUME NEW b \in Builds, ~Completed(b), Complete(b, "canceled"), UNCHANGED db
        PROVE  Book!BookNext
    BY <1>2, CompletionStep DEF Book!BookNext, Verdicts
  <1>3. ASSUME NEW j \in reports, Holds(copies[j].build, copies[j].key),
               Complete(copies[j].build, Result(copies[j])), UNCHANGED db
        PROVE  Book!BookNext
    BY <1>3, ReportStep DEF Book!BookNext
  <1>4. CASE NothingEnds /\ UNCHANGED db
    <2>1. UNCHANGED [b \in Builds |-> IF Completed(b) THEN build[b].result ELSE "none"]
      BY <1>4 DEF NothingEnds, Completed
    <2> QED  BY <1>4, <2>1 DEF Book!book, Done
  <1> QED  BY <1>1, <1>2, <1>3, <1>4, BuildForms

\* The integrator keeps the promises of BuildVerdicts: a build is completed once,
\* with the verdict of its newest job or as cancelled, and no job is let go
\* before that, unless it is cancelled itself; in every interleaving of the two
\* loops, the other writers, expiring leases, lost replies and crashes.
THEOREM KeepsPromises == Spec => KeepsItsPromises
  <1> DEFINE All == Inv /\ ReadyInv /\ KeyInv /\ ResultInv
  <1>1. Init => All
    <2> SUFFICES ASSUME Init PROVE All
      OBVIOUS
    <2>1. ReadyInv
      BY DEF Init, ReadyInv, NoJobs, NoJob
    <2>2. KeyInv
      BY NoBuildAssumption DEF Init, KeyInv, NoJobs, NoJob, Idle
    <2>3. ResultInv
      BY DEF Init, ResultInv, Completed
    <2> QED  BY <2>1, <2>2, <2>3, InvInitially
  <1>2. All /\ [Next]_vars => All'
    BY InvIsKept, ReadyIsKept, KeysAreKept, ResultIsKept
  <1>3. All /\ [Next]_vars => [Book!BookNext]_Book!book
    BY BookStep
  <1> HIDE DEF All
  <1> QED  BY <1>1, <1>2, <1>3, BookInitially, PTL DEF Spec, KeepsItsPromises, Book!BookSpec
==============================================================================
