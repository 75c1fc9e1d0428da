---------------------------- MODULE BuildVerdicts ----------------------------
(***************************************************************************)
(* What the try jobs promise to those who have requested a build: it is    *)
(* completed once, with the verdict of the newest of its jobs or because   *)
(* it was cancelled; the verdict on a job is passed once; and no job is    *)
(* let go before it is over and its build has got its result, unless it    *)
(* is cancelled.                                                           *)
(***************************************************************************)
EXTENDS Integers

CONSTANTS
  Builds,       \* the builds which people request
  NoBuild,      \* no build
  JobIds        \* the jobs which may ever be made, in order

VARIABLES
  outcome,      \* the result of each build, "none" until it is completed
  owner,        \* the build of each job, NoBuild before the job is made
  verdict,      \* the verdict on each job, "none" until it is done
  active        \* the jobs which have not been let go

book == <<outcome, owner, verdict, active>>

BookInit ==
  /\ outcome = [b \in Builds |-> "none"]
  /\ owner = [j \in JobIds |-> NoBuild]
  /\ verdict = [j \in JobIds |-> "none"]
  /\ active = {}

\* A job is made for a build which may have been completed meanwhile.
Begin(j, b) ==
  /\ \A i \in JobIds : owner[i] # NoBuild <=> i < j
  /\ owner' = [owner EXCEPT ![j] = b]
  /\ active' = active \union {j}
  /\ UNCHANGED <<outcome, verdict>>

\* The job ends, or somebody cancels it.
Conclude(j) ==
  /\ j \in active /\ verdict[j] = "none"
  /\ \E v \in {"success", "failure", "canceled"} :
       verdict' = [verdict EXCEPT ![j] = v]
  /\ UNCHANGED <<outcome, owner, active>>

Complete(b, result) ==
  /\ outcome[b] = "none"
  /\ outcome' = [outcome EXCEPT ![b] = result]
  /\ UNCHANGED <<owner, verdict, active>>

\* The build gets its result from a job which nobody has let go, and only while
\* no later job has been made for the build.
Report(j) ==
  /\ j \in active /\ verdict[j] # "none"
  /\ \A i \in JobIds : owner[i] = owner[j] => i <= j
  /\ Complete(owner[j], IF verdict[j] = "success" THEN "success" ELSE "failure")

\* Jobs which are over are let go together, after their builds have ended.
Release(S) ==
  /\ \A j \in S : verdict[j] # "none" /\ outcome[owner[j]] # "none"
  /\ active' = active \ S
  /\ UNCHANGED <<outcome, owner, verdict>>

\* Jobs which have lost their builds are cancelled and let go in one step.
GiveUp(S) ==
  /\ \A j \in S : verdict[j] = "none"
  /\ verdict' = [j \in JobIds |-> IF j \in S THEN "canceled" ELSE verdict[j]]
  /\ active' = active \ S
  /\ UNCHANGED <<outcome, owner>>

BookNext ==
  \/ \E j \in JobIds, b \in Builds : Begin(j, b)
  \/ \E j \in JobIds : Conclude(j) \/ Report(j)
  \/ \E b \in Builds : Complete(b, "canceled")
  \/ \E S \in SUBSET active : Release(S) \/ GiveUp(S)

BookSpec == BookInit /\ [][BookNext]_book
==============================================================================
