----------------------------- MODULE BlameLedger -----------------------------
(***************************************************************************)
(* What the tasks database of the Task Scheduler promises to the people    *)
(* who read it, for one task spec: every commit is blamed on at most one   *)
(* task, a commit which has been tested stays blamed on some task, it is   *)
(* only ever taken over by a task which is entered at that moment, and     *)
(* the outcome of a task is recorded once.                                 *)
(***************************************************************************)
EXTENDS Integers

CONSTANTS
  Commits,      \* the commits of one repository
  TaskIds       \* the tasks which may ever run

VARIABLES
  owner,        \* the task which each commit is blamed on, or 0
  outcome       \* the recorded state of each task, "none" before it is entered

ledger == <<owner, outcome>>

Final == {"success", "failure", "mishap"}
Outcomes == {"none", "pending"} \union Final

LedgerInit ==
  /\ owner = [c \in Commits |-> 0]
  /\ outcome = [t \in TaskIds |-> "none"]

\* New tasks are entered together; each takes over some commits.
Enter ==
  LET new == {t \in TaskIds : outcome[t] = "none" /\ outcome'[t] # "none"}
  IN  /\ new # {}
      /\ outcome' \in [TaskIds -> Outcomes]
      /\ \A t \in TaskIds \ new : outcome'[t] = outcome[t]
      /\ owner' \in [Commits -> TaskIds \union {0}]
      /\ \A c \in Commits : owner'[c] # owner[c] => owner'[c] \in new

\* A task ends; nobody takes the verdict back.
Conclude ==
  \E t \in TaskIds, verdict \in Final :
    /\ outcome[t] = "pending"
    /\ outcome' = [outcome EXCEPT ![t] = verdict]
    /\ UNCHANGED owner

LedgerNext == Enter \/ Conclude

LedgerSpec == LedgerInit /\ [][LedgerNext]_ledger
==============================================================================
