----------------------------- MODULE ManualRolls -----------------------------
(***************************************************************************)
(* Manual rolls: people ask for rolls to revisions of their choice, and    *)
(* handleManualRolls, which repeats beside the ticks of the roller, makes  *)
(* and watches a CL for each request.  The CLs land in the same parent.    *)
(*                                                                         *)
(* handleManualRolls and the tick exclude each other by runningMtx.  It    *)
(* works through the incomplete requests and returns at the first error    *)
(* which it cannot record in a request.                                    *)
(***************************************************************************)
EXTENDS RollSequence, FiniteSets

CONSTANTS Requests,   \* the manual roll requests
          Asks,       \* what people may ask for
          MaxCLs,     \* bound on the CLs for them
          MaxFaults   \* bound on failed calls and crashes

ASSUME RequestsAssumption == "none" \notin Requests
ASSUME AsksAssumption == Asks \subseteq [rev : 0 .. MaxRev, dryRun : BOOLEAN]
ASSUME BoundsAssumption == MaxCLs \in Nat /\ MaxFaults \in Nat

VARIABLES
  req,      \* the requests in Firestore
  cl,       \* the CLs for them
  queue,    \* the requests which handleManualRolls has still to look at
  faults    \* the faults which have occurred

manual == <<req, cl, queue, faults>>
vars == <<revs, manual>>

CLs == 1 .. MaxCLs
NoCL == [req |-> "none", to |-> 0, status |-> "none"]
NoRequest == [status |-> "none", result |-> "unknown", rev |-> 0,
              dryRun |-> FALSE, cl |-> 0]
Unused == {i \in CLs : cl[i] = NoCL}
First(i, S) == i \in S /\ \A x \in S : i <= x
Incomplete == {r \in Requests : req[r].status \in {"pending", "started"}}
Fault == faults < MaxFaults /\ faults' = faults + 1

-----------------------------------------------------------------------------
\* CreateManualRoll: somebody asks for a roll, perhaps to no revision at all.
CreateManualRoll(r, ask) ==
  /\ req[r] = NoRequest
  /\ req' = [req EXCEPT ![r] = [NoRequest EXCEPT !.status = "pending",
                                  !.rev = ask.rev, !.dryRun = ask.dryRun]]
  /\ UNCHANGED <<revs, cl, queue, faults>>

\* The commit queue or a person is done with a CL; a roll which lands moves
\* the parent.  A dry run does not.
RollEnds(i, status) ==
  /\ cl[i].status = "open"
  /\ cl' = [cl EXCEPT ![i].status = status]
  /\ parent' = IF status = "success" /\ ~req[cl[i].req].dryRun
               THEN cl[i].to ELSE parent
  /\ UNCHANGED <<strategy, tip, known, req, queue, faults>>

\* handleManualRolls begins.
GetIncomplete ==
  /\ queue = {}
  /\ queue' = Incomplete
  /\ queue' # {}
  /\ UNCHANGED <<revs, req, cl, faults>>

-----------------------------------------------------------------------------
(***************************************************************************)
(* One request of handleManualRolls.                                       *)
(***************************************************************************)
Goes(r) == queue' = queue \ {r} /\ UNCHANGED revs
Returns == queue' = {} /\ UNCHANGED revs

\* The request is new, and its revision is there and not yet rolled.
ToUpload(r) == /\ r \in queue
               /\ req[r].status = "pending"
               /\ req[r].rev \in 0 .. tip /\ req[r].rev # known.last
Upload(r, i) ==
  /\ First(i, Unused)
  /\ cl' = [cl EXCEPT ![i] = [req |-> r, to |-> req[r].rev, status |-> "open"]]

Fails(r) == req' = [req EXCEPT ![r].status = "complete", ![r].result = "failure"]

\* getRevision finds these without asking the repo manager.
Remembered(rev) ==
  \/ rev \in {known.last, known.next, known.tip}
  \/ rev \in NotRolled(known.last, known.tip)

\* The revision is not found, or the repo manager fails.
NoRevision(r) ==
  /\ r \in queue
  /\ \/ req[r].rev > tip /\ UNCHANGED faults
     \/ ~Remembered(req[r].rev) /\ Fault
  /\ Fails(r)
  /\ Goes(r)
  /\ UNCHANGED cl

\* There is nothing to roll.
AlreadyThere(r) ==
  /\ r \in queue
  /\ req[r].status = "pending"
  /\ req[r].rev = known.last
  /\ Fails(r)
  /\ Goes(r)
  /\ UNCHANGED <<cl, faults>>

\* createNewRoll fails; the CL may exist all the same.
UploadFails(r) ==
  /\ ToUpload(r)
  /\ Fault
  /\ UNCHANGED cl \/ \E i \in CLs : Upload(r, i)
  /\ Fails(r)
  /\ Goes(r)

\* What the roll says of itself is put into the request.
WithUnfinishedResult(old, i, status) ==
  [old EXCEPT !.cl = i, !.status = "complete",
              !.result = IF status = "failure" THEN "failure" ELSE "success"]

WithResult(old, i, status) ==
  [old EXCEPT !.cl = i,
              !.status = IF status = "open" THEN "started" ELSE "complete",
              !.result = IF status = "open" THEN "unknown" ELSE status]

\* retrieveRoll and Put.  When one of them fails, handleManualRolls returns.
Record(r, i, status) ==
  \/ /\ req' = [req EXCEPT ![r] = WithResult(@, i, status)]
     /\ Goes(r)
     /\ UNCHANGED faults
  \/ Returns /\ Fault /\ UNCHANGED req

CreateForStartedToo(r) ==
  /\ r \in queue
  /\ req[r].rev \in 0 .. tip /\ req[r].rev # known.last
  /\ \E i \in CLs : Upload(r, i) /\ Record(r, i, "open")

\* A CL is uploaded for a new request.
Create(r) ==
  /\ ToUpload(r)
  /\ \E i \in CLs : Upload(r, i) /\ Record(r, i, "open")

WatchNewOnes(r) ==
  /\ r \in queue
  /\ req[r].status = "started"
  /\ cl[req[r].cl].status = "open"
  /\ Record(r, req[r].cl, cl[req[r].cl].status)
  /\ UNCHANGED cl

\* The CL of a started request is looked at.
Watch(r) ==
  /\ r \in queue
  /\ req[r].status = "started"
  /\ Record(r, req[r].cl, cl[req[r].cl].status)
  /\ UNCHANGED cl

\* The process dies between two requests, and starts again; or the failure of
\* a request cannot be written, and handleManualRolls returns.
Crash == Returns /\ Fault /\ queue # {} /\ UNCHANGED <<req, cl>>

ManualInit ==
  /\ Init
  /\ req = [r \in Requests |-> NoRequest]
  /\ cl = [i \in CLs |-> NoCL]
  /\ queue = {} /\ faults = 0

\* The steps of RollSequence; those of the roller need runningMtx.
Roller == queue = {} /\ (UpdateRepos \/ RollLands) /\ UNCHANGED manual
Others == (NewRevision \/ SetStrategy) /\ UNCHANGED manual

HandleManualRolls ==
  \/ GetIncomplete
  \/ \E r \in Requests : \/ NoRevision(r) \/ AlreadyThere(r) \/ UploadFails(r)
                         \/ Create(r) \/ Watch(r)

Next ==
  \/ Roller \/ Others
  \/ \E r \in Requests, ask \in Asks : CreateManualRoll(r, ask)
  \/ \E i \in CLs, status \in {"success", "failure"} : RollEnds(i, status)
  \/ HandleManualRolls
  \/ Crash

Spec == ManualInit /\ [][Next]_vars

(***************************************************************************)
(* Both loops of the roller repeat, neither keeps the other from the lock  *)
(* for good, and the commit queue ends what it has begun.                  *)
(***************************************************************************)
FairSpec ==
  /\ Spec
  /\ WF_vars(HandleManualRolls)
  /\ SF_vars(queue = {} /\ UpdateRepos /\ UNCHANGED manual)
  /\ SF_vars(queue = {} /\ RollLands /\ UNCHANGED manual)
  /\ \A i \in CLs : WF_vars(\E s \in {"success", "failure"} : RollEnds(i, s))

-----------------------------------------------------------------------------
\* Whoever asked for the roll may rely on a result of success, whatever failed
\* while handleManualRolls watched the CL: the request's own CL has succeeded.
SuccessIsTrue ==
  \A r \in Requests :
    req[r].result = "success" => /\ cl[req[r].cl].req = r
                                 /\ cl[req[r].cl].status = "success"

\* A request whose CL has been uploaded but not recorded is taken up again and
\* gets another CL.  That takes a fault each time: without faults there is one
\* CL per request, and it is the one which the request names.
SecondCLTakesAFault ==
  /\ \A r \in Requests : Cardinality({i \in CLs : cl[i].req = r}) <= 1 + faults
  /\ faults = 0 => \A i \in CLs \ Unused : req[cl[i].req].cl = i

\* handleManualRolls returns at the first request it cannot record, and the
\* rest have to wait: every request is completed all the same.
EveryRequestCompletes == <>[](Incomplete = {})
==============================================================================
