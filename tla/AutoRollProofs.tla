--------------------------- MODULE AutoRollProofs ---------------------------
(***************************************************************************)
(* Proofs about AutoRoll, for every number of CLs and revisions, every     *)
(* throttle, strategy, kind of event and fault.                            *)
(***************************************************************************)
EXTENDS AutoRoll, RollerStatesProofs, WellFoundedInduction

(***************************************************************************)
(* Types of the operators.                                                 *)
(***************************************************************************)

\* Newest and Oldest choose a member of the set, or nil.
LEMMA ChosenRev ==
  ASSUME NEW revs, NEW nil
  PROVE  Newest(revs, nil) \in revs \cup {nil}
           /\ Oldest(revs, nil) \in revs \cup {nil}
<1>1. Newest(revs, nil) \in revs \cup {nil}
  BY DEF Newest
<1>2. Oldest(revs, nil) \in revs \cup {nil}
  BY DEF Oldest
<1> QED BY <1>1, <1>2

\* What UpdateRepos stores has its type, under every strategy.
LEMMA SyncedRevsType ==
  ASSUME NEW s \in Strategy, pin \in Revs, tip \in Revs
  PROVE  SyncedRevs(s) \in [last : Revs, tip : Revs, next : Revs]
<1>1. Valid(NotRolled(pin, tip)) \subseteq Revs
  BY MaxRevAssumption DEF Valid, NotRolled, Revs
<1>2. Valid(OldestBatch(pin, tip)) \subseteq Revs
  BY MaxRevAssumption DEF Valid, OldestBatch, NotRolled, Revs
<1>3. s \in ValidStrategies
  BY StrategyAssumption
<1>4. GetNextRollRev(s, pin, tip) \in Revs
  BY <1>1, <1>2, <1>3, ChosenRev
  DEF GetNextRollRev, ValidStrategies, ROLL_STRATEGY_BATCH,
    ROLL_STRATEGY_N_BATCH, ROLL_STRATEGY_SINGLE
<1> QED BY <1>4 DEF SyncedRevs

\* The issue which is derived from a CL has its type; it is closed exactly
\* if the CL is, and a success only if the CL has landed.
LEMMA RetrieveType ==
  ASSUME NEW d \in BOOLEAN, NEW c \in CLRecords
  PROVE  /\ Retrieve(d, c) \in Issues
         /\ Retrieve(d, c).IsDryRun = d
         /\ Retrieve(d, c).Closed <=> c.status # "open"
         /\ Retrieve(d, c).CqSuccess => c.status # "open"
<1> DEFINE ci == ChangeInfo(c)
           cfg == CONFIG_CHROMIUM
           i == Retrieve(d, c)
<1>1. \A a, b, e, f, g : RollResult(a, b, e, f, g) \in Results
  BY DEF RollResult, Results
<1>2. /\ i.IsDryRun = d
      /\ i.Closed = IsClosed(ci)
      /\ i.Committed = IsMerged(ci)
      /\ i.CqSuccess = (~d /\ CqSuccess(cfg, ci))
  BY DEF Retrieve, updateIssueFromGerritChangeInfo, IssueOf
<1>3. ci.status = c.status /\ c.status \in Statuses
  BY DEF ChangeInfo, CLRecords
<1>4. i \in Issues
  BY <1>1
  DEF Retrieve, updateIssueFromGerritChangeInfo, IssueOf, Issues, IsClosed,
    IsMerged
<1> QED BY <1>2, <1>3, <1>4 DEF IsClosed, IsMerged, CqSuccess, Statuses

\* A success is a CL which has landed.
LEMMA RetrieveLanded ==
  ASSUME NEW d, NEW c, Retrieve(d, c).CqSuccess
  PROVE  c.status = "merged"
<1>1. Retrieve(d, c).CqSuccess =
        (~d /\ CqSuccess(CONFIG_CHROMIUM, ChangeInfo(c)))
  BY DEF Retrieve, updateIssueFromGerritChangeInfo, IssueOf
<1> QED BY <1>1 DEF CqSuccess, IsMerged, ChangeInfo

\* Update keeps the identity of a roll, and derives its issue.
LEMMA UpdatedType ==
  ASSUME NEW r \in Rolls, NEW c \in CLRecords
  PROVE  /\ Updated(r, c) \in Rolls
         /\ Updated(r, c).id = r.id
         /\ Updated(r, c).issue = Retrieve(r.issue.IsDryRun, c)
         /\ RecordOf(Updated(r, c)) \in Records
         /\ RecordOf(Updated(r, c)).id = r.id
         /\ RecordOf(Updated(r, c)).Closed <=> c.status # "open"
<1>1. r.issue.IsDryRun \in BOOLEAN
  BY DEF Rolls, Issues
<1>2. /\ Updated(r, c) \in Rolls
      /\ Updated(r, c).id = r.id
      /\ Updated(r, c).issue = Retrieve(r.issue.IsDryRun, c)
  BY <1>1, RetrieveType DEF Updated, Rolls
<1>3. /\ RecordOf(Updated(r, c)) \in Records
      /\ RecordOf(Updated(r, c)).id = r.id
      /\ RecordOf(Updated(r, c)).Closed = Updated(r, c).issue.Closed
  BY <1>2 DEF RecordOf, Records, Rolls, Issues
<1> QED BY <1>1, <1>2, <1>3, RetrieveType

\* A CL which is closed has its type.
LEMMA ClosedAsType ==
  ASSUME NEW c \in CLRecords, NEW status \in Statuses
  PROVE  /\ ClosedAs(c, status) \in CLRecords
         /\ ClosedAs(c, status).status = status
<1>1. 0 \in 0 .. 2
  OBVIOUS
<1> QED BY <1>1 DEF ClosedAs, CLRecords

\* A vote or a request to abandon leaves a CL which has its type, and does
\* not open it.
LEMMA ModifiedType ==
  ASSUME NEW c \in CLRecords, NEW f
  PROVE  /\ ModifiedCL(f, c) \in CLRecords
         /\ f \in CloseFuncs => ModifiedCL(f, c).status # "open"
         /\ f \notin CloseFuncs => ModifiedCL(f, c).status = c.status
<1>1. CASE f \in CloseFuncs
  <2>1. ModifiedCL(f, c) = ClosedAs(c, "abandoned")
    BY <1>1 DEF ModifiedCL
  <2> QED BY <1>1, <2>1, ClosedAsType DEF Statuses
<1>2. CASE f \notin CloseFuncs
  <2>1. ModifiedCL(f, c) =
          [c EXCEPT !.label = IF f \in DryRunFuncs THEN 1 ELSE 2]
    BY <1>2 DEF ModifiedCL
  <2>2. (IF f \in DryRunFuncs THEN 1 ELSE 2) \in 0 .. 2
    OBVIOUS
  <2> QED BY <1>2, <2>1, <2>2 DEF CLRecords
<1> QED BY <1>1, <1>2

\* A vote changes IsDryRun only.
LEMMA AfterModifyType ==
  ASSUME roll \in Rolls, NEW f, NEW ok
  PROVE  /\ RollAfterModify(f, ok) \in Rolls
         /\ RollAfterModify(f, ok).id = roll.id
         /\ RollAfterModify(f, ok).issue.Closed = roll.issue.Closed
         /\ RollAfterModify(f, ok).issue.CqSuccess = roll.issue.CqSuccess
<1> DEFINE j == [roll.issue EXCEPT !.IsDryRun = (f \in DryRunFuncs)]
<1>1. j \in Issues /\ j.Closed = roll.issue.Closed
        /\ j.CqSuccess = roll.issue.CqSuccess
  <2>1. roll.issue \in Issues /\ (f \in DryRunFuncs) \in BOOLEAN
    BY DEF Rolls
  <2>2. ASSUME NEW i \in Issues, NEW b \in BOOLEAN
        PROVE  LET k == [i EXCEPT !.IsDryRun = b]
               IN  k \in Issues /\ k.Closed = i.Closed
                     /\ k.CqSuccess = i.CqSuccess
    BY DEF Issues
  <2> QED BY <2>1, <2>2
<1>2. RollAfterModify(f, ok) \in {roll, [roll EXCEPT !.issue = j]}
  BY DEF RollAfterModify
<1> HIDE DEF j
<1>3. CASE RollAfterModify(f, ok) = roll
  BY <1>3
<1>4. CASE RollAfterModify(f, ok) = [roll EXCEPT !.issue = j]
  BY <1>1, <1>4 DEF Rolls
<1> QED BY <1>2, <1>3, <1>4

\* A new CL has its type.
LEMMA NewCLType ==
  ASSUME TypeOK
  PROVE  RollBase \in Revs /\ NewCL(RollBase) \in CLRecords
<1> DEFINE label == IF fn = F_UPLOAD_DRY_RUN THEN 1 ELSE 2
<1>1. label \in 0 .. 2
  OBVIOUS
<1>2. RollBase \in Revs /\ known.next \in Revs
  BY DEF RollBase, TypeOK
<1> HIDE DEF label
<1>3. [status |-> "open", label |-> label, tries |-> "none",
       from |-> RollBase, to |-> known.next] \in CLRecords
  BY <1>1, <1>2 DEF CLRecords, Statuses
<1> QED BY <1>2, <1>3 DEF NewCL, label

\* The counters stay counters.
LEMMA CountTypes ==
  ASSUME NEW c \in [Throttles -> Nat]
  PROVE  /\ \A ts : Inc(c, ts) \in [Throttles -> Nat]
         /\ NoCounts \in [Throttles -> Nat]
         /\ \A ts : [t \in Throttles |-> IF t \in ts THEN 0 ELSE c[t]]
                      \in [Throttles -> Nat]
  BY DEF Inc, NoCounts

\* What GetNext is told about the mode, the roll and the throttles.
LEMMA ViewFields ==
  ASSUME NEW c
  PROVE  /\ ViewOf(c).mode = mode
         /\ ViewOf(c).hasRoll = HasRoll
         /\ ViewOf(c).closed = (HasRoll /\ roll.issue.Closed)
         /\ ViewOf(c).success = (HasRoll /\ roll.issue.CqSuccess)
         /\ ViewOf(c).throttled = [t \in Throttles |-> IsThrottled(c, t)]
  BY DEF ViewOf

(***************************************************************************)
(* Type correctness.  A function which needs a roll runs with one, which   *)
(* makes TypeOK inductive.                                                 *)
(***************************************************************************)
TypeInv ==
  /\ TypeOK
  /\ FunctionHasItsRoll
  /\ pc = "sync" => HasRoll /\ fn \in ModifyFuncs
  /\ pc = "upload" => uploaded \in CLs

\* A call which is not made has its type.
LEMMA NoCallType ==
  ASSUME NoCall
  PROVE  /\ dest' \in States /\ fn' \in Funcs /\ err' \in BOOLEAN
         /\ uploaded' \in CLs \cup {NoCL} /\ n' \in 0 .. MAX_NOOP_TRANSITIONS
<1>1. dest' \in States /\ fn' \in Funcs
  BY DEF NoCall, States, Funcs, QuietFuncs
<1>2. n' \in 0 .. MAX_NOOP_TRANSITIONS
  BY DEF NoCall, MAX_NOOP_TRANSITIONS
<1> QED BY <1>1, <1>2 DEF NoCall

\* The roller starts idle, with no roll.
LEMMA InitTypeInv == Init => TypeInv
<1> SUFFICES ASSUME Init PROVE TypeInv
  OBVIOUS
<1>1. pin \in Revs /\ tip \in Revs /\ dbStrategy \in Strategy
  BY MaxRevAssumption DEF Init, Revs
<1>2. known \in [last : Revs, tip : Revs, next : Revs]
  BY <1>1, SyncedRevsType DEF Init
<1>3. cls \in [CLs -> CLRecords]
  BY MaxRevAssumption DEF Init, UnusedCL, CLRecords, Statuses, Revs
<1>4. count \in [Throttles -> Nat]
  BY DEF Init, NoCounts
<1>5. S_NORMAL_IDLE \in States /\ F_NOOP \in Funcs
        /\ ModeRunning \in ValidModes
  BY DEF States, Funcs, QuietFuncs, ValidModes
<1>6. 0 \in 0 .. MAX_NOOP_TRANSITIONS
  BY DEF MAX_NOOP_TRANSITIONS
<1>7. TypeOK
  BY <1>1, <1>2, <1>3, <1>4, <1>5, <1>6 DEF Init, TypeOK, PCs
<1> QED BY <1>7 DEF Init, TypeInv, FunctionHasItsRoll

\* A step of the process which neither fails nor is interrupted.
LEMMA TickTypeInv == TypeInv /\ TickStep => TypeInv'
<1> SUFFICES ASSUME TypeInv, TickStep PROVE TypeInv'
  OBVIOUS
<1> USE DEF server, stored, view, call, process
<1>1. CASE TickStart
  <2>1. count' \in [Throttles -> Nat] /\ pc' \in {"flag", "next"}
          /\ mode' \in ValidModes /\ strategy' \in Strategy
    BY <1>1, CountTypes DEF TickStart, Refresh, TypeInv, TypeOK
  <2>2. TypeOK'
    BY <1>1, <2>1 DEF TickStart, TypeInv, TypeOK, PCs
  <2> QED BY <2>1, <2>2 DEF TypeInv, FunctionHasItsRoll
<1>2. CASE ResetUnthrottle
  BY <1>2 DEF ResetUnthrottle, Refresh, TypeInv, TypeOK, PCs,
    FunctionHasItsRoll
<1>3. CASE ChooseTransition
  <2> DEFINE d == GetNext(state, ViewOf(count'))
             f == GetTransitionName(state, d)
  <2>1. count' \in [Throttles -> Nat]
    BY <1>3, CountTypes DEF ChooseTransition, TypeInv, TypeOK
  <2>2. d \in States /\ f \in Funcs
    BY ViewFields, NextTransitionType DEF TypeInv, TypeOK
  <2>3. f \in NeedsRoll => HasRoll
    BY ViewFields, NextHasItsRoll DEF TypeInv, TypeOK
  <2>4. roll' = roll
    BY <1>3 DEF ChooseTransition
  <2>5. CASE n = 0 \/ f = F_NOOP
    <3>1. pc' = "run" /\ dest' = d /\ fn' = f /\ UNCHANGED <<err, uploaded, n>>
      BY <1>3, <2>5 DEF ChooseTransition
    <3>2. TypeOK'
      BY <1>3, <2>1, <2>2, <3>1 DEF ChooseTransition, TypeInv, TypeOK, PCs
    <3> QED BY <2>3, <2>4, <3>1, <3>2 DEF TypeInv, FunctionHasItsRoll, HasRoll
  <2>6. CASE ~(n = 0 \/ f = F_NOOP)
    <3>1. pc' = "sleep" /\ NoCall
      BY <1>3, <2>6 DEF ChooseTransition, EndTick
    <3>2. TypeOK'
      BY <1>3, <2>1, <3>1, NoCallType DEF ChooseTransition, TypeInv, TypeOK, PCs
    <3> QED BY <3>1, <3>2 DEF TypeInv, FunctionHasItsRoll
  <2> QED BY <2>5, <2>6
<1>4. CASE Commit
  <2>1. pc' \in {"next", "sleep"} /\ dest' \in States /\ fn' \in Funcs
          /\ err' \in BOOLEAN /\ uploaded' \in CLs \cup {NoCL}
          /\ n' \in 0 .. MAX_NOOP_TRANSITIONS
    BY <1>4, NoCallType
    DEF Commit, EndTick, TypeInv, TypeOK, MAX_NOOP_TRANSITIONS
  <2>2. TypeOK'
    BY <1>4, <2>1 DEF Commit, TypeInv, TypeOK, PCs
  <2> QED BY <2>1, <2>2 DEF TypeInv, FunctionHasItsRoll
<1>5. CASE UpdateRepos \/ WaitForLand
  <2>1. SyncedRevs(strategy) \in [last : Revs, tip : Revs, next : Revs]
    BY SyncedRevsType DEF TypeInv, TypeOK
  <2>2. known' \in [last : Revs, tip : Revs, next : Revs]
    BY <1>5, <2>1 DEF UpdateRepos, WaitForLand, TypeInv, TypeOK
  <2>3. \/ EndTick
        \/ pc' = "commit" /\ UNCHANGED call
        \/ pc' = "run" /\ pc = "run" /\ UNCHANGED call
    BY <1>5 DEF UpdateRepos, WaitForLand
  <2>4. TypeOK'
    BY <1>5, <2>2, <2>3, NoCallType
    DEF UpdateRepos, WaitForLand, EndTick, TypeInv, TypeOK, PCs
  <2> QED
    BY <1>5, <2>3, <2>4
    DEF UpdateRepos, WaitForLand, EndTick, TypeInv, FunctionHasItsRoll, HasRoll
<1>6. CASE UpdateRoll
  <2>1. roll \in Rolls /\ cls[roll.id] \in CLRecords
    BY <1>6
    DEF UpdateRoll, TypeInv, TypeOK, FunctionHasItsRoll, NeedsRoll, HasRoll,
      Rolls
  <2>2. roll' \in Rolls /\ recorded' \in Records
    BY <1>6, <2>1, UpdatedType DEF UpdateRoll
  <2> QED
    BY <1>6, <2>2 DEF UpdateRoll, TypeInv, TypeOK, PCs, FunctionHasItsRoll
<1>7. CASE CreateNewRoll
  <2>1. PICK i \in FreeCLs :
          cls' = [cls EXCEPT ![i] = NewCL(RollBase)] /\ uploaded' = i
    BY <1>7 DEF CreateNewRoll
  <2>2. cls' \in [CLs -> CLRecords]
    BY <2>1, NewCLType DEF TypeInv, TypeOK
  <2>3. i \in CLs
    BY DEF FreeCLs
  <2>4. count' \in [Throttles -> Nat]
    BY <1>7, CountTypes DEF CreateNewRoll, TypeInv, TypeOK
  <2> QED
    BY <1>7, <2>1, <2>2, <2>3, <2>4
    DEF CreateNewRoll, TypeInv, TypeOK, PCs, FunctionHasItsRoll
<1>8. CASE InsertIntoDB
  <2>1. uploaded \in CLs /\ cls[uploaded] \in CLRecords
    BY <1>8 DEF InsertIntoDB, TypeInv, TypeOK
  <2>2. (fn = F_UPLOAD_DRY_RUN) \in BOOLEAN
    OBVIOUS
  <2>3. NewRoll \in Rolls /\ RecordOf(NewRoll) \in Records
    BY <2>1, <2>2, RetrieveType DEF NewRoll, Rolls, RecordOf, Records, Issues
  <2>4. cls' \in [CLs -> CLRecords]
    BY <1>8, MaxRevAssumption
    DEF InsertIntoDB, TypeInv, TypeOK, UnusedCL, CLRecords, Statuses, Revs
  <2> QED
    BY <1>8, <2>3, <2>4
    DEF InsertIntoDB, TypeInv, TypeOK, PCs, FunctionHasItsRoll
<1>9. CASE Modify
  <2>1. roll \in Rolls /\ cls[roll.id] \in CLRecords /\ fn \in NeedsRoll
    BY <1>9
    DEF Modify, TypeInv, TypeOK, FunctionHasItsRoll, NeedsRoll, ModifyFuncs,
      HasRoll, Rolls
  <2>2. ModifiedCL(fn, cls[roll.id]) \in CLRecords
    BY <2>1, ModifiedType
  <2>3. cls' \in [CLs -> CLRecords] /\ err' \in BOOLEAN
    BY <1>9, <2>2 DEF Modify, TypeInv, TypeOK
  <2>4. roll' \in Rolls /\ roll'.id = roll.id
    BY <1>9, <2>1, AfterModifyType DEF Modify
  <2>5. roll' # NoRoll
    BY <2>4, NoCLAssumption DEF Rolls, NoRoll
  <2>6. TypeOK'
    BY <1>9, <2>3, <2>4 DEF Modify, TypeInv, TypeOK, PCs
  <2> QED
    BY <1>9, <2>5, <2>6 DEF Modify, TypeInv, FunctionHasItsRoll, HasRoll
<1>10. CASE SyncModified
  <2>1. roll \in Rolls /\ cls[roll.id] \in CLRecords
    BY <1>10 DEF SyncModified, TypeInv, TypeOK, HasRoll, Rolls
  <2>2. roll' \in Rolls /\ recorded' \in Records
    BY <1>10, <2>1, UpdatedType DEF SyncModified
  <2>3. pc' \in {"sleep", "commit"} /\ dest' \in States /\ fn' \in Funcs
          /\ err' \in BOOLEAN /\ uploaded' \in CLs \cup {NoCL}
          /\ n' \in 0 .. MAX_NOOP_TRANSITIONS
    BY <1>10, NoCallType DEF SyncModified, EndTick, TypeInv, TypeOK
  <2> QED
    BY <1>10, <2>2, <2>3
    DEF SyncModified, TypeInv, TypeOK, PCs, FunctionHasItsRoll
<1>11. CASE NothingToCommit
  <2>1. count' \in [Throttles -> Nat]
    BY <1>11, CountTypes DEF NothingToCommit, TypeInv, TypeOK
  <2> QED
    BY <1>11, <2>1
    DEF NothingToCommit, TypeInv, TypeOK, PCs, FunctionHasItsRoll
<1> QED
  BY <1>1, <1>2, <1>3, <1>4, <1>5, <1>6, <1>7, <1>8, <1>9, <1>10, <1>11
  DEF TickStep

\* A step of the process which fails or is interrupted, or a restart.
LEMMA FaultTypeInv == TypeInv /\ (FaultStep \/ Restart) => TypeInv'
<1> SUFFICES ASSUME TypeInv, FaultStep \/ Restart PROVE TypeInv'
  OBVIOUS
<1> USE DEF server, stored, view, call, process
<1>1. CASE UnthrottleFails
  <2>1. count' \in [Throttles -> Nat]
    BY <1>1, CountTypes DEF UnthrottleFails, TypeInv, TypeOK
  <2> QED
    BY <1>1, <2>1 DEF UnthrottleFails, TypeInv, TypeOK, FunctionHasItsRoll
<1>2. CASE ResetUnthrottleFails \/ RefreshFails
  BY <1>2
  DEF ResetUnthrottleFails, RefreshFails, TypeInv, TypeOK, PCs,
    FunctionHasItsRoll
<1>3. CASE GetNextFails
  <2>1. count' \in [Throttles -> Nat]
    BY <1>3, CountTypes DEF GetNextFails, TypeInv, TypeOK
  <2> QED
    BY <1>3, <2>1, NoCallType
    DEF GetNextFails, EndTick, TypeInv, TypeOK, PCs, FunctionHasItsRoll
<1>4. CASE CommitNotPersisted \/ UpdateReposFails
  BY <1>4, NoCallType
  DEF CommitNotPersisted, UpdateReposFails, EndTick, TypeInv, TypeOK, PCs,
    FunctionHasItsRoll
<1>5. CASE CreateNewRollFails
  <2>1. count' \in [Throttles -> Nat]
    BY <1>5, CountTypes DEF CreateNewRollFails, TypeInv, TypeOK
  <2> QED
    BY <1>5, <2>1, NoCallType
    DEF CreateNewRollFails, EndTick, TypeInv, TypeOK, PCs, FunctionHasItsRoll
<1>6. CASE InsertIntoDBFails
  <2>1. uploaded \in CLs /\ cls[uploaded] \in CLRecords
    BY <1>6 DEF InsertIntoDBFails, TypeInv, TypeOK
  <2>2. (fn = F_UPLOAD_DRY_RUN) \in BOOLEAN
    OBVIOUS
  <2>3. RecordOf(NewRoll) \in Records
    BY <2>1, <2>2, RetrieveType DEF NewRoll, RecordOf, Records, Issues
  <2> QED
    BY <1>6, <2>3
    DEF InsertIntoDBFails, TypeInv, TypeOK, PCs, FunctionHasItsRoll
<1>7. CASE UpdateFails
  <2>1. roll \in Rolls /\ cls[roll.id] \in CLRecords
    BY <1>7
    DEF UpdateFails, TypeInv, TypeOK, FunctionHasItsRoll, NeedsRoll, HasRoll,
      Rolls
  <2>2. roll' \in Rolls /\ recorded' \in Records \cup {NoRecord}
    BY <1>7, <2>1, UpdatedType DEF UpdateFails, TypeInv, TypeOK
  <2> QED
    BY <1>7, <2>2, NoCallType
    DEF UpdateFails, EndTick, TypeInv, TypeOK, PCs, FunctionHasItsRoll
<1>8. CASE Crash
  <2>1. S_NORMAL_IDLE \in States /\ 0 \in Revs
    BY MaxRevAssumption DEF States, Revs
  <2> QED
    BY <1>8, <2>1, NoCallType
    DEF Crash, TypeInv, TypeOK, PCs, FunctionHasItsRoll
<1>9. CASE Restart
  <2>1. known' \in [last : Revs, tip : Revs, next : Revs]
    BY <1>9, SyncedRevsType DEF Restart, TypeInv, TypeOK
  <2>2. roll' \in Rolls \cup {NoRoll}
    <3>1. CASE recorded = NoRecord \/ recorded.Closed
      BY <1>9, <3>1 DEF Restart
    <3>2. CASE ~(recorded = NoRecord \/ recorded.Closed)
      <4>1. recorded.id \in CLs /\ recorded.IsDryRun \in BOOLEAN
        BY <3>2 DEF TypeInv, TypeOK, Records
      <4>2. Retrieve(recorded.IsDryRun, cls[recorded.id]) \in Issues
        BY <4>1, RetrieveType DEF TypeInv, TypeOK
      <4> QED BY <1>9, <3>2, <4>1, <4>2 DEF Restart, Rolls
    <3> QED BY <3>1, <3>2
  <2> QED
    BY <1>9, <2>1, <2>2 DEF Restart, TypeInv, TypeOK, PCs, FunctionHasItsRoll
<1> QED
  BY <1>1, <1>2, <1>3, <1>4, <1>5, <1>6, <1>7, <1>8, <1>9 DEF FaultStep

\* The steps which change nothing of the process: requests, time, and what
\* happens on the server.
LEMMA OutsideTypeInv ==
  TypeInv /\ (UserStep \/ TimeStep \/ ServerStep) => TypeInv'
<1> SUFFICES ASSUME TypeInv, UserStep \/ TimeStep \/ ServerStep PROVE TypeInv'
  OBVIOUS
<1> USE DEF server, stored, view, call, process, Local
<1>1. CASE UserStep
  BY <1>1
  DEF UserStep, SetMode, SetStrategy, Unthrottle, TypeInv, TypeOK,
    FunctionHasItsRoll, HasRoll
<1>2. CASE WindowChange
  BY <1>2 DEF WindowChange, TypeInv, TypeOK, FunctionHasItsRoll, HasRoll
<1>3. ASSUME NEW t \in Throttles, ThrottleExpires(t) PROVE TypeInv'
  <2>1. count' \in [Throttles -> Nat]
    BY <1>3 DEF ThrottleExpires, TypeInv, TypeOK
  <2> QED
    BY <1>3, <2>1
    DEF ThrottleExpires, TypeInv, TypeOK, FunctionHasItsRoll, HasRoll
<1>4. CASE NewRevision
  BY <1>4, MaxRevAssumption
  DEF NewRevision, TypeInv, TypeOK, FunctionHasItsRoll, HasRoll, Revs
<1>5. CASE OtherRollLands
  BY <1>5, MaxRevAssumption
  DEF OtherRollLands, NotRolled, TypeInv, TypeOK, FunctionHasItsRoll,
    HasRoll, Revs
<1>6. ASSUME NEW i \in CLs, NEW tries \in {"none", "passed", "failed"},
             Dequeue(i, tries)
      PROVE  TypeInv'
  <2>1. 0 \in 0 .. 2 /\ cls[i] \in CLRecords
    BY DEF TypeInv, TypeOK
  <2>2. cls' = [cls EXCEPT ![i] = [@ EXCEPT !.label = 0, !.tries = tries]]
    BY <1>6 DEF Dequeue, TypeInv, TypeOK
  <2>3. [cls[i] EXCEPT !.label = 0, !.tries = tries] \in CLRecords
    BY <2>1 DEF CLRecords
  <2>4. cls' \in [CLs -> CLRecords]
    BY <2>2, <2>3 DEF TypeInv, TypeOK
  <2> QED
    BY <1>6, <2>4 DEF Dequeue, TypeInv, TypeOK, FunctionHasItsRoll, HasRoll
<1>7. ASSUME NEW i \in CLs, DryRunFinishes(i) \/ CqFails(i) \/ HumanDequeues(i)
      PROVE  TypeInv'
  <2>1. cls[i].tries \in {"none", "passed", "failed"}
    BY DEF TypeInv, TypeOK, CLRecords
  <2> QED
    BY <1>6, <1>7, <2>1 DEF DryRunFinishes, CqFails, HumanDequeues
<1>8. ASSUME NEW i \in CLs, CqLands(i) \/ HumanLands(i) \/ HumanAbandons(i)
      PROVE  TypeInv'
  <2>1. PICK status \in Statuses :
          cls' = [cls EXCEPT ![i] = ClosedAs(@, status)]
    BY <1>8 DEF CqLands, HumanLands, Land, HumanAbandons, Statuses
  <2>2. cls' \in [CLs -> CLRecords]
    BY <2>1, ClosedAsType DEF TypeInv, TypeOK
  <2>3. pin' \in Revs
    BY <1>8
    DEF CqLands, HumanLands, Land, HumanAbandons, TypeInv, TypeOK, CLRecords
  <2> QED
    BY <1>8, <2>2, <2>3
    DEF CqLands, HumanLands, Land, HumanAbandons, TypeInv, TypeOK,
      FunctionHasItsRoll, HasRoll
<1> QED
  BY <1>1, <1>2, <1>3, <1>4, <1>5, <1>7, <1>8 DEF TimeStep, ServerStep

\* Every step preserves the types.
LEMMA NextTypeInv == TypeInv /\ [Next]_vars => TypeInv'
<1>1. TypeInv /\ UNCHANGED vars => TypeInv'
  BY DEF vars, server, stored, view, call, process, TypeInv, TypeOK,
    FunctionHasItsRoll, HasRoll
<1> QED
  BY <1>1, TickTypeInv, FaultTypeInv, OutsideTypeInv DEF Next

\* Every variable of the roller and of its surroundings always has its type,
\* whatever faults occur.
THEOREM TypeCorrect == Spec => []TypeOK
<1>1. TypeInv => TypeOK
  BY DEF TypeInv
<1> QED BY <1>1, InitTypeInv, NextTypeInv, PTL DEF Spec

\* No transition function which needs an active roll ever runs without one,
\* whatever faults occur, in the upload window too.
THEOREM FunctionsHaveTheirRoll == Spec => []FunctionHasItsRoll
<1>1. TypeInv => FunctionHasItsRoll
  BY DEF TypeInv
<1> QED BY <1>1, InitTypeInv, NextTypeInv, PTL DEF Spec

(***************************************************************************)
(* The throttles: no request to unthrottle is lost, and no CL is created   *)
(* against the safety throttle.  Both are facts about a step which rely on *)
(* an earlier one: the reset of the counters in TickStart, and the check   *)
(* in GetNext.  The invariant says that what the earlier step has          *)
(* established still holds.                                                *)
(***************************************************************************)

\* The counters are still at zero when the request is cleared, and the
\* safety throttle still allows an upload when it starts.
ThrottleInv ==
  /\ pc = "flag" => count = NoCounts
  /\ pc = "run" /\ fn \in UploadFuncs => ~IsThrottled(count, "safety")

\* A counter which has gone down does not begin to throttle.
LEMMA ExpiryUnthrottles ==
  ASSUME TypeInv, NEW t \in Throttles, ThrottleExpires(t)
  PROVE  /\ IsThrottled(count', "safety") => IsThrottled(count, "safety")
         /\ count # NoCounts
<1>1. count[t] > 0 /\ count \in [Throttles -> Nat]
        /\ count' = [count EXCEPT ![t] = @ - 1]
  BY DEF ThrottleExpires, TypeInv, TypeOK
<1>2. "safety" \in Throttles /\ Threshold["safety"] \in Nat
  BY ThresholdAssumption DEF Throttles
<1>3. count'["safety"] <= count["safety"] /\ count'["safety"] \in Int
        /\ count["safety"] \in Int
  BY <1>1, <1>2
<1>4. count # NoCounts
  BY <1>1 DEF NoCounts
<1> QED BY <1>2, <1>3, <1>4 DEF IsThrottled

\* Nothing is throttled in the beginning.
LEMMA InitThrottleInv == Init => ThrottleInv
  BY DEF Init, ThrottleInv

\* Every step preserves the invariant.
LEMMA NextThrottleInv == TypeInv /\ ThrottleInv /\ [Next]_vars => ThrottleInv'
<1> SUFFICES ASSUME TypeInv, ThrottleInv, [Next]_vars PROVE ThrottleInv'
  OBVIOUS
<1> USE DEF server, stored, view, call, process
<1>1. CASE TickStart
  BY <1>1 DEF TickStart, Refresh, ThrottleInv
<1>2. CASE ChooseTransition
  <2> DEFINE v == ViewOf(count')
             d == GetNext(state, v)
             f == GetTransitionName(state, d)
  <2>1. pc' = "sleep" \/ (pc' = "run" /\ fn' = f)
    BY <1>2 DEF ChooseTransition, EndTick
  <2>2. v.mode \in ValidModes
          /\ v.throttled = [t \in Throttles |-> IsThrottled(count', t)]
    BY ViewFields DEF TypeInv, TypeOK, ViewOf
  <2>3. f \in UploadFuncs => ~v.throttled["safety"]
    BY <2>2, UploadsUnthrottled DEF TypeInv, TypeOK
  <2>4. f \in UploadFuncs => ~IsThrottled(count', "safety")
    BY <2>2, <2>3 DEF Throttles
  <2> QED BY <2>1, <2>4 DEF ThrottleInv
<1>3. CASE UpdateRepos \/ WaitForLand
  BY <1>3, QuietFuncsDoNothing
  DEF UpdateRepos, WaitForLand, EndTick, ThrottleInv
<1>4. CASE \/ ResetUnthrottle \/ Commit \/ UpdateRoll \/ CreateNewRoll
           \/ NothingToCommit \/ InsertIntoDB \/ Modify \/ SyncModified
  BY <1>4
  DEF ResetUnthrottle, Refresh, Commit, UpdateRoll, CreateNewRoll,
    NothingToCommit, InsertIntoDB, Modify, SyncModified, EndTick, ThrottleInv
<1>5. CASE Restart \/ FaultStep
  BY <1>5
  DEF Restart, FaultStep, UnthrottleFails, ResetUnthrottleFails,
    RefreshFails, GetNextFails, CommitNotPersisted, CreateNewRollFails,
    InsertIntoDBFails, UpdateFails, UpdateReposFails, Crash, EndTick,
    ThrottleInv
<1>6. ASSUME NEW t \in Throttles, ThrottleExpires(t) PROVE ThrottleInv'
  <2>1. UNCHANGED <<pc, fn>>
    BY <1>6 DEF ThrottleExpires
  <2> QED BY <1>6, <2>1, ExpiryUnthrottles DEF ThrottleInv, IsThrottled
<1>7. ASSUME UNCHANGED <<pc, fn, count>> PROVE ThrottleInv'
  BY <1>7 DEF ThrottleInv, IsThrottled
<1>8. CASE UserStep \/ WindowChange \/ ServerStep
  <2>1. UNCHANGED <<pc, fn, count>>
    BY <1>8
    DEF UserStep, SetMode, SetStrategy, Unthrottle, WindowChange, ServerStep,
      NewRevision, OtherRollLands, DryRunFinishes, CqFails, CqLands,
      HumanLands, HumanAbandons, HumanDequeues, Dequeue, Land, Local
  <2> QED BY <1>7, <2>1
<1>9. CASE UNCHANGED vars
  BY <1>7, <1>9 DEF vars
<1> QED
  BY <1>1, <1>2, <1>3, <1>4, <1>5, <1>6, <1>8, <1>9
  DEF Next, TickStep, TimeStep

\* No CL is opened.
OpensNothing ==
  \A i \in CLs : cls'[i].status = "open" => cls[i].status = "open"

\* Requests, time and the server open no CL.
LEMMA OutsideOpensNothing ==
  ASSUME TypeOK, UserStep \/ TimeStep \/ ServerStep
  PROVE  OpensNothing
<1> USE DEF server, stored, Local
<1>1. ASSUME UserStep \/ TimeStep \/ NewRevision \/ OtherRollLands
      PROVE  OpensNothing
  <2>1. UNCHANGED cls
    BY <1>1
    DEF UserStep, SetMode, SetStrategy, Unthrottle, TimeStep, WindowChange,
      ThrottleExpires, NewRevision, OtherRollLands
  <2> QED BY <2>1 DEF OpensNothing
<1>2. ASSUME NEW i \in CLs,
             \/ DryRunFinishes(i) \/ CqFails(i) \/ CqLands(i)
             \/ HumanLands(i) \/ HumanAbandons(i) \/ HumanDequeues(i)
      PROVE  OpensNothing
  <2>1. IsOpen(i) /\ \A j \in CLs : j # i => cls'[j] = cls[j]
    BY <1>2
    DEF DryRunFinishes, CqFails, CqLands, HumanLands, HumanAbandons,
      HumanDequeues, Dequeue, Land, TypeOK
  <2> QED BY <2>1 DEF OpensNothing, IsOpen
<1> QED BY <1>1, <1>2 DEF ServerStep

\* Only CreateNewRoll opens a CL.
LEMMA OnlyUploadOpens ==
  ASSUME TypeInv, [Next]_vars, ~CreateNewRoll PROVE OpensNothing
<1> USE DEF server, stored, view, call, process
<1>1. ASSUME UNCHANGED cls PROVE OpensNothing
  BY <1>1 DEF OpensNothing
<1>2. CASE InsertIntoDB
  BY <1>2 DEF InsertIntoDB, IsOpen, UnusedCL, OpensNothing
<1>3. CASE Modify
  <2>1. UNCHANGED cls \/ (IsOpen(roll.id) /\ \A j \in CLs :
                             j # roll.id => cls'[j] = cls[j])
    BY <1>3 DEF Modify, TypeInv, TypeOK
  <2> QED BY <2>1 DEF OpensNothing, IsOpen
<1>4. CASE \/ TickStart \/ ResetUnthrottle \/ ChooseTransition \/ Commit
           \/ UpdateRepos \/ UpdateRoll \/ WaitForLand \/ SyncModified
           \/ NothingToCommit \/ Restart \/ FaultStep \/ UNCHANGED vars
  <2>1. UNCHANGED cls
    BY <1>4
    DEF TickStart, ResetUnthrottle, ChooseTransition, Commit, UpdateRepos,
      UpdateRoll, WaitForLand, SyncModified, NothingToCommit, Restart, FaultStep,
      UnthrottleFails, ResetUnthrottleFails, RefreshFails, GetNextFails,
      CommitNotPersisted, CreateNewRollFails, InsertIntoDBFails,
      UpdateFails, UpdateReposFails, Crash, vars
  <2> QED BY <1>1, <2>1
<1>5. CASE UserStep \/ TimeStep \/ ServerStep
  BY <1>5, OutsideOpensNothing DEF TypeInv
<1> QED BY <1>2, <1>3, <1>4, <1>5 DEF Next, TickStep

\* Only at the end of a reset is a request cleared.
LEMMA OnlyResetClears ==
  ASSUME TypeInv, [Next]_vars, unthrottle, ~unthrottle' PROVE pc = "flag"
<1> USE DEF server, stored, view, call, process
<1>1. CASE TickStep \/ Restart \/ FaultStep
  BY <1>1
  DEF TickStep, TickStart, ResetUnthrottle, ChooseTransition, Commit,
    UpdateRepos, UpdateRoll, WaitForLand, CreateNewRoll, NothingToCommit,
    InsertIntoDB, Modify, SyncModified, Restart, FaultStep, UnthrottleFails,
    ResetUnthrottleFails, RefreshFails, GetNextFails, CommitNotPersisted,
    CreateNewRollFails, InsertIntoDBFails, UpdateFails, UpdateReposFails,
    Crash
<1>2. CASE UserStep \/ TimeStep \/ ServerStep
  BY <1>2
  DEF UserStep, SetMode, SetStrategy, Unthrottle, TimeStep, WindowChange,
    ThrottleExpires, ServerStep, NewRevision, OtherRollLands,
    DryRunFinishes, CqFails, CqLands, HumanLands, HumanAbandons,
    HumanDequeues, Dequeue, Land, Local
<1>3. CASE UNCHANGED vars
  BY <1>3 DEF vars
<1> QED BY <1>1, <1>2, <1>3 DEF Next

\* A request to unthrottle is cleared only when every counter is at zero,
\* for every threshold and every fault: it is not lost.
THEOREM UnthrottleIsNotLost == Spec => UnthrottleIsServed
<1>1. TypeInv /\ ThrottleInv /\ [Next]_vars =>
        [unthrottle /\ ~unthrottle' => count = NoCounts]_vars
  BY OnlyResetClears DEF ThrottleInv
<1> QED
  BY <1>1, InitTypeInv, NextTypeInv, InitThrottleInv, NextThrottleInv, PTL
  DEF Spec, UnthrottleIsServed

\* No CL is created while the safety throttle is active, for every threshold
\* and every fault, in the upload window too.
THEOREM UploadsAreThrottled == Spec => SafetyThrottleHolds
<1>1. ASSUME TypeInv, ThrottleInv, [Next]_vars
      PROVE  \A i \in CLs : ~IsOpen(i) /\ IsOpen(i)' =>
               ~IsThrottled(count, "safety")
  <2>1. CASE CreateNewRoll
    BY <1>1, <2>1 DEF CreateNewRoll, ThrottleInv
  <2>2. CASE ~CreateNewRoll
    BY <1>1, <2>2, OnlyUploadOpens DEF OpensNothing, IsOpen
  <2> QED BY <2>1, <2>2
<1>2. TypeInv /\ ThrottleInv /\ [Next]_vars =>
        [\A i \in CLs : ~IsOpen(i) /\ IsOpen(i)' =>
           ~IsThrottled(count, "safety")]_vars
  BY <1>1
<1> QED
  BY <1>2, InitTypeInv, NextTypeInv, InitThrottleInv, NextThrottleInv, PTL
  DEF Spec, SafetyThrottleHolds

(***************************************************************************)
(* The rolls.  If nothing fails in the upload window, at most one roll CL  *)
(* is open and none when the roller is quiet.  Neither is inductive: both  *)
(* rest on the roller knowing the open CL.  The invariant says where it is *)
(* known (in memory, in the datastore, or as the CL being uploaded), in    *)
(* which states it is looked after, and what the transition under way will *)
(* do with it.                                                             *)
(*                                                                         *)
(* Besides, the roller chooses newer revisions and is right about success, *)
(* whatever fails (LandInv); the roll of S_NORMAL_SUCCESS has landed       *)
(* (WaitInv) and is in the parent (LandedInv); and the CL of a dry run is  *)
(* not in the queue for submission (LabelInv).                             *)
(*                                                                         *)
(* Together with RevsExist they show that AutoRoll implements RollSlot.     *)
(***************************************************************************)

\* The local copy and the record tell the truth when they say that the roll
\* is closed; a copy which says that it has landed does so, too.
CopiesInv ==
  /\ ClosedCopyIsClosed
  /\ HasRoll /\ roll.issue.CqSuccess => ~IsOpen(roll.id)

\* The roll in memory is the newest one in the datastore.
RecordedInv == HasRoll => recorded # NoRecord /\ recorded.id = roll.id

\* An upload starts without a roll to look after, and ends in a live state.
UploadInv ==
  /\ pc = "run" /\ fn \in UploadFuncs =>
       state \notin LiveStates /\ dest \in LiveStates
  /\ uploaded # NoCL => pc \in {"upload", "commit"} /\ dest \in LiveStates

\* The roller, or in its absence the datastore and GCS, knows the CL i and
\* is in a state which looks after it.
IsTracked(i) ==
  IF pc = "upload" THEN i = uploaded
  ELSE /\ recorded # NoRecord /\ recorded.id = i
       /\ IF pc = "down" THEN gcsState \in LiveStates
          ELSE HasRoll /\ roll.id = i /\ (uploaded = NoCL => state \in LiveStates)

\* The transition under way leads to a state which looks after the open CL,
\* or is about to close it.
IsHandled ==
  pc \in {"run", "sync", "repos", "commit"} =>
    \/ dest \in LiveStates
    \/ fn \in CloseFuncs /\ (pc = "run" \/ (pc = "sync" /\ err))

\* The inductive invariant.
OpenRollInv ==
  /\ CopiesInv
  /\ RecordedInv
  /\ UploadInv
  /\ \A i \in OpenCLs : IsTracked(i) /\ IsHandled

(***************************************************************************)
(* The copies.                                                             *)
(***************************************************************************)

\* The copies stay true while they are not changed and no CL is opened.
LEMMA CopiesKept ==
  ASSUME TypeOK, CopiesInv, RecordedInv, OpensNothing, UNCHANGED <<roll, recorded>>
  PROVE  CopiesInv' /\ RecordedInv'
<1>1. HasRoll => roll.id \in CLs
  BY DEF TypeOK, HasRoll, Rolls
<1>2. recorded # NoRecord => recorded.id \in CLs
  BY DEF TypeOK, Records
<1> QED
  BY <1>1, <1>2
  DEF CopiesInv, RecordedInv, ClosedCopyIsClosed, HasRoll, IsOpen,
    OpensNothing

\* Update makes the copy say what the server says; the record, if it is
\* written, says the same.
LEMMA CopiesUpdated ==
  ASSUME TypeOK, CopiesInv, RecordedInv, HasRoll, UNCHANGED cls,
         roll' = Updated(roll, cls[roll.id]),
         recorded' \in {recorded, RecordOf(roll')}
  PROVE  /\ CopiesInv' /\ RecordedInv'
         /\ HasRoll' /\ roll'.id = roll.id
         /\ recorded' # NoRecord /\ recorded'.id = roll.id
<1>1. roll \in Rolls /\ roll.id \in CLs /\ cls[roll.id] \in CLRecords
  BY DEF TypeOK, HasRoll, Rolls
<1>2. roll.issue.IsDryRun \in BOOLEAN
  BY <1>1 DEF Rolls, Issues
<1>3. /\ roll' \in Rolls /\ roll'.id = roll.id
      /\ roll'.issue.Closed => ~IsOpen(roll.id)
      /\ roll'.issue.CqSuccess => ~IsOpen(roll.id)
      /\ RecordOf(roll') \in Records /\ RecordOf(roll').id = roll.id
      /\ RecordOf(roll').Closed => ~IsOpen(roll.id)
  BY <1>1, <1>2, UpdatedType, RetrieveType DEF IsOpen
<1>4. HasRoll'
  BY <1>1, <1>3, NoCLAssumption DEF HasRoll, NoRoll
<1>5. recorded # NoRecord /\ recorded.id = roll.id
  BY DEF RecordedInv
<1>6. recorded' # NoRecord /\ recorded'.id = roll.id
  BY <1>1, <1>3, <1>5, NoCLAssumption DEF NoRecord
<1>7. recorded'.Closed => ~IsOpen(roll.id)
  BY <1>3, <1>5 DEF CopiesInv, ClosedCopyIsClosed
<1> QED
  BY <1>3, <1>4, <1>6, <1>7
  DEF CopiesInv, RecordedInv, ClosedCopyIsClosed, IsOpen

(***************************************************************************)
(* Steps outside of the process.                                           *)
(***************************************************************************)

\* A step of others which opens no CL keeps the invariant.
LEMMA OutsideKeeps ==
  ASSUME TypeOK, OpenRollInv, OpensNothing,
         UNCHANGED <<recorded, gcsState, process>>
  PROVE  OpenRollInv'
<1> USE DEF process, view, call
<1>1. CopiesInv' /\ RecordedInv'
  BY CopiesKept DEF OpenRollInv
<1>2. UploadInv'
  BY DEF OpenRollInv, UploadInv
<1>3. ASSUME NEW i \in OpenCLs' PROVE IsTracked(i)' /\ IsHandled'
  <2>1. i \in OpenCLs
    BY <1>3 DEF OpenCLs, IsOpen, OpensNothing
  <2> QED
    BY <2>1 DEF OpenRollInv, IsTracked, IsHandled, HasRoll
<1> QED BY <1>1, <1>2, <1>3 DEF OpenRollInv

\* They keep the invariant.
LEMMA OutsideOpenRollInv ==
  TypeInv /\ OpenRollInv /\ (UserStep \/ TimeStep \/ ServerStep)
    => OpenRollInv'
<1> SUFFICES ASSUME TypeInv, OpenRollInv, UserStep \/ TimeStep \/ ServerStep
             PROVE  OpenRollInv'
  OBVIOUS
<1>1. UNCHANGED <<recorded, gcsState, process>>
  BY DEF UserStep, SetMode, SetStrategy, Unthrottle, TimeStep, WindowChange,
    ThrottleExpires, ServerStep, NewRevision, OtherRollLands, DryRunFinishes,
    CqFails, CqLands, HumanLands, HumanAbandons, HumanDequeues, Dequeue,
    Land, server, stored, Local
<1> QED BY <1>1, OutsideOpensNothing, OutsideKeeps DEF TypeInv

(***************************************************************************)
(* Steps of the process which leave the CLs as they are, and neither start *)
(* nor end an upload: the roll stays tracked if the state or the new one   *)
(* looks after it.                                                         *)
(***************************************************************************)

\* Such a step keeps the invariant, if its transition still handles the roll.
LEMMA InsideKeeps ==
  ASSUME OpenRollInv, UNCHANGED <<cls, state>>,
         CopiesInv' /\ RecordedInv',
         HasRoll => HasRoll' /\ roll'.id = roll.id,
         pc \notin {"upload", "down"}, uploaded = NoCL,
         pc' \notin {"upload", "down"}, uploaded' = NoCL,
         OpenCLs # {} => IsHandled',
         pc' = "run" /\ fn' \in UploadFuncs =>
           state \notin LiveStates /\ dest' \in LiveStates
  PROVE  OpenRollInv'
<1>1. UploadInv'
  BY DEF UploadInv
<1>2. ASSUME NEW i \in OpenCLs' PROVE IsTracked(i)' /\ IsHandled'
  <2>1. i \in OpenCLs
    BY <1>2 DEF OpenCLs, IsOpen
  <2>2. HasRoll /\ roll.id = i /\ state \in LiveStates
    BY <2>1 DEF OpenRollInv, IsTracked
  <2>3. recorded' # NoRecord /\ recorded'.id = i
    BY <2>2 DEF RecordedInv
  <2> QED BY <2>1, <2>2, <2>3 DEF IsTracked
<1> QED BY <1>1, <1>2 DEF OpenRollInv

\* The end of a tick in the same state.
LEMMA EndTickKeeps ==
  ASSUME OpenRollInv, UNCHANGED <<cls, state>>,
         CopiesInv' /\ RecordedInv',
         HasRoll => HasRoll' /\ roll'.id = roll.id,
         pc \notin {"upload", "down"}, uploaded = NoCL, EndTick
  PROVE  OpenRollInv'
<1>1. pc' = "sleep" /\ uploaded' = NoCL
  BY DEF EndTick, NoCall
<1>2. IsHandled'
  BY <1>1 DEF IsHandled
<1> QED BY <1>1, <1>2, InsideKeeps

\* Outside of the upload window no CL is being uploaded.
LEMMA NotUploading ==
  ASSUME OpenRollInv, pc \notin {"upload", "commit"}
  PROVE  uploaded = NoCL
  BY DEF OpenRollInv, UploadInv

\* GetNext does not let go of an open roll.
LEMMA ChooseOpenRollInv ==
  ASSUME TypeInv, OpenRollInv, ChooseTransition PROVE OpenRollInv'
<1> DEFINE d == GetNext(state, ViewOf(count'))
           f == GetTransitionName(state, d)
<1>1. /\ UNCHANGED <<cls, state, roll, recorded>>
      /\ pc = "next" /\ uploaded = NoCL
  BY NotUploading DEF ChooseTransition, server, view
<1>2. CopiesInv' /\ RecordedInv'
  BY <1>1, CopiesKept DEF OpenRollInv, OpensNothing, TypeInv
<1>3. CASE n = 0 \/ f = F_NOOP
  <2>1. pc' = "run" /\ dest' = d /\ fn' = f /\ uploaded' = uploaded
    BY <1>3 DEF ChooseTransition
  <2>2. /\ ViewOf(count').mode \in ValidModes
        /\ ViewOf(count').hasRoll = HasRoll
        /\ ViewOf(count').closed = (HasRoll /\ roll.issue.Closed)
        /\ ViewOf(count').success = (HasRoll /\ roll.issue.CqSuccess)
    BY ViewFields DEF TypeInv, TypeOK
  <2>3. ASSUME OpenCLs # {} PROVE IsHandled'
    <3>1. PICK i \in OpenCLs : TRUE
      BY <2>3
    <3>2. HasRoll /\ roll.id = i /\ state \in LiveStates /\ IsOpen(i)
      BY <1>1, <3>1 DEF OpenRollInv, IsTracked, OpenCLs
    <3>3. ~roll.issue.Closed /\ ~roll.issue.CqSuccess
      BY <3>2 DEF OpenRollInv, CopiesInv, ClosedCopyIsClosed
    <3>4. d \in LiveStates \/ f \in CloseFuncs
      BY <2>2, <3>2, <3>3, OpenRollIsKept
    <3> QED BY <2>1, <3>4 DEF IsHandled
  <2>4. f \in UploadFuncs => state \notin LiveStates /\ d \in LiveStates
    BY <2>2, UploadsFromQuiet DEF TypeInv, TypeOK
  <2> QED BY <1>1, <1>2, <2>1, <2>3, <2>4, InsideKeeps DEF HasRoll
<1>4. CASE ~(n = 0 \/ f = F_NOOP)
  <2>1. EndTick
    BY <1>4 DEF ChooseTransition
  <2> QED BY <1>1, <1>2, <2>1, EndTickKeeps DEF HasRoll
<1> QED BY <1>3, <1>4

\* The new state looks after an open roll.
LEMMA CommitOpenRollInv ==
  ASSUME TypeInv, OpenRollInv, Commit \/ CommitNotPersisted
  PROVE  OpenRollInv'
<1>1. /\ UNCHANGED <<cls, roll, recorded>> /\ state' = dest
      /\ pc = "commit" \/ (pc = "run" /\ fn \in QuietFuncs)
      /\ pc' \in {"next", "sleep"} /\ uploaded' = NoCL
  BY DEF Commit, CommitNotPersisted, Committable, EndTick, NoCall, server,
    stored, view
<1>2. CopiesInv' /\ RecordedInv'
  BY <1>1, CopiesKept DEF OpenRollInv, OpensNothing, TypeInv
<1>3. UploadInv' /\ IsHandled'
  BY <1>1 DEF UploadInv, IsHandled
<1>4. fn \in QuietFuncs => fn \notin CloseFuncs
  BY QuietFuncsDoNothing
<1>5. ASSUME NEW i \in OpenCLs' PROVE IsTracked(i)'
  <2>1. i \in OpenCLs
    BY <1>1, <1>5 DEF OpenCLs, IsOpen
  <2>2. HasRoll /\ roll.id = i /\ recorded # NoRecord /\ recorded.id = i
    BY <1>1, <2>1 DEF OpenRollInv, IsTracked
  <2>3. dest \in LiveStates
    BY <1>1, <1>4, <2>1 DEF OpenRollInv, IsHandled
  <2> QED BY <1>1, <2>2, <2>3 DEF IsTracked, HasRoll
<1> QED BY <1>2, <1>3, <1>5 DEF OpenRollInv

\* The steps which change neither the CLs nor the state nor the copies.
LEMMA LocalOpenRollInv ==
  ASSUME TypeInv, OpenRollInv,
         \/ TickStart \/ ResetUnthrottle \/ UpdateRepos \/ WaitForLand
         \/ UnthrottleFails \/ ResetUnthrottleFails \/ RefreshFails
         \/ GetNextFails \/ NothingToCommit \/ CreateNewRollFails
         \/ UpdateReposFails
  PROVE  OpenRollInv'
<1> USE DEF server, stored, view, process
<1>1. UNCHANGED <<cls, state, roll, recorded>>
        /\ pc \in {"sleep", "flag", "next", "run", "repos"}
  BY DEF TickStart, ResetUnthrottle, UpdateRepos, WaitForLand,
    UnthrottleFails, ResetUnthrottleFails, RefreshFails, GetNextFails,
    NothingToCommit, CreateNewRollFails, UpdateReposFails
<1>2. uploaded = NoCL
  BY <1>1, NotUploading
<1>3. CopiesInv' /\ RecordedInv'
  BY <1>1, CopiesKept DEF OpenRollInv, OpensNothing, TypeInv
<1>4. CASE EndTick
  BY <1>1, <1>2, <1>3, <1>4, EndTickKeeps DEF HasRoll
<1>5. CASE ~EndTick
  <2>1. CASE TickStart \/ ResetUnthrottle \/ ResetUnthrottleFails
               \/ RefreshFails \/ UnthrottleFails
    <3>1. pc' \in {"sleep", "flag", "next"} /\ uploaded' = uploaded
      BY <2>1
      DEF TickStart, Refresh, ResetUnthrottle, ResetUnthrottleFails,
        RefreshFails, UnthrottleFails, call
    <3> QED
      BY <1>1, <1>2, <1>3, <3>1, InsideKeeps DEF HasRoll, IsHandled
  <2>2. CASE UpdateRepos \/ WaitForLand
    <3>1. /\ UNCHANGED <<dest, fn, err, uploaded>>
          /\ pc' = "commit" \/ (pc' = "run" /\ pc = "run")
          /\ pc = "repos"
               \/ (pc = "run" /\ fn \in {F_UPDATE_REPOS, F_WAIT_FOR_LAND})
      BY <1>5, <2>2 DEF UpdateRepos, WaitForLand, call
    <3>2. OpenCLs # {} => dest \in LiveStates
      BY <3>1, QuietFuncsDoNothing DEF OpenRollInv, IsHandled
    <3>3. pc' = "run" => fn \notin UploadFuncs
      BY <3>1, QuietFuncsDoNothing
    <3> QED
      BY <1>1, <1>2, <1>3, <3>1, <3>2, <3>3, InsideKeeps
      DEF HasRoll, IsHandled
  <2>3. CASE NothingToCommit \/ CreateNewRollFails
    <3>1. pc = "run" /\ fn \in UploadFuncs /\ pc' = "repos"
            /\ uploaded' = uploaded
      BY <1>5, <2>3 DEF NothingToCommit, CreateNewRollFails
    <3>2. OpenCLs = {}
      BY <1>2, <3>1 DEF OpenRollInv, UploadInv, IsTracked
    <3> QED BY <1>1, <1>2, <1>3, <3>1, <3>2, InsideKeeps DEF HasRoll
  <2> QED
    BY <1>5, <2>1, <2>2, <2>3 DEF GetNextFails, UpdateReposFails
<1> QED BY <1>4, <1>5

\* Update, alone or after a modification, may find the roll closed; only
\* then is an error of the modification ignored.
LEMMA UpdateOpenRollInv ==
  ASSUME TypeInv, OpenRollInv, UpdateRoll \/ SyncModified \/ UpdateFails
  PROVE  OpenRollInv'
<1> USE DEF server, stored, view
<1>1. UNCHANGED <<cls, state>> /\ pc \in {"run", "sync"}
  BY DEF UpdateRoll, SyncModified, UpdateFails
<1>2. uploaded = NoCL
  BY <1>1, NotUploading
<1>3. HasRoll
  BY DEF UpdateRoll, SyncModified, UpdateFails, TypeInv, FunctionHasItsRoll,
    NeedsRoll
<1>4. /\ CopiesInv' /\ RecordedInv'
      /\ HasRoll' /\ roll'.id = roll.id
  <2>1. CASE UNCHANGED <<roll, recorded>>
    BY <1>1, <1>3, <2>1, CopiesKept
    DEF OpenRollInv, OpensNothing, TypeInv, HasRoll
  <2>2. CASE ~UNCHANGED <<roll, recorded>>
    <3>1. roll' = Updated(roll, cls[roll.id])
            /\ recorded' \in {recorded, RecordOf(roll')}
      BY <2>2 DEF UpdateRoll, SyncModified, UpdateFails
    <3> QED BY <1>1, <1>3, <3>1, CopiesUpdated DEF OpenRollInv, TypeInv
  <2> QED BY <2>1, <2>2
<1>5. CASE EndTick
  BY <1>1, <1>2, <1>4, <1>5, EndTickKeeps
<1>6. CASE UpdateRoll
  <2>1. pc = "run" /\ pc' = "repos" /\ UNCHANGED <<dest, uploaded>>
          /\ fn = F_UPDATE_ROLL
    BY <1>6 DEF UpdateRoll, call
  <2>2. OpenCLs # {} => dest \in LiveStates
    BY <2>1, QuietFuncsDoNothing DEF OpenRollInv, IsHandled
  <2> QED BY <1>1, <1>2, <1>4, <2>1, <2>2, InsideKeeps DEF IsHandled
<1>7. CASE SyncModified /\ ~EndTick
  <2>1. pc = "sync" /\ pc' = "commit" /\ UNCHANGED <<dest, uploaded>>
          /\ ~(err /\ IsOpen(roll.id))
    BY <1>7 DEF SyncModified
  <2>2. OpenCLs # {} => dest \in LiveStates
    BY <1>2, <2>1 DEF OpenRollInv, IsHandled, IsTracked, OpenCLs
  <2> QED BY <1>1, <1>2, <1>4, <2>1, <2>2, InsideKeeps DEF IsHandled
<1> QED BY <1>5, <1>6, <1>7 DEF UpdateFails

\* A modification closes the only open roll, or leaves it open and its
\* transition leads to a live state, or fails.
LEMMA ModifyOpenRollInv ==
  ASSUME TypeInv, OpenRollInv, Modify PROVE OpenRollInv'
<1>1. /\ pc = "run" /\ fn \in ModifyFuncs /\ pc' = "sync"
      /\ UNCHANGED <<recorded, state, gcsState, dest, fn, uploaded>>
      /\ roll' = RollAfterModify(fn, ~err')
  BY DEF Modify, stored
<1>2. uploaded = NoCL
  BY <1>1, NotUploading
<1>3. HasRoll /\ roll \in Rolls /\ roll.id \in CLs /\ cls \in [CLs -> CLRecords]
  BY <1>1
  DEF TypeInv, TypeOK, FunctionHasItsRoll, NeedsRoll, ModifyFuncs, HasRoll,
    Rolls
<1>4. \/ UNCHANGED cls /\ err'
      \/ IsOpen(roll.id) /\ cls' = [cls EXCEPT ![roll.id] = ModifiedCL(fn, @)]
  BY DEF Modify
<1>5. OpensNothing
  BY <1>3, <1>4, ModifiedType DEF OpensNothing, IsOpen
<1>6. /\ roll' \in Rolls /\ roll'.id = roll.id
      /\ roll'.issue.Closed = roll.issue.Closed
      /\ roll'.issue.CqSuccess = roll.issue.CqSuccess
  BY <1>1, <1>3, AfterModifyType
<1>7. HasRoll'
  BY <1>3, <1>6, NoCLAssumption DEF HasRoll, NoRoll
<1>8. RecordedInv'
  BY <1>1, <1>3, <1>6 DEF OpenRollInv, RecordedInv
<1>9. CopiesInv'
  BY <1>1, <1>3, <1>5, <1>6, <1>8
  DEF OpenRollInv, RecordedInv, CopiesInv, ClosedCopyIsClosed, IsOpen,
    OpensNothing
<1>10. UploadInv'
  BY <1>1, <1>2 DEF UploadInv
<1>11. ASSUME NEW i \in OpenCLs' PROVE IsTracked(i)' /\ IsHandled'
  <2>1. i \in OpenCLs
    BY <1>5, <1>11 DEF OpenCLs, IsOpen, OpensNothing
  <2>2. roll.id = i /\ state \in LiveStates
          /\ recorded # NoRecord /\ recorded.id = i
    BY <1>1, <1>2, <2>1 DEF OpenRollInv, IsTracked
  <2>3. dest \in LiveStates \/ fn \in CloseFuncs
    BY <1>1, <2>1 DEF OpenRollInv, IsHandled
  <2>4. fn \in CloseFuncs => err'
    BY <1>3, <1>4, <1>11, <2>2, ModifiedType DEF OpenCLs, IsOpen
  <2> QED
    BY <1>1, <1>2, <1>6, <1>7, <2>2, <2>3, <2>4 DEF IsTracked, IsHandled
<1> QED BY <1>8, <1>9, <1>10, <1>11 DEF OpenRollInv

(***************************************************************************)
(* The upload.                                                             *)
(***************************************************************************)

\* The CL which is created is the only open one, and neither the roll in
\* memory nor the recorded one.
LEMMA CreateOpenRollInv ==
  ASSUME TypeInv, OpenRollInv, CreateNewRoll PROVE OpenRollInv'
<1>1. /\ pc = "run" /\ fn \in UploadFuncs /\ pc' = "upload"
      /\ UNCHANGED <<roll, recorded, dest, fn, state>>
  BY DEF CreateNewRoll, view
<1>2. PICK i \in FreeCLs :
        /\ uploaded' = i
        /\ \A j \in CLs : j # i => cls'[j] = cls[j]
  BY DEF CreateNewRoll, TypeInv, TypeOK
<1>3. i \in CLs /\ i # roll.id /\ i # recorded.id
  BY DEF FreeCLs
<1>4. uploaded = NoCL /\ state \notin LiveStates /\ dest \in LiveStates
  BY <1>1, NotUploading DEF OpenRollInv, UploadInv
<1>5. OpenCLs = {}
  BY <1>1, <1>4 DEF OpenRollInv, IsTracked
<1>6. CopiesInv' /\ RecordedInv'
  <2>1. HasRoll => roll.id \in CLs
    BY DEF TypeInv, TypeOK, HasRoll, Rolls
  <2>2. recorded # NoRecord => recorded.id \in CLs
    BY DEF TypeInv, TypeOK, Records
  <2> QED
    BY <1>1, <1>2, <1>3, <2>1, <2>2
    DEF OpenRollInv, CopiesInv, RecordedInv, ClosedCopyIsClosed, HasRoll,
      IsOpen
<1>7. UploadInv' /\ IsHandled'
  BY <1>1, <1>4 DEF UploadInv, IsHandled
<1>8. ASSUME NEW j \in OpenCLs' PROVE j = uploaded'
  BY <1>2, <1>5, <1>8 DEF OpenCLs, IsOpen
<1> QED BY <1>1, <1>6, <1>7, <1>8 DEF OpenRollInv, IsTracked

\* The CL is recorded, and becomes the roll in memory.
LEMMA InsertOpenRollInv ==
  ASSUME TypeInv, OpenRollInv, InsertIntoDB PROVE OpenRollInv'
<1>1. /\ pc = "upload" /\ pc' = "commit"
      /\ UNCHANGED <<dest, fn, uploaded, state>>
      /\ roll' = NewRoll /\ recorded' = RecordOf(NewRoll)
  BY DEF InsertIntoDB, call
<1>2. uploaded \in CLs /\ uploaded # NoCL /\ cls[uploaded] \in CLRecords
  BY <1>1, NoCLAssumption DEF TypeInv, TypeOK
<1>3. (fn = F_UPLOAD_DRY_RUN) \in BOOLEAN
  OBVIOUS
<1>4. /\ NewRoll.id = uploaded /\ RecordOf(NewRoll).id = uploaded
      /\ RecordOf(NewRoll).Closed = NewRoll.issue.Closed
      /\ NewRoll.issue.Closed => ~IsOpen(uploaded)
      /\ NewRoll.issue.CqSuccess => ~IsOpen(uploaded)
  BY <1>2, <1>3, RetrieveType DEF NewRoll, RecordOf, IsOpen
<1>5. ASSUME NEW j \in CLs
      PROVE  /\ IsOpen(j)' => IsOpen(j)
             /\ j = uploaded => cls'[j] = cls[j]
  BY DEF InsertIntoDB, IsOpen, UnusedCL
<1>6. HasRoll' /\ recorded' # NoRecord
  BY <1>1, <1>2, <1>4 DEF HasRoll, NoRoll, NoRecord
<1>7. CopiesInv' /\ RecordedInv'
  BY <1>1, <1>2, <1>4, <1>5, <1>6
  DEF CopiesInv, RecordedInv, ClosedCopyIsClosed, IsOpen
<1>8. dest \in LiveStates
  BY <1>2 DEF OpenRollInv, UploadInv
<1>9. UploadInv' /\ IsHandled'
  BY <1>1, <1>8 DEF UploadInv, IsHandled
<1>10. ASSUME NEW j \in OpenCLs' PROVE IsTracked(j)'
  <2>1. j = uploaded
    BY <1>1, <1>5, <1>10 DEF OpenCLs, OpenRollInv, IsTracked
  <2> QED BY <1>1, <1>2, <1>4, <1>6, <2>1 DEF IsTracked
<1> QED BY <1>7, <1>9, <1>10 DEF OpenRollInv

(***************************************************************************)
(* Crash and restart, outside of the upload window.                        *)
(***************************************************************************)

\* GCS holds the state which looks after the open CL.
LEMMA CrashOpenRollInv ==
  ASSUME TypeInv, OpenRollInv, Crash, "window" \notin Faults
  PROVE  OpenRollInv'
<1>1. /\ pc' = "down" /\ roll' = NoRoll /\ uploaded' = NoCL
      /\ UNCHANGED <<cls, recorded, gcsState>>
      /\ pc # "down" /\ ~InUploadWindow
  BY DEF Crash, NoCall, server, stored
<1>2. pc # "upload" /\ uploaded = NoCL /\ state = gcsState
  BY <1>1 DEF InUploadWindow, OpenRollInv, UploadInv
<1>3. CopiesInv' /\ RecordedInv'
  BY <1>1
  DEF OpenRollInv, CopiesInv, RecordedInv, ClosedCopyIsClosed, HasRoll,
    IsOpen
<1>4. UploadInv' /\ IsHandled'
  BY <1>1 DEF UploadInv, IsHandled
<1>5. ASSUME NEW i \in OpenCLs' PROVE IsTracked(i)'
  <2>1. i \in OpenCLs
    BY <1>1, <1>5 DEF OpenCLs, IsOpen
  <2> QED BY <1>1, <1>2, <2>1 DEF OpenRollInv, IsTracked
<1> QED BY <1>3, <1>4, <1>5 DEF OpenRollInv

\* The recorded roll is not closed if its CL is open, so it is retrieved.
LEMMA RestartOpenRollInv ==
  ASSUME TypeInv, OpenRollInv, Restart PROVE OpenRollInv'
<1>1. /\ pc = "down" /\ pc' = "sleep" /\ state' = gcsState
      /\ UNCHANGED <<cls, recorded, uploaded>>
  BY DEF Restart, server, stored, call
<1>2. uploaded = NoCL
  BY <1>1, NotUploading
<1>3. /\ HasRoll' => recorded # NoRecord /\ roll'.id = recorded.id
      /\ HasRoll' /\ (roll'.issue.Closed \/ roll'.issue.CqSuccess) =>
           ~IsOpen(recorded.id)
  <2>1. CASE recorded = NoRecord \/ recorded.Closed
    BY <2>1 DEF Restart, HasRoll
  <2>2. CASE recorded # NoRecord /\ ~recorded.Closed
    <3>1. /\ recorded.id \in CLs /\ recorded.IsDryRun \in BOOLEAN
          /\ cls[recorded.id] \in CLRecords
      BY <2>2 DEF TypeInv, TypeOK, Records
    <3>2. roll' = [id |-> recorded.id,
                   issue |-> Retrieve(recorded.IsDryRun, cls[recorded.id])]
      BY <2>2 DEF Restart
    <3> QED BY <2>2, <3>1, <3>2, RetrieveType DEF IsOpen
  <2> QED BY <2>1, <2>2
<1>4. CopiesInv' /\ RecordedInv'
  BY <1>1, <1>3
  DEF OpenRollInv, CopiesInv, RecordedInv, ClosedCopyIsClosed, IsOpen
<1>5. UploadInv' /\ IsHandled'
  BY <1>1, <1>2 DEF UploadInv, IsHandled
<1>6. ASSUME NEW i \in OpenCLs' PROVE IsTracked(i)'
  <2>1. i \in OpenCLs
    BY <1>1, <1>6 DEF OpenCLs, IsOpen
  <2>2. recorded # NoRecord /\ recorded.id = i /\ gcsState \in LiveStates
    BY <1>1, <2>1 DEF OpenRollInv, IsTracked
  <2>3. ~recorded.Closed
    BY <2>1, <2>2
    DEF OpenRollInv, CopiesInv, ClosedCopyIsClosed, OpenCLs
  <2>4. roll'.id = i
    BY <2>2, <2>3 DEF Restart
  <2>5. HasRoll'
    BY <2>1, <2>4, NoCLAssumption DEF HasRoll, NoRoll, OpenCLs
  <2> QED BY <1>1, <2>2, <2>4, <2>5 DEF IsTracked
<1> QED BY <1>4, <1>5, <1>6 DEF OpenRollInv

(***************************************************************************)
(* The theorems.                                                           *)
(***************************************************************************)

\* There is no open CL in the beginning.
LEMMA InitOpenRollInv == Init => OpenRollInv
<1> SUFFICES ASSUME Init PROVE OpenRollInv
  OBVIOUS
<1>1. OpenCLs = {}
  BY DEF Init, OpenCLs, IsOpen, UnusedCL
<1> QED
  BY <1>1
  DEF Init, OpenRollInv, CopiesInv, RecordedInv, UploadInv,
    ClosedCopyIsClosed, HasRoll

\* Every step preserves the invariant, if none fails in the upload window.
LEMMA NextOpenRollInv ==
  ASSUME "window" \notin Faults
  PROVE  TypeInv /\ OpenRollInv /\ [Next]_vars => OpenRollInv'
<1> SUFFICES ASSUME TypeInv, OpenRollInv, [Next]_vars PROVE OpenRollInv'
  OBVIOUS
<1>1. CASE TickStep
  BY <1>1, ChooseOpenRollInv, CommitOpenRollInv, LocalOpenRollInv,
    UpdateOpenRollInv, ModifyOpenRollInv, CreateOpenRollInv,
    InsertOpenRollInv
  DEF TickStep
<1>2. CASE FaultStep
  BY <1>2, CommitOpenRollInv, LocalOpenRollInv, UpdateOpenRollInv,
    CrashOpenRollInv
  DEF FaultStep, InsertIntoDBFails
<1>3. CASE Restart
  BY <1>3, RestartOpenRollInv
<1>4. CASE UserStep \/ TimeStep \/ ServerStep
  BY <1>4, OutsideOpenRollInv
<1>5. CASE UNCHANGED vars
  <2>1. OpensNothing /\ UNCHANGED <<recorded, gcsState, process>>
    BY <1>5 DEF vars, server, stored, OpensNothing
  <2> QED BY <2>1, OutsideKeeps DEF TypeInv
<1> QED BY <1>1, <1>2, <1>3, <1>4, <1>5 DEF Next

\* If nothing fails in the upload window, at most one roll CL is ever open,
\* for every configuration of the roller, every other fault and everything
\* people do: UploadNewRoll runs only when the previous CL is closed.
THEOREM OnlyOneRollIsOpen ==
  ASSUME "window" \notin Faults PROVE Spec => []OneOpenRoll
<1>1. OpenRollInv => OneOpenRoll
  BY DEF OpenRollInv, IsTracked, OneOpenRoll
<1> QED
  BY <1>1, InitTypeInv, NextTypeInv, InitOpenRollInv, NextOpenRollInv, PTL
  DEF Spec

\* If nothing fails in the upload window, a roller which sleeps in a state
\* without a roll has left no CL open, after restarts and lost replies too.
THEOREM QuietRollerHasNoOpenRoll ==
  ASSUME "window" \notin Faults PROVE Spec => []QuietMeansNoOpenRoll
<1>1. OpenRollInv => QuietMeansNoOpenRoll
  BY NotUploading
  DEF OpenRollInv, IsTracked, QuietMeansNoOpenRoll, QuietStates, LiveStates
<1> QED
  BY <1>1, InitTypeInv, NextTypeInv, InitOpenRollInv, NextOpenRollInv, PTL
  DEF Spec

\* If nothing fails in the upload window, neither the roll in memory nor its
\* record is ever closed before the CL itself is.
THEOREM CopiesCloseLast ==
  ASSUME "window" \notin Faults PROVE Spec => []ClosedCopyIsClosed
<1>1. OpenRollInv => ClosedCopyIsClosed
  BY DEF OpenRollInv, CopiesInv
<1> QED
  BY <1>1, InitTypeInv, NextTypeInv, InitOpenRollInv, NextOpenRollInv, PTL
  DEF Spec

(***************************************************************************)
(* What the roller knows, under all faults: the next revision is not older *)
(* than the last, an upload has something to roll, and a roll which is     *)
(* taken for a success has landed.                                         *)
(***************************************************************************)
Landed(i) == cls[i].status = "merged"

KnownInv == known.last <= known.next

\* Once an upload is chosen there is something to roll.
SomethingToRoll ==
  pc = "run" /\ fn \in UploadFuncs => known.last # known.next

\* A copy which says that its roll is a success is right.
SuccessInv == HasRoll /\ roll.issue.CqSuccess => Landed(roll.id)

LandInv == KnownInv /\ SomethingToRoll /\ SuccessInv

\* A CL which a step changes was open and keeps its revisions; if it lands,
\* the parent moves with it, unless it changes nothing.
CLMoves(i) ==
  /\ IsOpen(i)
  /\ cls'[i].from = cls[i].from /\ cls'[i].to = cls[i].to
  /\ cls'[i].status = "merged" =>
       \/ cls[i].from = pin /\ pin' = cls[i].to
       \/ cls[i].from = cls[i].to

\* The data of a closed CL to which nothing refers are dropped.
CLForgotten(i) ==
  /\ pc = "upload" /\ InsertIntoDB
  /\ i # uploaded /\ ~IsOpen(i)
  /\ cls'[i] = UnusedCL

CLStep(i) == cls'[i] = cls[i] \/ CLMoves(i) \/ CLForgotten(i)

\* Only a new revision moves the child, and only a roll moves the parent.
ReposMove ==
  \/ UNCHANGED <<tip, pin>>
  \/ NewRevision \/ OtherRollLands
  \/ \E i \in OpenCLs : Land(i)

MovesCLs == ReposMove /\ \A i \in CLs : CLStep(i)

\* What a modification does to its CL.
LEMMA ModifyMovesCL ==
  ASSUME TypeInv, Modify, NEW i \in CLs PROVE CLStep(i)
<1>1. roll.id \in CLs /\ cls \in [CLs -> CLRecords]
  BY DEF Modify, TypeInv, TypeOK, FunctionHasItsRoll, NeedsRoll, ModifyFuncs,
    HasRoll, Rolls
<1>2. CASE UNCHANGED cls
  BY <1>2 DEF CLStep
<1>3. CASE ~UNCHANGED cls
  <2>1. IsOpen(roll.id)
          /\ cls' = [cls EXCEPT ![roll.id] = ModifiedCL(fn, cls[roll.id])]
    BY <1>3 DEF Modify
  <2>2. PICK c \in CLRecords : c = cls[roll.id]
    BY <1>1
  <2>3. PICK m : m = ModifiedCL(fn, c)
    OBVIOUS
  <2>4. m.from = c.from /\ m.to = c.to /\ m.status # "merged"
    <3>1. m \in {ClosedAs(c, "abandoned"),
                 [c EXCEPT !.label = IF fn \in DryRunFuncs THEN 1 ELSE 2]}
      BY <2>3 DEF ModifiedCL
    <3>2. c.status # "merged"
      BY <2>1, <2>2 DEF IsOpen
    <3> QED BY <3>1, <3>2 DEF ClosedAs, CLRecords
  <2>5. cls'[i] = IF i = roll.id THEN m ELSE cls[i]
    BY <1>1, <2>1, <2>2, <2>3
  <2> QED BY <2>1, <2>2, <2>4, <2>5 DEF CLStep, CLMoves
<1> QED BY <1>2, <1>3

\* What people and the commit queue do to a CL.
LEMMA ServerMovesCL ==
  ASSUME TypeInv, NEW j \in CLs,
         \/ DryRunFinishes(j) \/ CqFails(j) \/ CqLands(j)
         \/ HumanLands(j) \/ HumanAbandons(j) \/ HumanDequeues(j)
  PROVE  MovesCLs
<1>1. cls \in [CLs -> CLRecords]
  BY DEF TypeInv, TypeOK
<1>2. ASSUME NEW tries, Dequeue(j, tries), IsOpen(j) PROVE MovesCLs
  <2>1. PICK c \in CLRecords : c = cls[j]
    BY <1>1
  <2>2. cls' = [cls EXCEPT ![j] = [c EXCEPT !.label = 0, !.tries = tries]]
          /\ UNCHANGED <<tip, pin>>
    BY <1>1, <1>2, <2>1 DEF Dequeue
  <2>3. PICK m : m = [c EXCEPT !.label = 0, !.tries = tries]
    OBVIOUS
  <2>4. m.from = c.from /\ m.to = c.to /\ m.status = c.status
    BY <2>3 DEF CLRecords
  <2>5. \A i \in CLs : cls'[i] = IF i = j THEN m ELSE cls[i]
    BY <1>1, <2>2, <2>3
  <2> QED
    BY <1>2, <2>1, <2>2, <2>4, <2>5
    DEF MovesCLs, CLStep, CLMoves, ReposMove, IsOpen
<1>3. ASSUME NEW status \in {"merged", "abandoned"}, IsOpen(j),
             cls' = [cls EXCEPT ![j] = ClosedAs(@, status)],
             status = "merged" =>
               \/ cls[j].from = pin /\ pin' = cls[j].to
               \/ cls[j].from = cls[j].to,
             ReposMove
      PROVE  MovesCLs
  <2>1. PICK c \in CLRecords : c = cls[j]
    BY <1>1
  <2>2. PICK m : m = ClosedAs(c, status)
    OBVIOUS
  <2>3. m.from = c.from /\ m.to = c.to /\ m.status = status
    BY <2>2 DEF ClosedAs, CLRecords
  <2>4. \A i \in CLs : cls'[i] = IF i = j THEN m ELSE cls[i]
    BY <1>1, <1>3, <2>1, <2>2
  <2> QED BY <1>3, <2>1, <2>3, <2>4 DEF MovesCLs, CLStep, CLMoves
<1>4. CASE DryRunFinishes(j) \/ CqFails(j) \/ HumanDequeues(j)
  BY <1>2, <1>4 DEF DryRunFinishes, CqFails, HumanDequeues
<1>5. CASE CqLands(j) \/ HumanLands(j)
  <2>1. Land(j) /\ IsOpen(j)
    BY <1>5 DEF CqLands, HumanLands, Land
  <2> QED BY <1>3, <2>1 DEF Land, ReposMove, OpenCLs
<1>6. CASE HumanAbandons(j)
  <2>1. IsOpen(j) /\ UNCHANGED <<tip, pin>>
          /\ cls' = [cls EXCEPT ![j] = ClosedAs(@, "abandoned")]
    BY <1>6 DEF HumanAbandons
  <2> QED BY <1>3, <2>1 DEF ReposMove
<1> QED BY <1>4, <1>5, <1>6

\* Every step but the creation of a CL.
LEMMA StepMovesCLs ==
  ASSUME TypeInv, [Next]_vars, ~CreateNewRoll PROVE MovesCLs
<1> USE DEF server, stored, view, call, process
<1>1. ASSUME UNCHANGED cls, ReposMove PROVE MovesCLs
  BY <1>1 DEF MovesCLs, CLStep
<1>2. CASE InsertIntoDB
  BY <1>2 DEF InsertIntoDB, MovesCLs, CLStep, CLForgotten, ReposMove
<1>3. CASE Modify
  BY <1>3, ModifyMovesCL DEF Modify, MovesCLs, ReposMove
<1>4. CASE \/ TickStart \/ ResetUnthrottle \/ ChooseTransition \/ Commit
           \/ UpdateRepos \/ UpdateRoll \/ WaitForLand \/ SyncModified
           \/ NothingToCommit \/ Restart \/ FaultStep \/ UserStep
           \/ TimeStep \/ UNCHANGED vars
  <2>1. UNCHANGED server
    BY <1>4
    DEF TickStart, ResetUnthrottle, ChooseTransition, Commit, UpdateRepos,
      UpdateRoll, WaitForLand, SyncModified, NothingToCommit, Restart, FaultStep,
      UnthrottleFails, ResetUnthrottleFails, RefreshFails, GetNextFails,
      CommitNotPersisted, CreateNewRollFails, InsertIntoDBFails,
      UpdateFails, UpdateReposFails, Crash, vars, UserStep, SetMode,
      SetStrategy, Unthrottle, TimeStep, WindowChange, ThrottleExpires
  <2> QED BY <1>1, <2>1 DEF ReposMove
<1>5. CASE NewRevision
  BY <1>1, <1>5 DEF NewRevision, ReposMove
<1>6. CASE OtherRollLands
  BY <1>1, <1>6 DEF OtherRollLands, ReposMove
<1>7. CASE ServerStep /\ ~NewRevision /\ ~OtherRollLands
  BY <1>7, ServerMovesCL DEF ServerStep
<1> QED BY <1>2, <1>3, <1>4, <1>5, <1>6, <1>7 DEF Next, TickStep

\* The parent goes forward, while no open roll would take it back.
LEMMA PinGrows ==
  ASSUME TypeInv, [Next]_vars, \A i \in OpenCLs : cls[i].from <= cls[i].to
  PROVE  pin' >= pin
<1>0. pin \in Int /\ pin' \in Int
  BY NextTypeInv DEF TypeInv, TypeOK, Revs
<1>1. CASE CreateNewRoll
  BY <1>0, <1>1 DEF CreateNewRoll
<1>2. ASSUME NEW i \in OpenCLs, Land(i) PROVE pin' >= pin
  BY <1>0, <1>2 DEF Land
<1>3. CASE OtherRollLands
  BY <1>0, <1>3 DEF OtherRollLands, NotRolled, TypeInv, TypeOK, Revs
<1>4. CASE ~CreateNewRoll
  BY <1>0, <1>2, <1>3, <1>4, StepMovesCLs
  DEF MovesCLs, ReposMove, NewRevision
<1> QED BY <1>1, <1>4

\* Every strategy rolls forward.
LEMMA NextRevIsNewer ==
  ASSUME NEW s \in Strategy, TypeOK
  PROVE  SyncedRevs(s).last <= SyncedRevs(s).next
<1>1. pin \in Nat /\ tip \in Nat
  BY DEF TypeOK, Revs
<1>2. s \in ValidStrategies
  BY StrategyAssumption
<1>3. GetNextRollRev(s, pin, tip)
        \in Valid(NotRolled(pin, tip)) \cup Valid(OldestBatch(pin, tip))
              \cup {pin}
  BY <1>2, ChosenRev
  DEF GetNextRollRev, ValidStrategies, ROLL_STRATEGY_BATCH,
    ROLL_STRATEGY_N_BATCH, ROLL_STRATEGY_SINGLE
<1>4. GetNextRollRev(s, pin, tip) >= pin
  BY <1>1, <1>3 DEF Valid, OldestBatch, NotRolled
<1> QED BY <1>1, <1>4 DEF SyncedRevs

\* What the process knows of the revisions it has read at one time, if it
\* runs at all; the parent reads its commit with them, if not on its own.
LEMMA KnownMoves ==
  ASSUME TypeInv, [Next]_vars
  PROVE  \/ UNCHANGED <<known, base>>
         \/ /\ UNCHANGED server
            /\ base' \in {base, pin, 0}
            /\ \/ known' = known
               \/ \E s \in Strategy : known' = SyncedRevs(s)
               \/ known' = [last |-> 0, tip |-> 0, next |-> 0]
<1> USE DEF server, stored, view, call, process
<1>1. CASE UpdateRepos \/ WaitForLand
  <2>1. strategy \in Strategy
    BY DEF TypeInv, TypeOK
  <2> QED BY <1>1, <2>1 DEF UpdateRepos, WaitForLand
<1>2. CASE Restart
  BY <1>2 DEF Restart, TypeInv, TypeOK
<1>3. CASE Crash \/ UpdateReposFails
  BY <1>3 DEF Crash, UpdateReposFails
<1>4. CASE \/ TickStart \/ ResetUnthrottle \/ ChooseTransition \/ Commit
           \/ UpdateRoll \/ CreateNewRoll \/ NothingToCommit
           \/ InsertIntoDB \/ Modify \/ SyncModified
           \/ (FaultStep /\ ~Crash /\ ~UpdateReposFails) \/ UNCHANGED vars
  BY <1>4
  DEF TickStart, Refresh, ResetUnthrottle, ChooseTransition, Commit,
    UpdateRoll, CreateNewRoll, NothingToCommit, InsertIntoDB, Modify,
    SyncModified, FaultStep, UnthrottleFails, ResetUnthrottleFails,
    RefreshFails, GetNextFails, CommitNotPersisted, CreateNewRollFails,
    InsertIntoDBFails, UpdateFails, vars
<1>5. CASE UserStep \/ TimeStep \/ ServerStep
  BY <1>5
  DEF UserStep, SetMode, SetStrategy, Unthrottle, TimeStep, WindowChange,
    ThrottleExpires, ServerStep, NewRevision, OtherRollLands,
    DryRunFinishes, CqFails, CqLands, HumanLands, HumanAbandons,
    HumanDequeues, Dequeue, Land, Local
<1> QED BY <1>1, <1>2, <1>3, <1>4, <1>5 DEF Next, TickStep

\* It is in order.
LEMMA KnownIsOrdered ==
  ASSUME TypeInv, KnownInv, [Next]_vars PROVE KnownInv'
<1>1. \A s \in Strategy : SyncedRevs(s).last <= SyncedRevs(s).next
  BY NextRevIsNewer DEF TypeInv
<1> QED BY <1>1, KnownMoves DEF KnownInv

\* Between GetNext and the upload the roller does not look at the revisions.
LEMMA StillSomethingToRoll ==
  ASSUME TypeInv, SomethingToRoll, [Next]_vars PROVE SomethingToRoll'
<1> USE DEF server, stored, view, call, process
<1>1. CASE ChooseTransition
  <2> DEFINE w == ViewOf(count')
             f == GetTransitionName(state, GetNext(state, w))
  <2>1. SUFFICES ASSUME pc' = "run", fn' \in UploadFuncs
                 PROVE  known'.last # known'.next
    BY DEF SomethingToRoll
  <2>2. fn' = f /\ known' = known
    BY <1>1, <2>1 DEF ChooseTransition, EndTick
  <2>3. w.mode \in ValidModes /\ w.upToDate = (known.last = known.next)
    BY DEF ViewOf, TypeInv, TypeOK
  <2>4. ~w.upToDate
    <3>1. f \in UploadFuncs /\ state \in States
      BY <2>1, <2>2 DEF TypeInv, TypeOK
    <3> HIDE DEF w
    <3> QED BY <2>3, <3>1, UploadsRollSomething
  <2> QED BY <2>2, <2>3, <2>4
<1>2. CASE WaitForLand
  <2>1. fn \notin UploadFuncs
    BY <1>2, QuietFuncsDoNothing DEF WaitForLand
  <2>2. pc' = "run" => fn' = fn
    BY <1>2 DEF WaitForLand, EndTick
  <2> QED BY <2>1, <2>2 DEF SomethingToRoll
<1>3. CASE UserStep \/ TimeStep \/ ServerStep \/ UNCHANGED vars
  <2>1. UNCHANGED <<pc, fn, known>>
    BY <1>3
    DEF UserStep, SetMode, SetStrategy, Unthrottle, TimeStep, WindowChange,
      ThrottleExpires, ServerStep, NewRevision, OtherRollLands,
      DryRunFinishes, CqFails, CqLands, HumanLands, HumanAbandons,
      HumanDequeues, Dequeue, Land, Local, vars
  <2> QED BY <2>1 DEF SomethingToRoll
<1>4. CASE UnthrottleFails
  BY <1>4 DEF UnthrottleFails, SomethingToRoll
<1>5. CASE \/ TickStart \/ ResetUnthrottle \/ Commit \/ UpdateRepos
           \/ UpdateRoll \/ CreateNewRoll \/ NothingToCommit
           \/ InsertIntoDB \/ Modify \/ SyncModified \/ Restart
           \/ (FaultStep /\ ~UnthrottleFails)
  <2>1. pc' # "run"
    BY <1>5
    DEF TickStart, Refresh, ResetUnthrottle, Commit, UpdateRepos, UpdateRoll,
      CreateNewRoll, NothingToCommit, InsertIntoDB, Modify, SyncModified,
      Restart, EndTick, FaultStep, ResetUnthrottleFails, RefreshFails, GetNextFails,
      CommitNotPersisted, CreateNewRollFails, InsertIntoDBFails,
      UpdateFails, UpdateReposFails, Crash
  <2> QED BY <2>1 DEF SomethingToRoll
<1> QED BY <1>1, <1>2, <1>3, <1>4, <1>5 DEF Next, TickStep

\* The CL which is created is open, and goes to the next revision; the others
\* stay as they are.
LEMMA CreatedCL ==
  ASSUME TypeInv, CreateNewRoll
  PROVE  \E j \in FreeCLs :
           /\ uploaded' = j
           /\ cls'[j].status = "open"
           /\ cls'[j].label = (IF fn = F_UPLOAD_DRY_RUN THEN 1 ELSE 2)
           /\ cls'[j].from = RollBase /\ cls'[j].to = known.next
           /\ \A i \in CLs : i # j => cls'[i] = cls[i]
<1>1. PICK j \in FreeCLs :
        cls' = [cls EXCEPT ![j] = NewCL(RollBase)] /\ uploaded' = j
  BY DEF CreateNewRoll
<1>2. j \in CLs /\ cls \in [CLs -> CLRecords]
  BY DEF FreeCLs, TypeInv, TypeOK
<1>3. PICK c : c = NewCL(RollBase)
  OBVIOUS
<1>4. /\ c.status = "open" /\ c.from = RollBase /\ c.to = known.next
      /\ c.label = IF fn = F_UPLOAD_DRY_RUN THEN 1 ELSE 2
  BY <1>3 DEF NewCL
<1>5. cls' = [cls EXCEPT ![j] = c]
  BY <1>1, <1>3
<1> QED BY <1>1, <1>2, <1>4, <1>5

\* A CL which has landed stays so, while something refers to it.
LEMMA LandedStays ==
  ASSUME TypeInv, [Next]_vars, NEW i \in CLs, Landed(i),
         i \in {roll.id, recorded.id}, ~InsertIntoDB
  PROVE  Landed(i)' /\ cls'[i] = cls[i]
<1>1. CASE CreateNewRoll
  <2>1. PICK j \in FreeCLs : i # j => cls'[i] = cls[i]
    BY <1>1, CreatedCL
  <2> QED BY <2>1 DEF FreeCLs, Landed
<1>2. CASE ~CreateNewRoll
  <2>1. CLStep(i)
    BY <1>2, StepMovesCLs DEF MovesCLs
  <2> QED BY <2>1 DEF CLStep, CLMoves, CLForgotten, IsOpen, Landed
<1> QED BY <1>1, <1>2

\* The copy still tells the truth when it says that its roll has landed.
LEMMA SuccessKept ==
  ASSUME TypeInv, LandInv, [Next]_vars, HasRoll', roll'.issue.CqSuccess
  PROVE  Landed(roll.id)'
<1> USE DEF server, stored, view, call, process
<1>1. ASSUME HasRoll, roll'.id = roll.id, ~InsertIntoDB,
             roll.issue.CqSuccess
      PROVE  Landed(roll.id)'
  <2>1. roll.id \in CLs /\ Landed(roll.id)
    BY <1>1 DEF LandInv, SuccessInv, TypeInv, TypeOK, HasRoll, Rolls
  <2> QED BY <1>1, <2>1, LandedStays DEF Landed
<1>2. ASSUME UNCHANGED roll, ~InsertIntoDB PROVE Landed(roll.id)'
  BY <1>1, <1>2 DEF HasRoll
<1>3. ASSUME HasRoll, roll' = Updated(roll, cls[roll.id]), UNCHANGED cls
      PROVE  Landed(roll.id)'
  <2>1. roll \in Rolls /\ cls[roll.id] \in CLRecords
    BY <1>3 DEF TypeInv, TypeOK, HasRoll, Rolls
  <2>2. /\ roll'.id = roll.id
        /\ roll'.issue = Retrieve(roll.issue.IsDryRun, cls[roll.id])
    BY <1>3, <2>1, UpdatedType
  <2>3. cls[roll.id].status = "merged"
    BY <2>2, RetrieveLanded
  <2> QED BY <1>3, <2>2, <2>3 DEF Landed
<1>4. CASE Modify
  <2>1. roll \in Rolls /\ HasRoll
    BY <1>4
    DEF Modify, TypeInv, TypeOK, FunctionHasItsRoll, NeedsRoll, ModifyFuncs,
      HasRoll
  <2>2. roll' = RollAfterModify(fn, ~err')
    BY <1>4 DEF Modify
  <2>3. roll'.id = roll.id /\ roll'.issue.CqSuccess = roll.issue.CqSuccess
    BY <2>1, <2>2, AfterModifyType
  <2>4. ~InsertIntoDB
    BY <1>4 DEF Modify, InsertIntoDB
  <2> QED BY <1>1, <2>1, <2>3, <2>4
<1>5. CASE InsertIntoDB
  <2>1. roll' = NewRoll /\ uploaded \in CLs /\ cls'[uploaded] = cls[uploaded]
    BY <1>5 DEF InsertIntoDB, TypeInv
  <2>2. roll'.id = uploaded
          /\ roll'.issue = Retrieve(fn = F_UPLOAD_DRY_RUN, cls[uploaded])
    BY <2>1 DEF NewRoll
  <2>3. cls[uploaded].status = "merged"
    BY <2>2, RetrieveLanded
  <2> QED BY <2>1, <2>2, <2>3 DEF Landed
<1>6. CASE Restart
  <2>1. roll' = [id |-> recorded.id,
                 issue |-> Retrieve(recorded.IsDryRun, cls[recorded.id])]
          /\ UNCHANGED cls
    BY <1>6 DEF Restart, HasRoll
  <2>2. cls[recorded.id].status = "merged"
    BY <2>1, RetrieveLanded
  <2> QED BY <2>1, <2>2 DEF Landed
<1>7. CASE Crash
  BY <1>7 DEF Crash, HasRoll
<1>8. CASE UpdateRoll \/ SyncModified \/ UpdateFails
  <2>1. HasRoll /\ UNCHANGED cls /\ ~InsertIntoDB
    BY <1>8
    DEF UpdateRoll, SyncModified, UpdateFails, TypeInv, FunctionHasItsRoll,
      NeedsRoll, InsertIntoDB
  <2>2. roll' = roll \/ roll' = Updated(roll, cls[roll.id])
    BY <1>8 DEF UpdateRoll, SyncModified, UpdateFails
  <2> QED BY <1>2, <1>3, <2>1, <2>2
<1>9. CASE \/ TickStart \/ ResetUnthrottle \/ ChooseTransition \/ Commit
           \/ UpdateRepos \/ WaitForLand \/ CreateNewRoll \/ NothingToCommit
           \/ UnthrottleFails \/ ResetUnthrottleFails \/ RefreshFails
           \/ GetNextFails \/ CommitNotPersisted \/ CreateNewRollFails
           \/ InsertIntoDBFails \/ UpdateReposFails \/ UNCHANGED vars
  <2>1. UNCHANGED roll
    BY <1>9
    DEF TickStart, ResetUnthrottle, ChooseTransition, Commit, UpdateRepos,
      WaitForLand, CreateNewRoll, NothingToCommit, UnthrottleFails,
      ResetUnthrottleFails, RefreshFails, GetNextFails, CommitNotPersisted, CreateNewRollFails,
      InsertIntoDBFails, UpdateReposFails, vars
  <2> QED BY <1>2, <1>5, <2>1
<1>10. CASE UserStep \/ TimeStep \/ ServerStep
  <2>1. UNCHANGED roll
    BY <1>10
    DEF UserStep, SetMode, SetStrategy, Unthrottle, TimeStep, WindowChange,
      ThrottleExpires, ServerStep, NewRevision, OtherRollLands,
      DryRunFinishes, CqFails, CqLands, HumanLands, HumanAbandons,
      HumanDequeues, Dequeue, Land, Local
  <2> QED BY <1>2, <1>5, <2>1
<1> QED
  BY <1>4, <1>5, <1>6, <1>7, <1>8, <1>9, <1>10
  DEF Next, TickStep, FaultStep

\* There is nothing to roll in the beginning, and no roll.
LEMMA InitLandInv == Init => LandInv
<1> SUFFICES ASSUME Init PROVE LandInv
  OBVIOUS
<1>1. known.last <= known.next
  <2>1. known = SyncedRevs(dbStrategy) /\ dbStrategy \in Strategy /\ TypeOK
    BY InitTypeInv DEF Init, TypeInv
  <2> QED BY <2>1, NextRevIsNewer
<1> QED
  BY <1>1
  DEF Init, LandInv, KnownInv, SomethingToRoll, SuccessInv, HasRoll

\* Every step preserves the invariant, whatever fails.
LEMMA NextLandInv == TypeInv /\ LandInv /\ [Next]_vars => LandInv'
<1> SUFFICES ASSUME TypeInv, LandInv, [Next]_vars PROVE LandInv'
  OBVIOUS
<1>1. KnownInv' /\ SomethingToRoll'
  BY KnownIsOrdered, StillSomethingToRoll DEF LandInv
<1>2. SuccessInv'
  <2> SUFFICES ASSUME HasRoll', roll'.issue.CqSuccess PROVE Landed(roll.id)'
    BY DEF SuccessInv
  <2> QED BY SuccessKept
<1> QED BY <1>1, <1>2 DEF LandInv

(***************************************************************************)
(* What a roll is put on.  Where the parent has got what the roller knows, *)
(* which takes Updates that are whole, or is synced again, a roll changes  *)
(* something; in the first case it goes forward.                           *)
(***************************************************************************)

\* Neither calls nor the sanity checks of UpdateRepos fail, once the parent
\* has saved its commit.  Only n_batch may choose no revision while there is a
\* valid one, if all those of its batch are invalid.
UpdatesAreWhole ==
  /\ "remote" \notin Faults
  /\ ROLL_STRATEGY_N_BATCH \in Strategy => Invalid = {}

BaseInv == ~Resyncs => base = known.last
ChangesSomething == \A i \in OpenCLs : cls[i].from # cls[i].to
RollsForward == \A i \in OpenCLs : cls[i].from < cls[i].to

\* A set of revisions has a newest and an oldest one.
LEMMA RevsHaveBounds ==
  ASSUME NEW S \in SUBSET Revs, S # {}
  PROVE  /\ \E r \in S : \A q \in S : q <= r
         /\ \E r \in S : \A q \in S : r <= q
<1>1. \A T \in SUBSET Nat : T # {} => \E r \in T : \A q \in T : r <= q
  <2> SUFFICES ASSUME NEW T \in SUBSET Nat, T # {}
               PROVE  \E r \in T : \A q \in T : r <= q
    OBVIOUS
  <2>1. PICK r \in T : \A q \in T : <<q, r>> \notin OpToRel(<, Nat)
    BY NatLessThanWellFounded, WFMin
  <2>2. ASSUME NEW q \in T PROVE r <= q
    <3>1. q \in Nat /\ r \in Nat
      OBVIOUS
    <3>2. q < r => <<q, r>> \in OpToRel(<, Nat)
      BY <3>1 DEF OpToRel
    <3>3. ~(q < r)
      BY <2>1, <3>2
    <3> QED BY <3>1, <3>3
  <2> QED BY <2>2
<1>2. MaxRev \in Nat /\ S \subseteq Nat /\ \A q \in S : q <= MaxRev
  BY MaxRevAssumption DEF Revs
<1> DEFINE T == {MaxRev - q : q \in S}
<1>3. T \in SUBSET Nat /\ T # {}
  <2>1. \A q \in S : MaxRev - q \in Nat
    BY <1>2
  <2>2. T \subseteq Nat
    BY <2>1
  <2> QED BY <2>2
<1>4. PICK t \in T : \A u \in T : t <= u
  BY <1>1, <1>3
<1>5. PICK r \in S : t = MaxRev - r
  BY <1>4
<1>6. \A q \in S : q <= r
  <2> SUFFICES ASSUME NEW q \in S PROVE q <= r
    OBVIOUS
  <2>1. t <= MaxRev - q
    BY <1>4
  <2> QED BY <1>2, <1>5, <2>1
<1> QED BY <1>1, <1>2, <1>6

\* The sanity checks pass.
LEMMA RevsAreSane ==
  ASSUME NEW s \in Strategy, TypeOK, UpdatesAreWhole
  PROVE  LET revs == SyncedRevs(s)
         IN  SaneRevs(revs.next, revs.last, revs.tip)
<1> DEFINE new == NotRolled(pin, tip)
           batch == OldestBatch(pin, tip)
           next == GetNextRollRev(s, pin, tip)
<1>1. pin \in Nat /\ tip \in Nat /\ new \subseteq Revs /\ batch \subseteq new
        /\ pin \notin new
  BY MaxRevAssumption DEF TypeOK, Revs, NotRolled, OldestBatch
<1>2. \A S \in SUBSET Revs :
        /\ S # {} => Newest(S, pin) \in S /\ Oldest(S, pin) \in S
        /\ S = {} => Newest(S, pin) = pin /\ Oldest(S, pin) = pin
  <2> SUFFICES ASSUME NEW S \in SUBSET Revs
               PROVE  /\ S # {} => Newest(S, pin) \in S /\ Oldest(S, pin) \in S
                      /\ S = {} => Newest(S, pin) = pin /\ Oldest(S, pin) = pin
    OBVIOUS
  <2>1. CASE S = {}
    BY <2>1 DEF Newest, Oldest
  <2>2. CASE S # {}
    BY <2>2, RevsHaveBounds DEF Newest, Oldest
  <2> QED BY <2>1, <2>2
<1>3. s \in ValidStrategies
  BY StrategyAssumption
<1>4. CASE s = ROLL_STRATEGY_N_BATCH
  <2>1. Valid(batch) = batch /\ Valid(new) = new
    BY <1>4 DEF UpdatesAreWhole, Valid
  <2>2. next = Newest(batch, pin)
    BY <1>4, <2>1
    DEF GetNextRollRev, ROLL_STRATEGY_BATCH, ROLL_STRATEGY_N_BATCH,
      ROLL_STRATEGY_SINGLE
  <2>3. batch = {} => new = {}
    <3>1. ASSUME NEW r \in new PROVE pin + 1 \in batch
      BY <1>1, BatchSizeAssumption DEF NotRolled, OldestBatch
    <3> QED BY <3>1
  <2>4. batch \in SUBSET Revs
    BY <1>1
  <2>5. (batch # {} => next \in batch) /\ (batch = {} => next = pin)
    BY <1>2, <2>2, <2>4
  <2> HIDE DEF new, batch, next
  <2>6. next \in new \cup {pin} /\ (next = pin => Valid(new) = {})
    BY <1>1, <2>1, <2>3, <2>5
  <2> QED BY <2>6 DEF SaneRevs, SyncedRevs, new, next
<1>5. CASE s # ROLL_STRATEGY_N_BATCH
  <2>1. next = Newest(Valid(new), pin) \/ next = Oldest(Valid(new), pin)
    BY <1>3, <1>5
    DEF GetNextRollRev, ValidStrategies, ROLL_STRATEGY_BATCH,
      ROLL_STRATEGY_N_BATCH, ROLL_STRATEGY_SINGLE
  <2>2. Valid(new) \in SUBSET Revs /\ Valid(new) \subseteq new
    BY <1>1 DEF Valid
  <2>3. /\ Valid(new) # {} => next \in Valid(new)
        /\ Valid(new) = {} => next = pin
    BY <1>2, <2>1, <2>2
  <2> HIDE DEF new, batch, next
  <2>4. next \in new \cup {pin} /\ (next = pin => Valid(new) = {})
    BY <1>1, <2>2, <2>3
  <2> QED BY <2>4 DEF SaneRevs, SyncedRevs, new, next
<1> QED BY <1>4, <1>5

\* The parent has got what the roller knows, if Updates are whole.
LEMMA NextBaseInv ==
  ASSUME Resyncs \/ UpdatesAreWhole, TypeInv, BaseInv, [Next]_vars
  PROVE  BaseInv'
<1> SUFFICES ASSUME UpdatesAreWhole, base = known.last
             PROVE  base' = known'.last
  BY DEF BaseInv
<1> USE DEF server, stored, view, call, process
<1>1. CASE UpdateRepos \/ WaitForLand
  <2>1. strategy \in Strategy
    BY DEF TypeInv, TypeOK
  <2>2. LET revs == SyncedRevs(strategy)
        IN  SaneRevs(revs.next, revs.last, revs.tip)
    BY <2>1, RevsAreSane DEF TypeInv
  <2>3. base' = pin /\ known' = SyncedRevs(strategy)
    BY <1>1, <2>2 DEF UpdateRepos, WaitForLand
  <2> QED BY <2>3 DEF SyncedRevs
<1>2. CASE Restart
  BY <1>2 DEF Restart, SyncedRevs
<1>3. CASE Crash
  BY <1>3 DEF Crash
<1>4. ASSUME UNCHANGED <<known, base>> PROVE base' = known'.last
  BY <1>4
<1>5. CASE \/ TickStart \/ ResetUnthrottle \/ ChooseTransition \/ Commit
           \/ UpdateRoll \/ CreateNewRoll \/ NothingToCommit
           \/ InsertIntoDB \/ Modify \/ SyncModified
           \/ (FaultStep /\ ~Crash) \/ UNCHANGED vars
  <2>1. ~UpdateReposFails
    BY DEF UpdateReposFails, UpdatesAreWhole
  <2>2. UNCHANGED <<known, base>>
    BY <1>5, <2>1
    DEF TickStart, Refresh, ResetUnthrottle, ChooseTransition, Commit,
      UpdateRoll, CreateNewRoll, NothingToCommit, InsertIntoDB, Modify,
      SyncModified, FaultStep, UnthrottleFails, ResetUnthrottleFails,
      RefreshFails, GetNextFails, CommitNotPersisted, CreateNewRollFails,
      InsertIntoDBFails, UpdateFails, vars
  <2> QED BY <1>4, <2>2
<1>6. CASE UserStep \/ TimeStep \/ ServerStep
  <2>1. UNCHANGED <<known, base>>
    BY <1>6
    DEF UserStep, SetMode, SetStrategy, Unthrottle, TimeStep, WindowChange,
      ThrottleExpires, ServerStep, NewRevision, OtherRollLands,
      DryRunFinishes, CqFails, CqLands, HumanLands, HumanAbandons,
      HumanDequeues, Dequeue, Land, Local
  <2> QED BY <1>4, <2>1
<1> QED BY <1>1, <1>2, <1>3, <1>5, <1>6 DEF Next, TickStep

\* A CL which is open was open with the same revisions, or is new.
LEMMA OpenCLsKeepRevs ==
  ASSUME TypeInv, [Next]_vars, NEW i \in OpenCLs'
  PROVE  \/ /\ i \in OpenCLs
            /\ cls'[i].from = cls[i].from /\ cls'[i].to = cls[i].to
         \/ CreateNewRoll /\ cls'[i].from = RollBase /\ cls'[i].to = known.next
<1>1. i \in CLs /\ cls'[i].status = "open"
  BY DEF OpenCLs, IsOpen
<1>2. CASE CreateNewRoll
  <2>1. PICK j \in FreeCLs :
          /\ cls'[j].from = RollBase /\ cls'[j].to = known.next
          /\ i # j => cls'[i] = cls[i]
    BY <1>1, <1>2, CreatedCL
  <2> QED BY <1>1, <1>2, <2>1 DEF OpenCLs, IsOpen
<1>3. CASE ~CreateNewRoll
  <2>1. CLStep(i)
    BY <1>1, <1>3, StepMovesCLs DEF MovesCLs
  <2> QED
    BY <1>1, <2>1 DEF CLStep, CLMoves, CLForgotten, UnusedCL, IsOpen, OpenCLs
<1> QED BY <1>2, <1>3

\* A roll which is created changes something.
LEMMA StillChangesSomething ==
  ASSUME TypeInv, LandInv, BaseInv, ChangesSomething, [Next]_vars
  PROVE  ChangesSomething'
<1>1. CreateNewRoll => RollBase # known.next
  BY DEF CreateNewRoll, RollBase, BaseInv, LandInv, SomethingToRoll
<1> QED BY <1>1, OpenCLsKeepRevs DEF ChangesSomething

\* It goes forward from the parent which the roller knows.
LEMMA StillRollsForward ==
  ASSUME ~Resyncs, TypeInv, LandInv, BaseInv, RollsForward, [Next]_vars
  PROVE  RollsForward'
<1>1. CreateNewRoll => RollBase < known.next
  <2>1. known.last \in Int /\ known.next \in Int
    BY DEF TypeInv, TypeOK, Revs
  <2> QED
    BY <2>1
    DEF CreateNewRoll, RollBase, BaseInv, LandInv, KnownInv, SomethingToRoll
<1> QED BY <1>1, OpenCLsKeepRevs DEF RollsForward

\* The parent is read with the revisions, and no CL is open.
LEMMA InitBaseInv == Init => BaseInv /\ ChangesSomething /\ RollsForward
  BY DEF Init, BaseInv, SyncedRevs, ChangesSomething, RollsForward, OpenCLs,
    IsOpen, UnusedCL

\* A Gitiles parent whose Updates are whole never goes back to an older
\* revision, whatever else fails and whatever others roll: the CL is put on the
\* commit from which the revisions were chosen, and lands only there.
THEOREM ParentNeverGoesBack ==
  ASSUME ~Resyncs, UpdatesAreWhole PROVE Spec => NeverRollsBack
<1>1. ASSUME TypeInv, RollsForward, [Next]_vars PROVE pin' >= pin
  <2>1. \A i \in OpenCLs : cls[i].from <= cls[i].to
    BY <1>1 DEF RollsForward, OpenCLs, TypeInv, TypeOK, CLRecords, Revs
  <2> QED BY <1>1, <2>1, PinGrows
<1>2. TypeInv /\ RollsForward /\ [Next]_vars => [pin' >= pin]_vars
  BY <1>1
<1>3. TypeInv /\ LandInv /\ BaseInv /\ RollsForward /\ [Next]_vars =>
        BaseInv' /\ RollsForward'
  BY NextBaseInv, StillRollsForward
<1> QED
  BY <1>2, <1>3, InitTypeInv, NextTypeInv, InitLandInv, NextLandInv,
    InitBaseInv, PTL
  DEF Spec, NeverRollsBack

(***************************************************************************)
(* S_NORMAL_SUCCESS and F_WAIT_FOR_LAND, if nothing fails in the upload    *)
(* window: the roll of that state has landed.                              *)
(***************************************************************************)

\* The roll in memory has landed, and so has the one which a restart would
\* retrieve.
RecordLanded == recorded # NoRecord /\ ~recorded.Closed => Landed(recorded.id)
RollLanded == /\ HasRoll => Landed(roll.id)
              /\ RecordLanded

Uploads == pc = "upload" \/ (pc = "run" /\ fn \in UploadFuncs)
InCall == pc \in {"run", "upload", "sync", "repos", "commit"}

\* The state S_NORMAL_SUCCESS, in memory, in GCS while the process is down,
\* or as the destination of the transition under way.
WaitInv ==
  /\ state = S_NORMAL_SUCCESS => RollLanded /\ ~Uploads
  /\ InCall /\ dest = S_NORMAL_SUCCESS => RollLanded /\ ~Uploads
  /\ pc = "run" /\ fn = F_WAIT_FOR_LAND => state = S_NORMAL_SUCCESS
  /\ pc = "down" /\ gcsState = S_NORMAL_SUCCESS => RecordLanded

\* The record is about a CL, and so is the roll.
LEMMA RollNames ==
  ASSUME TypeInv
  PROVE  /\ HasRoll => roll \in Rolls /\ roll.id \in CLs
         /\ recorded # NoRecord => recorded.id \in CLs
  BY DEF TypeInv, TypeOK, HasRoll, Rolls, Records

\* What has landed stays so while the roll and the record are the same.
LEMMA RollLandedKept ==
  ASSUME TypeInv, [Next]_vars, ~InsertIntoDB,
         UNCHANGED <<roll, recorded>>
  PROVE  (RollLanded => RollLanded') /\ (RecordLanded => RecordLanded')
<1>1. HasRoll /\ Landed(roll.id) => Landed(roll.id)'
  BY RollNames, LandedStays DEF Landed
<1>2. recorded # NoRecord /\ Landed(recorded.id) => Landed(recorded.id)'
  BY RollNames, LandedStays DEF Landed
<1> QED BY <1>1, <1>2 DEF RollLanded, RecordLanded, HasRoll, Landed

\* Update leaves the identity of the roll, and of the record.
LEMMA RollLandedUpdated ==
  ASSUME TypeInv, [Next]_vars, HasRoll, UNCHANGED cls,
         roll' = Updated(roll, cls[roll.id]),
         recorded' \in {recorded, RecordOf(roll')},
         RollLanded
  PROVE  RollLanded'
<1>1. roll \in Rolls /\ roll.id \in CLs /\ cls[roll.id] \in CLRecords
  BY RollNames DEF TypeInv, TypeOK
<1>2. roll'.id = roll.id /\ RecordOf(roll').id = roll.id
  BY <1>1, UpdatedType
<1>3. Landed(roll.id)'
  BY <1>2 DEF RollLanded, Landed
<1>4. RecordLanded'
  BY <1>2 DEF RollLanded, RecordLanded, Landed
<1> QED BY <1>3, <1>4 DEF RollLanded

\* A step of the tick which neither uploads, nor changes the state or the
\* destination, while the roll of S_NORMAL_SUCCESS has landed.
LEMMA WaitKept ==
  ASSUME WaitInv, RollLanded => RollLanded',
         UNCHANGED state, pc # "down", pc' # "down", Uploads' => Uploads,
         InCall' /\ dest' = S_NORMAL_SUCCESS =>
           InCall /\ dest = S_NORMAL_SUCCESS,
         pc' = "run" /\ fn' = F_WAIT_FOR_LAND => state = S_NORMAL_SUCCESS
  PROVE  WaitInv'
  BY DEF WaitInv

\* The end of a tick.
LEMMA WaitEndTick ==
  ASSUME WaitInv, RollLanded => RollLanded',
         UNCHANGED state, pc # "down", EndTick
  PROVE  WaitInv'
<1>1. pc' = "sleep"
  BY DEF EndTick
<1> QED BY <1>1, WaitKept DEF InCall, Uploads

\* The choice of the next transition.
LEMMA ChooseWaitInv ==
  ASSUME TypeInv, LandInv, OpenRollInv, WaitInv, ChooseTransition, [Next]_vars
  PROVE  WaitInv'
<1> DEFINE d == GetNext(state, ViewOf(count'))
           f == GetTransitionName(state, d)
<1>1. UNCHANGED <<cls, roll, recorded, state>> /\ pc = "next"
  BY DEF ChooseTransition, server, view
<1>2. RollLanded => RollLanded'
  BY <1>1, RollLandedKept DEF InsertIntoDB
<1>3. CASE n = 0 \/ f = F_NOOP
  <2>1. pc' = "run" /\ dest' = d /\ fn' = f
    BY <1>3 DEF ChooseTransition
  <2>2. /\ state \in States /\ ViewOf(count').mode \in ValidModes
        /\ ViewOf(count').hasRoll = HasRoll
        /\ ViewOf(count').success = (HasRoll /\ roll.issue.CqSuccess)
    BY ViewFields DEF TypeInv, TypeOK
  <2>3. f \in Funcs /\ <<state, d, f>> \in Transitions
    BY <2>2, NextTransitionType
  <2>4. f = F_WAIT_FOR_LAND => state = S_NORMAL_SUCCESS
    BY <2>3, WaitsInTable
  <2>5. f \in UploadFuncs =>
          state # S_NORMAL_SUCCESS /\ d # S_NORMAL_SUCCESS
    BY <2>3, IdleUploadsInTable
    DEF S_NORMAL_IDLE, S_DRY_RUN_IDLE, S_NORMAL_ACTIVE, S_DRY_RUN_ACTIVE,
      S_NORMAL_SUCCESS
  <2>6. ASSUME d = S_NORMAL_SUCCESS PROVE RollLanded'
    <3>1. HasRoll /\ roll.issue.CqSuccess
      BY <2>2, <2>6, SuccessIsSeen
    <3>2. Landed(roll.id)
      BY <3>1 DEF LandInv, SuccessInv
    <3>3. RollLanded
      BY <3>1, <3>2 DEF RollLanded, RecordLanded, OpenRollInv, RecordedInv
    <3> QED BY <1>2, <3>3
  <2> HIDE DEF d, f
  <2> QED
    BY <1>1, <1>2, <2>1, <2>4, <2>5, <2>6 DEF WaitInv, Uploads, InCall
<1>4. CASE ~(n = 0 \/ f = F_NOOP)
  <2>1. EndTick
    BY <1>4 DEF ChooseTransition
  <2> QED BY <1>1, <1>2, <2>1, WaitEndTick
<1> QED BY <1>3, <1>4

\* The end of a transition.
LEMMA CommitWaitInv ==
  ASSUME TypeInv, OpenRollInv, WaitInv, Commit \/ CommitNotPersisted,
         [Next]_vars
  PROVE  WaitInv'
<1>1. /\ UNCHANGED <<roll, recorded>> /\ state' = dest
      /\ pc' \in {"next", "sleep"} /\ InCall /\ ~InsertIntoDB
  BY DEF Commit, CommitNotPersisted, Committable, EndTick, view, stored,
    InCall, InsertIntoDB
<1>2. RollLanded => RollLanded'
  BY <1>1, RollLandedKept
<1> QED BY <1>1, <1>2 DEF WaitInv, Uploads, InCall

\* The steps of a tick which keep the roll and the record.
LEMMA LocalWaitInv ==
  ASSUME TypeInv, WaitInv, [Next]_vars,
         \/ TickStart \/ ResetUnthrottle \/ UpdateRepos \/ WaitForLand
         \/ UnthrottleFails \/ ResetUnthrottleFails \/ RefreshFails
         \/ GetNextFails \/ CreateNewRollFails \/ UpdateReposFails
         \/ CreateNewRoll \/ NothingToCommit
  PROVE  WaitInv'
<1> USE DEF server, stored, view, process, call
<1>1. /\ UNCHANGED <<state, roll, recorded>>
      /\ pc \in {"sleep", "flag", "next", "run", "repos"}
      /\ ~InsertIntoDB
  BY DEF TickStart, ResetUnthrottle, UpdateRepos, WaitForLand,
    UnthrottleFails, ResetUnthrottleFails, RefreshFails, GetNextFails,
    CreateNewRollFails, UpdateReposFails, CreateNewRoll, NothingToCommit,
    InsertIntoDB
<1>2. RollLanded => RollLanded'
  BY <1>1, RollLandedKept
<1>3. CASE EndTick
  BY <1>1, <1>2, <1>3, WaitEndTick
<1>4. CASE ~EndTick /\ (TickStart \/ ResetUnthrottle \/ ResetUnthrottleFails
               \/ RefreshFails \/ UnthrottleFails)
  <2>1. pc' \in {"sleep", "flag", "next"}
    BY <1>4
    DEF TickStart, Refresh, ResetUnthrottle, ResetUnthrottleFails,
      RefreshFails, UnthrottleFails
  <2> QED BY <1>1, <1>2, <2>1, WaitKept DEF InCall, Uploads
<1>5. CASE ~EndTick /\ (UpdateRepos \/ WaitForLand \/ CreateNewRollFails
                          \/ CreateNewRoll \/ NothingToCommit)
  <2>1. /\ UNCHANGED <<dest, fn>>
        /\ pc \in {"run", "repos"}
        /\ \/ pc' \in {"commit", "repos"}
           \/ pc' = "run" /\ pc = "run"
           \/ pc' = "upload" /\ pc = "run" /\ fn \in UploadFuncs
    BY <1>5
    DEF UpdateRepos, WaitForLand, CreateNewRollFails, CreateNewRoll,
      NothingToCommit
  <2> QED BY <1>1, <1>2, <2>1, WaitKept DEF InCall, Uploads, WaitInv
<1> QED BY <1>3, <1>4, <1>5 DEF GetNextFails, UpdateReposFails

\* Update and the modifications.
LEMMA UpdateWaitInv ==
  ASSUME TypeInv, WaitInv, [Next]_vars,
         UpdateRoll \/ SyncModified \/ UpdateFails \/ Modify
  PROVE  WaitInv'
<1> USE DEF server, stored, view
<1>1. UNCHANGED state /\ pc \in {"run", "sync"} /\ ~InsertIntoDB
  BY DEF UpdateRoll, SyncModified, UpdateFails, Modify, InsertIntoDB
<1>2. HasRoll
  BY DEF UpdateRoll, SyncModified, UpdateFails, Modify, TypeInv,
    FunctionHasItsRoll, NeedsRoll, ModifyFuncs
<1>3. ASSUME RollLanded PROVE RollLanded'
  <2>1. CASE UNCHANGED <<roll, recorded>>
    BY <1>1, <1>3, <2>1, RollLandedKept
  <2>2. CASE ~Modify /\ ~UNCHANGED <<roll, recorded>>
    <3>1. /\ UNCHANGED cls /\ roll' = Updated(roll, cls[roll.id])
          /\ recorded' \in {recorded, RecordOf(roll')}
      BY <2>2 DEF UpdateRoll, SyncModified, UpdateFails
    <3> QED BY <1>2, <1>3, <3>1, RollLandedUpdated
  <2>3. CASE Modify
    <3>1. roll \in Rolls /\ roll.id \in CLs
      BY <1>2, RollNames
    <3>2. roll' = RollAfterModify(fn, ~err') /\ UNCHANGED recorded
      BY <2>3 DEF Modify
    <3>3. roll'.id = roll.id
      BY <3>1, <3>2, AfterModifyType
    <3>4. Landed(roll.id)'
      BY <1>1, <1>2, <1>3, <3>1, <3>3, LandedStays DEF RollLanded, Landed
    <3>5. RecordLanded'
      BY <1>1, <1>3, <3>2, RollNames, LandedStays
      DEF RollLanded, RecordLanded, Landed
    <3> QED BY <3>4, <3>5 DEF RollLanded
  <2> QED BY <2>1, <2>2, <2>3
<1>4. CASE EndTick
  BY <1>1, <1>3, <1>4, WaitEndTick
<1>5. CASE ~EndTick
  <2>1. UNCHANGED <<dest, fn>> /\ pc' \in {"repos", "commit", "sync"}
    BY <1>5 DEF UpdateRoll, SyncModified, UpdateFails, Modify, call
  <2> QED BY <1>1, <1>3, <2>1, WaitKept DEF InCall, Uploads
<1> QED BY <1>4, <1>5

\* An upload neither begins nor ends in S_NORMAL_SUCCESS.
LEMMA InsertWaitInv ==
  ASSUME WaitInv, InsertIntoDB PROVE WaitInv'
<1>1. /\ pc = "upload" /\ pc' = "commit" /\ UNCHANGED <<state, dest>>
      /\ state # S_NORMAL_SUCCESS /\ dest # S_NORMAL_SUCCESS
  BY DEF InsertIntoDB, call, WaitInv, Uploads, InCall
<1> QED BY <1>1 DEF WaitInv

\* A crash outside of the upload window finds the state in GCS.
LEMMA CrashWaitInv ==
  ASSUME TypeInv, WaitInv, Crash, "window" \notin Faults, [Next]_vars
  PROVE  WaitInv'
<1>1. /\ pc' = "down" /\ state' = S_NORMAL_IDLE
      /\ UNCHANGED <<cls, recorded, gcsState>>
      /\ pc # "down" /\ state = gcsState
  BY DEF Crash, InUploadWindow, server, stored
<1>2. state = S_NORMAL_SUCCESS => RecordLanded'
  BY <1>1 DEF WaitInv, RollLanded, RecordLanded, Landed
<1> QED
  BY <1>1, <1>2 DEF WaitInv, InCall, S_NORMAL_IDLE, S_NORMAL_SUCCESS

\* The roll which is retrieved in S_NORMAL_SUCCESS has landed.
LEMMA RestartWaitInv ==
  ASSUME TypeInv, WaitInv, Restart PROVE WaitInv'
<1>1. /\ pc = "down" /\ pc' = "sleep" /\ state' = gcsState
      /\ UNCHANGED <<cls, recorded>>
  BY DEF Restart, server, stored
<1>2. HasRoll' =>
        recorded # NoRecord /\ ~recorded.Closed /\ roll'.id = recorded.id
  BY DEF Restart, HasRoll
<1>3. gcsState = S_NORMAL_SUCCESS => RollLanded'
  BY <1>1, <1>2 DEF WaitInv, RollLanded, RecordLanded, Landed
<1> QED BY <1>1, <1>3 DEF WaitInv, InCall, Uploads

\* Requests, time and the server.
LEMMA OutsideWaitInv ==
  ASSUME TypeInv, WaitInv, [Next]_vars,
         UNCHANGED <<recorded, gcsState, process>>
  PROVE  WaitInv'
<1> USE DEF process, view, call
<1>1. CASE InsertIntoDB
  BY <1>1, InsertWaitInv
<1>2. CASE ~InsertIntoDB
  <2>1. (RollLanded => RollLanded') /\ (RecordLanded => RecordLanded')
    BY <1>2, RollLandedKept
  <2> QED BY <2>1 DEF WaitInv, InCall, Uploads
<1> QED BY <1>1, <1>2

\* Nothing waits in the beginning.
LEMMA InitWaitInv == Init => WaitInv
  BY DEF Init, WaitInv, InCall, Uploads, S_NORMAL_IDLE, S_NORMAL_SUCCESS

\* Every step preserves the invariant, if none fails in the upload window.
LEMMA NextWaitInv ==
  ASSUME "window" \notin Faults
  PROVE  TypeInv /\ LandInv /\ OpenRollInv /\ WaitInv /\ [Next]_vars => WaitInv'
<1> SUFFICES ASSUME TypeInv, LandInv, OpenRollInv, WaitInv, [Next]_vars
             PROVE  WaitInv'
  OBVIOUS
<1>1. CASE TickStep
  BY <1>1, ChooseWaitInv, CommitWaitInv, LocalWaitInv, UpdateWaitInv,
    InsertWaitInv
  DEF TickStep
<1>2. CASE FaultStep
  BY <1>2, CommitWaitInv, LocalWaitInv, UpdateWaitInv, CrashWaitInv
  DEF FaultStep, InsertIntoDBFails
<1>3. CASE Restart
  BY <1>3, RestartWaitInv
<1>4. CASE UserStep \/ TimeStep \/ ServerStep \/ UNCHANGED vars
  <2>1. UNCHANGED <<recorded, gcsState, process>>
    BY <1>4
    DEF UserStep, SetMode, SetStrategy, Unthrottle, TimeStep, WindowChange,
      ThrottleExpires, ServerStep, NewRevision, OtherRollLands,
      DryRunFinishes, CqFails, CqLands, HumanLands, HumanAbandons,
      HumanDequeues, Dequeue, Land, server, stored, Local, vars
  <2> QED BY <2>1, OutsideWaitInv
<1> QED BY <1>1, <1>2, <1>3, <1>4 DEF Next

\* A roll which has landed is in the parent until its CL is forgotten: no
\* other CL is open meanwhile, unless one is being uploaded.
LandedInv ==
  \A i \in CLs :
    Landed(i) /\ (pc = "upload" => i = uploaded) =>
      OpenCLs = {} /\ pin >= cls[i].to

\* If nothing fails in the upload window, an upload ends when its CL is
\* recorded.
LEMMA UploadsEnd ==
  ASSUME "window" \notin Faults, [Next]_vars, ~CreateNewRoll, ~InsertIntoDB
  PROVE  IF pc = "upload" THEN pc' = "upload" /\ uploaded' = uploaded
         ELSE pc' # "upload"
<1> USE DEF server, stored, view, call, process
<1>1. CASE TickStep \/ Restart
  BY <1>1
  DEF TickStep, TickStart, Refresh, ResetUnthrottle, ChooseTransition, Commit,
    Committable, UpdateRepos, UpdateRoll, WaitForLand, NothingToCommit, Modify,
    SyncModified, Restart, EndTick
<1>2. CASE FaultStep
  BY <1>2
  DEF FaultStep, UnthrottleFails, ResetUnthrottleFails, RefreshFails,
    GetNextFails, CommitNotPersisted, Committable, CreateNewRollFails,
    InsertIntoDBFails, UpdateFails, UpdateReposFails, Crash, InUploadWindow,
    EndTick
<1>3. CASE UserStep \/ TimeStep \/ ServerStep \/ UNCHANGED vars
  BY <1>3
  DEF UserStep, SetMode, SetStrategy, Unthrottle, TimeStep, WindowChange,
    ThrottleExpires, ServerStep, NewRevision, OtherRollLands, DryRunFinishes,
    CqFails, CqLands, HumanLands, HumanAbandons, HumanDequeues, Dequeue, Land,
    Local, vars
<1> QED BY <1>1, <1>2, <1>3 DEF Next

\* The roll which lands is the only open one; afterwards others move the
\* parent forward only.
LEMMA NextLandedInv ==
  ASSUME "window" \notin Faults, TypeInv, OpenRollInv, ChangesSomething,
         LandedInv, [Next]_vars
  PROVE  LandedInv'
<1> SUFFICES ASSUME NEW i \in CLs, Landed(i)', pc' = "upload" => i = uploaded'
             PROVE  OpenCLs' = {} /\ pin' >= cls'[i].to
  BY DEF LandedInv
<1>1. /\ cls \in [CLs -> CLRecords] /\ pin \in Int /\ pin' \in Int
      /\ cls[i].to \in Int
  BY NextTypeInv DEF TypeInv, TypeOK, Revs, CLRecords
<1>2. ~CreateNewRoll
  <2>1. ASSUME CreateNewRoll PROVE FALSE
    <3>1. pc' = "upload"
      BY <2>1 DEF CreateNewRoll
    <3> QED BY <2>1, <3>1, CreatedCL DEF Landed
  <2> QED BY <2>1
<1>3. OpensNothing /\ CLStep(i)
  BY <1>2, OnlyUploadOpens, StepMovesCLs DEF MovesCLs
<1>4. CASE cls'[i] = cls[i]
  <2>1. pc = "upload" => i = uploaded
    <3>1. CASE InsertIntoDB
      BY <1>4, <3>1 DEF InsertIntoDB, Landed, IsOpen, UnusedCL
    <3>2. CASE ~InsertIntoDB
      BY <1>2, <3>2, UploadsEnd
    <3> QED BY <3>1, <3>2
  <2>2. OpenCLs = {} /\ pin >= cls[i].to
    BY <1>4, <2>1 DEF LandedInv, Landed
  <2>3. pin' >= pin
    BY <2>2, PinGrows
  <2> QED BY <1>1, <1>3, <1>4, <2>2, <2>3 DEF OpensNothing, OpenCLs, IsOpen
<1>5. CASE CLMoves(i)
  <2>1. OpenCLs = {i}
    BY <1>5 DEF CLMoves, OpenCLs, OpenRollInv, IsTracked
  <2>2. OpenCLs' = {}
    BY <1>3, <2>1 DEF OpensNothing, OpenCLs, IsOpen, Landed
  <2>3. pin' = cls'[i].to
    BY <1>5, <2>1 DEF CLMoves, Landed, ChangesSomething
  <2> QED BY <1>1, <2>2, <2>3
<1>6. CASE CLForgotten(i)
  BY <1>6 DEF CLForgotten, UnusedCL, Landed
<1> QED BY <1>3, <1>4, <1>5, <1>6 DEF CLStep

\* If nothing fails in the upload window, F_WAIT_FOR_LAND runs only when its
\* roll has landed and the parent is at or past it, although the state comes
\* from GCS, the roll from the datastore and the result from the server.  The
\* parent syncs again, or its Updates are whole: or else a roll which changes
\* nothing could land behind the parent.
THEOREM WaitsAreForLandedRolls ==
  ASSUME "window" \notin Faults, Resyncs \/ UpdatesAreWhole
  PROVE  Spec => []WaitsForLandedRoll
<1>1. TypeInv /\ LandedInv /\ WaitInv => WaitsForLandedRoll
  <2> SUFFICES ASSUME TypeInv, LandedInv, WaitInv,
                      pc = "run", fn = F_WAIT_FOR_LAND
               PROVE  Landed(roll.id) /\ pin >= cls[roll.id].to
    BY DEF WaitsForLandedRoll, Landed
  <2>1. HasRoll
    BY DEF TypeInv, FunctionHasItsRoll, NeedsRoll
  <2>2. Landed(roll.id) /\ roll.id \in CLs
    BY <2>1, RollNames DEF WaitInv, RollLanded
  <2> QED BY <2>2 DEF LandedInv
<1>2. Init => LandedInv
  BY DEF Init, LandedInv, Landed, UnusedCL
<1>3. TypeInv /\ LandInv /\ BaseInv /\ ChangesSomething /\ [Next]_vars =>
        BaseInv' /\ ChangesSomething'
  BY NextBaseInv, StillChangesSomething
<1>4. TypeInv /\ OpenRollInv /\ ChangesSomething /\ LandedInv /\ [Next]_vars =>
        LandedInv'
  BY NextLandedInv
<1> QED
  BY <1>1, <1>2, <1>3, <1>4, InitTypeInv, NextTypeInv, InitOpenRollInv,
    NextOpenRollInv, InitLandInv, NextLandInv, InitWaitInv, NextWaitInv,
    InitBaseInv, PTL
  DEF Spec

(***************************************************************************)
(* The vote on the CL of a dry run, if at most the writes of the state     *)
(* fail: CLs are queued by transitions out of the dry-run states, and      *)
(* taken out of the queue by those into them.                              *)
(***************************************************************************)

NoneQueued == \A i \in OpenCLs : cls[i].label # 2

\* The CL is back in the queue, and the state will follow.
Requeued == pc \in {"sync", "commit"} /\ fn \in CqFuncs

\* The functions which lead into the dry-run states from outside.
IntoDryRun == {F_UPLOAD_DRY_RUN, F_SWITCH_TO_DRY_RUN}

\* In a dry-run state, and on the way into one once the CL is modified,
\* nothing is queued for submission.
LabelInv ==
  /\ state \in DryRunRollStates /\ ~Requeued => NoneQueued
  /\ pc \in {"upload", "sync", "repos", "commit"} /\ dest \in DryRunRollStates =>
       NoneQueued
  /\ pc = "run" /\ dest \in DryRunRollStates /\ fn \notin IntoDryRun =>
       state \in DryRunRollStates
  /\ Uploads => state \notin DryRunRollStates /\ fn \in UploadFuncs
  /\ pc \in {"run", "sync", "commit"} /\ fn \in CqFuncs =>
       dest \notin DryRunRollStates
  /\ Uploads /\ fn = F_UPLOAD_ROLL => dest \notin DryRunRollStates
  /\ pc = "repos" => fn \notin CqFuncs
  /\ pc = "sync" /\ err => ~IsOpen(roll.id)
  /\ pc # "down"

\* How the table leads into the dry-run states.
LEMMA DryRunInTable ==
  ASSUME NEW s, NEW d \in DryRunRollStates, NEW f, <<s, d, f>> \in Transitions
  PROVE  /\ f \notin CqFuncs /\ f # F_UPLOAD_ROLL
         /\ f \notin IntoDryRun => s \in DryRunRollStates
  BY DEF Transitions, StoppedTransitions, NormalTransitions,
    DryRunTransitions, DryRunRollStates, CqFuncs, IntoDryRun,
    F_UPLOAD_DRY_RUN, F_SWITCH_TO_DRY_RUN, F_UPLOAD_ROLL,
    F_SWITCH_TO_NORMAL, F_RETRY_FAILED_NORMAL, S_NORMAL_IDLE, S_NORMAL_ACTIVE,
    S_NORMAL_SUCCESS, S_NORMAL_SUCCESS_THROTTLED, S_NORMAL_FAILURE,
    S_NORMAL_FAILURE_THROTTLED, S_NORMAL_SAFETY_THROTTLED,
    S_NORMAL_WAIT_FOR_WINDOW, S_DRY_RUN_IDLE, S_DRY_RUN_ACTIVE,
    S_DRY_RUN_SUCCESS, S_DRY_RUN_SUCCESS_LEAVING_OPEN, S_DRY_RUN_FAILURE,
    S_DRY_RUN_FAILURE_THROTTLED, S_DRY_RUN_SAFETY_THROTTLED, S_STOPPED,
    S_CURRENT_ROLL_MISSING, F_NOOP, F_UPDATE_REPOS, F_UPDATE_ROLL,
    F_CLOSE_FAILED, F_CLOSE_STOPPED, F_CLOSE_DRY_RUN_FAILED,
    F_CLOSE_DRY_RUN_OUTDATED, F_WAIT_FOR_LAND, F_RETRY_FAILED_DRY_RUN,
    F_NOTIFY_FAILURE_THROTTLE, F_NOTIFY_SAFETY_THROTTLE,
    F_ERROR_CURRENT_ROLL_MISSING

\* A roll is looked after in the dry-run states, and they upload nothing.
LEMMA DryRunStatesAreLive == DryRunRollStates \subseteq LiveStates
  BY DEF DryRunRollStates, LiveStates, RollStates, S_NORMAL_ACTIVE,
    S_NORMAL_SUCCESS, S_NORMAL_FAILURE, S_NORMAL_FAILURE_THROTTLED,
    S_DRY_RUN_ACTIVE, S_DRY_RUN_SUCCESS, S_DRY_RUN_SUCCESS_LEAVING_OPEN,
    S_DRY_RUN_FAILURE, S_DRY_RUN_FAILURE_THROTTLED

\* Only UploadNewRoll and the functions which put a roll into the commit
\* queue vote for submission.
Unqueues ==
  \A i \in CLs : IsOpen(i)' /\ cls'[i].label = 2 =>
    IsOpen(i) /\ cls[i].label = 2

\* Then nothing is queued if nothing was.
LEMMA NoneQueuedKept == ASSUME Unqueues, NoneQueued PROVE NoneQueued'
  BY DEF Unqueues, NoneQueued, OpenCLs, IsOpen

\* Whatever people and the commit queue do votes for no submission.
LEMMA ServerUnqueues ==
  ASSUME TypeInv, UserStep \/ TimeStep \/ ServerStep PROVE Unqueues
<1> USE DEF server, stored, Local
<1>1. ASSUME UserStep \/ TimeStep \/ NewRevision \/ OtherRollLands
      PROVE  Unqueues
  <2>1. UNCHANGED cls
    BY <1>1
    DEF UserStep, SetMode, SetStrategy, Unthrottle, TimeStep, WindowChange,
      ThrottleExpires, NewRevision, OtherRollLands
  <2> QED BY <2>1 DEF Unqueues, IsOpen
<1>2. ASSUME NEW j \in CLs,
             \/ DryRunFinishes(j) \/ CqFails(j) \/ CqLands(j)
             \/ HumanLands(j) \/ HumanAbandons(j) \/ HumanDequeues(j)
      PROVE  Unqueues
  <2>1. PICK m : cls' = [cls EXCEPT ![j] = m] /\ m.label = 0
    <3>1. cls \in [CLs -> CLRecords] /\ cls[j] \in CLRecords
      BY DEF TypeInv, TypeOK
    <3>2. PICK c \in CLRecords : c = cls[j]
      BY <3>1
    <3>3. CASE DryRunFinishes(j) \/ CqFails(j) \/ HumanDequeues(j)
      <4>1. PICK tries : Dequeue(j, tries)
        BY <3>3 DEF DryRunFinishes, CqFails, HumanDequeues
      <4>2. PICK m : m = [c EXCEPT !.label = 0, !.tries = tries]
        OBVIOUS
      <4>3. cls' = [cls EXCEPT ![j] = m]
        BY <3>1, <3>2, <4>1, <4>2 DEF Dequeue
      <4>4. m.label = 0
        BY <4>2 DEF CLRecords
      <4> QED BY <4>3, <4>4
    <3>4. CASE CqLands(j) \/ HumanLands(j) \/ HumanAbandons(j)
      <4>1. PICK status : cls' = [cls EXCEPT ![j] = ClosedAs(cls[j], status)]
        BY <3>4 DEF CqLands, HumanLands, HumanAbandons, Land
      <4>2. PICK m : m = ClosedAs(c, status)
        OBVIOUS
      <4>3. m.label = 0
        BY <4>2 DEF ClosedAs, CLRecords
      <4> QED BY <3>2, <4>1, <4>2, <4>3
    <3> QED BY <1>2, <3>3, <3>4
  <2> QED BY <2>1 DEF Unqueues, IsOpen, TypeInv, TypeOK
<1> QED BY <1>1, <1>2 DEF ServerStep


\* The kinds of functions have none in common.
LEMMA FuncsDiffer ==
  /\ CqFuncs \cap (QuietFuncs \cup UploadFuncs \cup DryRunFuncs
                     \cup CloseFuncs \cup IntoDryRun) = {}
  /\ IntoDryRun \cap QuietFuncs = {}
  /\ {F_UPDATE_ROLL, F_UPDATE_REPOS, F_WAIT_FOR_LAND}
       \cap (CqFuncs \cup IntoDryRun) = {}
  BY DEF CqFuncs, QuietFuncs, UploadFuncs, DryRunFuncs, CloseFuncs,
    IntoDryRun, F_UPLOAD_DRY_RUN, F_SWITCH_TO_DRY_RUN, F_UPLOAD_ROLL,
    F_SWITCH_TO_NORMAL, F_RETRY_FAILED_NORMAL, F_NOOP, F_UPDATE_REPOS,
    F_UPDATE_ROLL, F_CLOSE_FAILED, F_CLOSE_STOPPED, F_CLOSE_DRY_RUN_FAILED,
    F_CLOSE_DRY_RUN_OUTDATED, F_WAIT_FOR_LAND, F_RETRY_FAILED_DRY_RUN,
    F_NOTIFY_FAILURE_THROTTLE, F_NOTIFY_SAFETY_THROTTLE,
    F_ERROR_CURRENT_ROLL_MISSING

\* The end of a tick whose function has not put the roll into the queue.
LEMMA LabelEndTick ==
  ASSUME LabelInv, ~Requeued, UNCHANGED state, NoneQueued => NoneQueued',
         EndTick
  PROVE  LabelInv'
<1>1. pc' = "sleep"
  BY DEF EndTick
<1> QED BY <1>1 DEF LabelInv, Uploads

\* The table leads into the dry-run states from the dry-run states, or by
\* IntoDryRun.
LEMMA ChooseLabelInv ==
  ASSUME TypeInv, LabelInv, ChooseTransition PROVE LabelInv'
<1> DEFINE d == GetNext(state, ViewOf(count'))
           f == GetTransitionName(state, d)
<1>1. UNCHANGED <<cls, state>> /\ pc = "next"
  BY DEF ChooseTransition, server
<1>2. ~Requeued /\ (NoneQueued => NoneQueued')
  BY <1>1 DEF Requeued, NoneQueued, OpenCLs, IsOpen
<1>3. CASE n = 0 \/ f = F_NOOP
  <2>1. pc' = "run" /\ dest' = d /\ fn' = f
    BY <1>3 DEF ChooseTransition
  <2>2. state \in States /\ ViewOf(count').mode \in ValidModes
    BY ViewFields DEF TypeInv, TypeOK
  <2>3. <<state, d, f>> \in Transitions
    BY <2>2, NextTransitionType
  <2>4. f \in UploadFuncs => state \notin DryRunRollStates
    BY <2>2, UploadsFromQuiet, DryRunStatesAreLive
  <2>5. d \in DryRunRollStates =>
          /\ f \notin CqFuncs /\ f # F_UPLOAD_ROLL
          /\ f \notin IntoDryRun => state \in DryRunRollStates
    BY <2>3, DryRunInTable
  <2> HIDE DEF d, f
  <2> QED BY <1>1, <1>2, <2>1, <2>4, <2>5 DEF LabelInv, Uploads
<1>4. CASE ~(n = 0 \/ f = F_NOOP)
  BY <1>1, <1>2, <1>4, LabelEndTick DEF ChooseTransition
<1> QED BY <1>3, <1>4

\* The state follows the CL.
LEMMA CommitLabelInv ==
  ASSUME LabelInv, Commit \/ CommitNotPersisted PROVE LabelInv'
<1>1. /\ UNCHANGED cls /\ state' = dest /\ pc' \in {"next", "sleep"}
      /\ pc = "commit" \/ (pc = "run" /\ fn \in QuietFuncs)
  BY DEF Commit, CommitNotPersisted, Committable, EndTick, server
<1>2. dest \in DryRunRollStates => NoneQueued
  BY <1>1, FuncsDiffer DEF LabelInv, Requeued
<1>3. NoneQueued => NoneQueued'
  BY <1>1 DEF NoneQueued, OpenCLs, IsOpen
<1> QED BY <1>1, <1>2, <1>3 DEF LabelInv, Uploads

\* The steps which change neither the CLs nor the state.
LEMMA LocalLabelInv ==
  ASSUME LabelInv,
         \/ TickStart \/ ResetUnthrottle \/ UpdateRepos \/ WaitForLand
         \/ UpdateRoll
  PROVE  LabelInv'
<1>1. UNCHANGED <<cls, state>>
  BY DEF TickStart, ResetUnthrottle, UpdateRepos, WaitForLand, UpdateRoll,
    server
<1>2. /\ NoneQueued => NoneQueued'
      /\ ~Requeued
  BY <1>1
  DEF NoneQueued, OpenCLs, IsOpen, Requeued, TickStart, ResetUnthrottle,
    UpdateRepos, WaitForLand, UpdateRoll
<1>3. CASE EndTick
  BY <1>1, <1>2, <1>3, LabelEndTick
<1>4. CASE TickStart \/ ResetUnthrottle
  <2>1. pc' \in {"flag", "next"}
    BY <1>4 DEF TickStart, ResetUnthrottle, Refresh
  <2> QED BY <1>1, <1>2, <2>1 DEF LabelInv, Uploads
<1>5. CASE (UpdateRepos \/ WaitForLand \/ UpdateRoll) /\ ~EndTick
  <2>1. /\ UNCHANGED <<dest, fn, err>> /\ pc' \in {"run", "repos", "commit"}
        /\ pc' = "run" => pc = "run"
        /\ \/ pc = "repos"
           \/ pc = "run" /\ fn \in {F_UPDATE_ROLL, F_UPDATE_REPOS,
                                    F_WAIT_FOR_LAND}
    BY <1>5 DEF UpdateRepos, WaitForLand, UpdateRoll, call
  <2>2. fn \notin CqFuncs
    BY <2>1, FuncsDiffer DEF LabelInv
  <2>3. dest \in DryRunRollStates => NoneQueued
    BY <1>2, <2>1, FuncsDiffer DEF LabelInv
  <2> QED BY <1>1, <1>2, <2>1, <2>2, <2>3 DEF LabelInv, Uploads
<1> QED BY <1>3, <1>4, <1>5

\* A modification which is refused finds the only open CL closed.
LEMMA ModifyLabelInv ==
  ASSUME TypeInv, OpenRollInv, LabelInv, Modify, Faults \subseteq {"persist"}
  PROVE  LabelInv'
<1>1. /\ pc = "run" /\ fn \in ModifyFuncs /\ pc' = "sync"
      /\ UNCHANGED <<state, dest, fn>>
      /\ roll' = RollAfterModify(fn, ~err')
  BY DEF Modify
<1>2. roll \in Rolls /\ roll.id \in CLs /\ cls \in [CLs -> CLRecords]
  BY <1>1, RollNames
  DEF TypeInv, TypeOK, FunctionHasItsRoll, NeedsRoll, ModifyFuncs
<1>3. roll'.id = roll.id
  BY <1>1, <1>2, AfterModifyType
<1>4. \A i \in OpenCLs : i = roll.id
  BY <1>1, NotUploading DEF OpenRollInv, IsTracked
<1>5. \/ IsOpen(roll.id) /\ err' = FALSE
           /\ cls' = [cls EXCEPT ![roll.id] = ModifiedCL(fn, @)]
      \/ ~IsOpen(roll.id) /\ err' = TRUE /\ UNCHANGED cls
  BY DEF Modify
<1>6. err' => ~IsOpen(roll.id)'
  BY <1>3, <1>5 DEF IsOpen
<1>7. ASSUME fn \notin CqFuncs PROVE NoneQueued'
  <2>1. CASE ~IsOpen(roll.id)
    BY <1>4, <1>5, <2>1 DEF NoneQueued, OpenCLs, IsOpen
  <2>2. CASE IsOpen(roll.id)
    <3>1. PICK c \in CLRecords : c = cls[roll.id]
      BY <1>2
    <3>2. PICK m : m = ModifiedCL(fn, c)
      OBVIOUS
    <3>3. m.label # 2
      <4>1. fn \in CloseFuncs \/ fn \in DryRunFuncs
        BY <1>1, <1>7 DEF ModifyFuncs
      <4> QED BY <3>2, <4>1 DEF ModifiedCL, ClosedAs, CLRecords
    <3>4. \A i \in CLs : cls'[i] = IF i = roll.id THEN m ELSE cls[i]
      BY <1>2, <1>5, <2>2, <3>1, <3>2
    <3> QED BY <1>4, <3>3, <3>4 DEF NoneQueued, OpenCLs, IsOpen
  <2> QED BY <2>1, <2>2
<1> QED
  BY <1>1, <1>6, <1>7 DEF LabelInv, Uploads, Requeued

\* Then the transition is committed, whatever became of the CL.
LEMMA SyncLabelInv ==
  ASSUME LabelInv, SyncModified PROVE LabelInv'
<1>1. /\ pc = "sync" /\ pc' = "commit"
      /\ UNCHANGED <<cls, state, dest, fn>>
  BY DEF SyncModified, LabelInv, server
<1>2. NoneQueued => NoneQueued'
  BY <1>1 DEF NoneQueued, OpenCLs, IsOpen
<1> QED BY <1>1, <1>2 DEF LabelInv, Uploads, Requeued

\* The new CL is the only open one.
LEMMA CreateLabelInv ==
  ASSUME TypeInv, OpenRollInv, LabelInv, CreateNewRoll PROVE LabelInv'
<1>1. /\ pc = "run" /\ fn \in UploadFuncs /\ pc' = "upload"
      /\ UNCHANGED <<state, dest, fn>>
  BY DEF CreateNewRoll, view
<1>2. state \notin DryRunRollStates
  BY <1>1 DEF LabelInv, Uploads
<1>3. OpenCLs = {}
  BY <1>1, NotUploading DEF OpenRollInv, UploadInv, IsTracked
<1>4. PICK i \in FreeCLs :
        /\ cls'[i].label = (IF fn = F_UPLOAD_DRY_RUN THEN 1 ELSE 2)
        /\ \A j \in CLs : j # i => cls'[j] = cls[j]
  BY CreatedCL
<1>5. ASSUME dest \in DryRunRollStates PROVE NoneQueued'
  <2>1. fn = F_UPLOAD_DRY_RUN
    BY <1>1, <1>5 DEF LabelInv, Uploads, UploadFuncs
  <2>2. ASSUME NEW j \in CLs, IsOpen(j)' PROVE cls'[j].label # 2
    BY <1>3, <1>4, <2>1, <2>2 DEF OpenCLs, IsOpen
  <2> QED BY <2>2 DEF NoneQueued, OpenCLs
<1> QED BY <1>1, <1>2, <1>5, FuncsDiffer DEF LabelInv, Uploads

\* The upload finds nothing to do: there is no open CL at all.
LEMMA NothingToCommitLabelInv ==
  ASSUME OpenRollInv, LabelInv, NothingToCommit PROVE LabelInv'
<1>1. /\ pc = "run" /\ fn \in UploadFuncs /\ pc' = "repos"
      /\ UNCHANGED <<cls, state, dest, fn>>
  BY DEF NothingToCommit, server
<1>2. state \notin DryRunRollStates
  BY <1>1 DEF LabelInv, Uploads
<1>3. OpenCLs = {}
  BY <1>1, NotUploading DEF OpenRollInv, UploadInv, IsTracked
<1>4. NoneQueued'
  BY <1>1, <1>3 DEF NoneQueued, OpenCLs, IsOpen
<1> QED BY <1>1, <1>2, <1>4, FuncsDiffer DEF LabelInv, Uploads

\* Recording it changes no open CL.
LEMMA InsertLabelInv ==
  ASSUME LabelInv, InsertIntoDB PROVE LabelInv'
<1>1. pc = "upload" /\ pc' = "commit" /\ UNCHANGED <<state, dest, fn>>
  BY DEF InsertIntoDB, call
<1>2. state \notin DryRunRollStates /\ fn \in UploadFuncs
  BY <1>1 DEF LabelInv, Uploads
<1>3. Unqueues
  BY DEF Unqueues, InsertIntoDB, IsOpen, UnusedCL
<1> QED
  BY <1>1, <1>2, <1>3, NoneQueuedKept, FuncsDiffer DEF LabelInv, Uploads

\* Requests, time and the server.
LEMMA OutsideLabelInv ==
  ASSUME TypeInv, LabelInv, OpensNothing, Unqueues, UNCHANGED process
  PROVE  LabelInv'
<1> USE DEF process, view, call
<1>1. NoneQueued => NoneQueued'
  BY NoneQueuedKept
<1>2. pc = "sync" /\ err => ~IsOpen(roll.id)'
  BY RollNames DEF TypeInv, LabelInv, OpensNothing, IsOpen
<1> QED BY <1>1, <1>2 DEF LabelInv, Uploads, Requeued

\* Every step preserves the invariant, if at most the writes of the state
\* fail.
LEMMA NextLabelInv ==
  ASSUME Faults \subseteq {"persist"}
  PROVE  TypeInv /\ OpenRollInv /\ LabelInv /\ [Next]_vars => LabelInv'
<1> SUFFICES ASSUME TypeInv, OpenRollInv, LabelInv, [Next]_vars
             PROVE  LabelInv'
  OBVIOUS
<1>1. CASE TickStep
  BY <1>1, ChooseLabelInv, CommitLabelInv, LocalLabelInv, ModifyLabelInv,
    SyncLabelInv, CreateLabelInv, NothingToCommitLabelInv, InsertLabelInv
  DEF TickStep
<1>2. CASE FaultStep
  <2>1. CommitNotPersisted
    BY <1>2
    DEF FaultStep, UnthrottleFails, ResetUnthrottleFails, RefreshFails,
      GetNextFails, CreateNewRollFails, InsertIntoDBFails, UpdateFails,
      UpdateReposFails, Crash
  <2> QED BY <2>1, CommitLabelInv
<1>3. CASE Restart
  BY <1>3 DEF Restart, LabelInv
<1>4. CASE UserStep \/ TimeStep \/ ServerStep
  <2>1. UNCHANGED process
    BY <1>4
    DEF UserStep, SetMode, SetStrategy, Unthrottle, TimeStep, WindowChange,
      ThrottleExpires, ServerStep, NewRevision, OtherRollLands,
      DryRunFinishes, CqFails, CqLands, HumanLands, HumanAbandons,
      HumanDequeues, Dequeue, Land, Local
  <2> QED
    BY <1>4, <2>1, OutsideOpensNothing, ServerUnqueues, OutsideLabelInv
    DEF TypeInv
<1>5. CASE UNCHANGED vars
  <2>1. UNCHANGED process /\ OpensNothing /\ Unqueues
    BY <1>5 DEF vars, server, OpensNothing, Unqueues, IsOpen
  <2> QED BY <2>1, OutsideLabelInv
<1> QED BY <1>1, <1>2, <1>3, <1>4, <1>5 DEF Next

\* If at most the writes of the state to GCS fail, no roll sits in the commit
\* queue for submission between two ticks of a dry run, in whatever order
\* modes change, votes are removed and rolls are closed by people.
THEOREM DryRunsAreNotQueued ==
  ASSUME Faults \subseteq {"persist"} PROVE Spec => []DryRunIsNotQueued
<1>1. "window" \notin Faults
  OBVIOUS
<1>2. Init => LabelInv
  BY DEF Init, LabelInv, Uploads, DryRunRollStates, S_NORMAL_IDLE,
    S_DRY_RUN_ACTIVE, S_DRY_RUN_SUCCESS, S_DRY_RUN_SUCCESS_LEAVING_OPEN,
    S_DRY_RUN_FAILURE, S_DRY_RUN_FAILURE_THROTTLED
<1>3. LabelInv => DryRunIsNotQueued
  BY DEF LabelInv, Requeued, NoneQueued, DryRunIsNotQueued
<1> QED
  BY <1>1, <1>2, <1>3, InitTypeInv, NextTypeInv, InitOpenRollInv,
    NextOpenRollInv, NextLabelInv, PTL
  DEF Spec

(***************************************************************************)
(* The abstract roller: AutoRoll implements RollSlot, if nothing fails in  *)
(* the upload window.                                                      *)
(***************************************************************************)

\* All revisions exist: the parent, what the process would roll and what is
\* being rolled are not ahead of the child.
RevsExist ==
  /\ pin <= tip
  /\ known.next <= tip
  /\ \A i \in OpenCLs : cls[i].to <= tip

\* The child grows, and the parent stays behind it.
LEMMA TipGrows ==
  ASSUME TypeInv, RevsExist, [Next]_vars PROVE tip' >= tip /\ pin' <= tip'
<1>1. tip \in Int /\ pin \in Int /\ pin <= tip
  BY DEF TypeInv, TypeOK, Revs, RevsExist
<1>2. ReposMove
  <2>1. CASE CreateNewRoll
    BY <2>1 DEF CreateNewRoll, ReposMove
  <2> QED BY <2>1, StepMovesCLs DEF MovesCLs
<1>3. CASE NewRevision
  BY <1>1, <1>3 DEF NewRevision
<1>4. CASE OtherRollLands
  BY <1>1, <1>4 DEF OtherRollLands, NotRolled
<1>5. ASSUME NEW i \in OpenCLs, Land(i) PROVE tip' >= tip /\ pin' <= tip'
  BY <1>1, <1>5 DEF Land, RevsExist
<1> QED BY <1>1, <1>2, <1>3, <1>4, <1>5 DEF ReposMove

\* A strategy chooses an existing revision.
LEMMA NextRevExists ==
  ASSUME NEW s \in Strategy, TypeOK, pin <= tip
  PROVE  SyncedRevs(s).last = pin /\ SyncedRevs(s).next <= tip
<1>1. pin \in Nat /\ tip \in Nat
  BY DEF TypeOK, Revs
<1>2. s \in ValidStrategies
  BY StrategyAssumption
<1>3. GetNextRollRev(s, pin, tip)
        \in Valid(NotRolled(pin, tip)) \cup Valid(OldestBatch(pin, tip))
              \cup {pin}
  BY <1>2, ChosenRev
  DEF GetNextRollRev, ValidStrategies, ROLL_STRATEGY_BATCH,
    ROLL_STRATEGY_N_BATCH, ROLL_STRATEGY_SINGLE
<1>4. GetNextRollRev(s, pin, tip) <= tip
  BY <1>1, <1>3 DEF Valid, OldestBatch, NotRolled
<1> QED BY <1>4 DEF SyncedRevs

\* No revision disappears.
LEMMA NextRevsExist ==
  ASSUME TypeInv, RevsExist, [Next]_vars PROVE RevsExist'
<1>1. pin \in Nat /\ tip \in Nat /\ tip' \in Nat /\ known.next \in Nat
  BY NextTypeInv DEF TypeInv, TypeOK, Revs
<1>2. tip' >= tip /\ pin' <= tip'
  BY TipGrows
<1>3. known'.next <= tip'
  <2>1. CASE known' = known
    BY <1>1, <1>2, <2>1 DEF RevsExist
  <2>2. ASSUME NEW s \in Strategy, known' = SyncedRevs(s)
        PROVE  known'.next <= tip'
    <3>1. SyncedRevs(s).next <= tip /\ SyncedRevs(s).next \in Nat
      BY NextRevExists, SyncedRevsType DEF TypeInv, TypeOK, RevsExist, Revs
    <3> QED BY <1>1, <1>2, <2>2, <3>1
  <2>3. CASE known' = [last |-> 0, tip |-> 0, next |-> 0]
    BY <1>1, <2>3
  <2> QED BY <2>1, <2>2, <2>3, KnownMoves
<1>4. ASSUME NEW i \in OpenCLs' PROVE cls'[i].to <= tip'
  <2>1. CASE CreateNewRoll /\ cls'[i].to = known.next
    BY <2>1 DEF CreateNewRoll, RevsExist
  <2>2. CASE i \in OpenCLs /\ cls'[i].to = cls[i].to
    <3>1. cls[i].to \in Nat /\ cls[i].to <= tip
      BY <2>2 DEF RevsExist, OpenCLs, TypeInv, TypeOK, CLRecords, Revs
    <3> QED BY <1>1, <1>2, <2>2, <3>1
  <2> QED BY <1>4, <2>1, <2>2, OpenCLsKeepRevs
<1> QED BY <1>2, <1>3, <1>4 DEF RevsExist

\* In the beginning everything is at the first revision.
LEMMA InitRevsExist == Init => RevsExist
<1> SUFFICES ASSUME Init PROVE RevsExist
  OBVIOUS
<1>1. known = SyncedRevs(dbStrategy) /\ dbStrategy \in Strategy /\ TypeOK
        /\ pin = 0 /\ tip = 0
  BY InitTypeInv DEF Init, TypeInv
<1>2. known.next <= tip
  BY <1>1, NextRevExists
<1>3. \A i \in CLs : cls[i].status = "abandoned"
  BY DEF Init, UnusedCL
<1> QED BY <1>1, <1>2, <1>3 DEF RevsExist, OpenCLs, IsOpen

\* The slot, by its members.
RollOf(i) == [name |-> i, from |-> cls[i].from, to |-> cls[i].to]
OpenRolls == {RollOf(i) : i \in OpenCLs}

\* A CL is created while none is open: the slot is filled.
LEMMA CreateFillsSlot ==
  ASSUME TypeInv, OpenRollInv, LandInv, RevsExist, CreateNewRoll
  PROVE  Slot!Open
<1>1. PICK j \in FreeCLs :
        /\ cls'[j].status = "open"
        /\ cls'[j].from = RollBase /\ cls'[j].to = known.next
        /\ \A i \in CLs : i # j => cls'[i] = cls[i]
  BY CreatedCL
<1>2. OpenCLs = {}
  <2>1. pc = "run" /\ fn \in UploadFuncs
    BY DEF CreateNewRoll
  <2>2. uploaded = NoCL /\ state \notin LiveStates
    BY <2>1, NotUploading DEF OpenRollInv, UploadInv
  <2> QED BY <2>1, <2>2 DEF OpenRollInv, IsTracked
<1>3. OpenCLs' = {j} /\ j \in CLs
  BY <1>1, <1>2 DEF OpenCLs, IsOpen, FreeCLs
<1>4. OpenRolls = {} /\ OpenRolls' =
        {[name |-> j, from |-> RollBase, to |-> known.next]}
  BY <1>1, <1>2, <1>3 DEF OpenRolls, RollOf
<1>5. RollBase \in {pin, base} /\ known.next \in known.last + 1 .. tip
  <2>1. known.last \in Nat /\ known.next \in Nat /\ tip \in Nat
    BY DEF TypeInv, TypeOK, Revs
  <2>2. known.next <= tip /\ known.last <= known.next
          /\ known.last # known.next
    BY DEF RevsExist, SomethingToRoll, LandInv, KnownInv, CreateNewRoll
  <2> QED BY <2>1, <2>2 DEF RollBase
<1>6. UNCHANGED <<tip, pin, known, base>>
  BY DEF CreateNewRoll, view
<1> QED
  BY <1>3, <1>4, <1>5, <1>6 DEF Slot!Open, Slot!known, OpenRolls, RollOf

\* Every other step leaves the roll in the slot as it is, or takes it out.
LEMMA SlotKept ==
  ASSUME TypeInv, OpenRollInv, [Next]_vars, ~CreateNewRoll
  PROVE  \/ OpenRolls' = OpenRolls
         \/ \E r \in OpenRolls : OpenRolls' = OpenRolls \ {r}
<1>1. \A i \in OpenCLs' : i \in OpenCLs /\ RollOf(i)' = RollOf(i)
  <2> SUFFICES ASSUME NEW i \in OpenCLs'
               PROVE  i \in OpenCLs /\ RollOf(i)' = RollOf(i)
    OBVIOUS
  <2>1. i \in CLs /\ cls'[i].status = "open"
    BY DEF OpenCLs, IsOpen
  <2>2. CLStep(i)
    BY <2>1, StepMovesCLs DEF MovesCLs
  <2> QED
    BY <2>1, <2>2
    DEF CLStep, CLMoves, CLForgotten, UnusedCL, IsOpen, OpenCLs, RollOf
<1>2. \A i, j \in OpenCLs : i = j
  BY DEF OpenRollInv, IsTracked
<1>3. CASE OpenCLs' = OpenCLs
  BY <1>1, <1>3 DEF OpenRolls
<1>4. CASE OpenCLs' # OpenCLs
  <2>1. PICK i \in OpenCLs : i \notin OpenCLs'
    BY <1>1, <1>4
  <2>2. OpenCLs = {i} /\ OpenCLs' = {}
    BY <1>1, <1>2, <2>1
  <2>3. OpenRolls = {RollOf(i)} /\ OpenRolls' = {}
    BY <2>2 DEF OpenRolls
  <2> QED BY <2>3
<1> QED BY <1>3, <1>4

\* A roll which lands leaves the slot.
LEMMA LandEmptiesSlot ==
  ASSUME TypeInv, OpenRollInv, NEW i \in OpenCLs, Land(i)
  PROVE  Slot!Land \/ Slot!Abandon
<1>1. cls \in [CLs -> CLRecords] /\ i \in CLs
  BY DEF TypeInv, TypeOK, OpenCLs
<1>2. /\ cls' = [cls EXCEPT ![i] = ClosedAs(cls[i], "merged")]
      /\ UNCHANGED <<tip, known, base>>
      /\ \/ cls[i].from = pin /\ pin' = cls[i].to
         \/ pin' = pin
  BY DEF Land, Local, process, view
<1>3. cls'[i].status = "merged" /\ \A j \in CLs : j # i => cls'[j] = cls[j]
  <2>1. PICK c \in CLRecords : c = cls[i]
    BY <1>1
  <2>2. PICK m : m = ClosedAs(c, "merged")
    OBVIOUS
  <2>3. m.status = "merged"
    BY <2>2 DEF ClosedAs, CLRecords
  <2> QED BY <1>1, <1>2, <2>1, <2>2, <2>3
<1>4. OpenCLs = {i} /\ OpenCLs' = {}
  <2>1. OpenCLs = {i}
    BY DEF OpenRollInv, IsTracked
  <2> QED BY <1>3, <2>1 DEF OpenCLs, IsOpen
<1>5. OpenRolls = {RollOf(i)} /\ OpenRolls' = {}
  BY <1>4 DEF OpenRolls
<1>6. CASE cls[i].from = pin /\ pin' = cls[i].to
  <2>1. RollOf(i).from = pin /\ pin' = RollOf(i).to
    BY <1>6 DEF RollOf
  <2> QED
    BY <1>2, <1>5, <2>1 DEF Slot!Land, Slot!known, OpenRolls, RollOf
<1>7. CASE pin' = pin
  BY <1>2, <1>5, <1>7 DEF Slot!Abandon, Slot!known, OpenRolls, RollOf
<1> QED BY <1>2, <1>6, <1>7

\* Every step of the roller and of its surroundings is one of the slot, or
\* none at all.
LEMMA SlotStep ==
  ASSUME TypeInv, OpenRollInv, LandInv, RevsExist, [Next]_vars
  PROVE  [Slot!SlotNext]_<<Slot!repos, Slot!known>>
<1> USE DEF Slot!SlotNext, Slot!repos, Slot!known
<1>1. CASE CreateNewRoll
  BY <1>1, CreateFillsSlot
<1>2. ASSUME NEW i \in OpenCLs, Land(i) PROVE Slot!SlotNext
  BY <1>2, LandEmptiesSlot
<1>3. CASE NewRevision
  BY <1>3
  DEF NewRevision, Local, process, view, Slot!ChildGrows, OpenCLs, IsOpen
<1>4. CASE OtherRollLands
  BY <1>4
  DEF OtherRollLands, NotRolled, Local, process, view, Slot!ParentIsMoved,
    OpenCLs, IsOpen
<1>5. CASE UNCHANGED server /\ ~UNCHANGED <<known, base>>
  <2>1. base' \in {base, pin, 0} /\ known'.last \in {known.last, pin, 0}
    BY <1>5, KnownMoves DEF SyncedRevs
  <2>2. OpenRolls' = OpenRolls
    BY <1>5 DEF OpenRolls, RollOf, OpenCLs, IsOpen, server
  <2> QED
    BY <1>5, <2>1, <2>2 DEF Slot!Look, OpenRolls, RollOf, server
<1>6. CASE ~CreateNewRoll /\ UNCHANGED <<tip, pin, known, base>>
  <2>1. CASE OpenRolls' = OpenRolls
    BY <1>6, <2>1 DEF OpenRolls, RollOf
  <2>2. CASE \E r \in OpenRolls : OpenRolls' = OpenRolls \ {r}
    BY <1>6, <2>2 DEF OpenRolls, RollOf, Slot!Abandon
  <2> QED BY <1>6, <2>1, <2>2, SlotKept
<1>7. \/ CreateNewRoll \/ NewRevision \/ OtherRollLands
      \/ \E i \in OpenCLs : Land(i)
      \/ UNCHANGED <<tip, pin>>
  BY StepMovesCLs DEF MovesCLs, ReposMove
<1> QED BY <1>1, <1>2, <1>3, <1>4, <1>5, <1>6, <1>7, KnownMoves

\* If nothing fails in the upload window, every behaviour of the roller, with
\* its modes, throttles, restarts and other faults and whatever the parent does
\* with the roll, is to the repositories one of RollSlot: UploadNewRoll never
\* opens a roll beside another one, nor one to a revision which does not exist
\* or is not newer than the one the roller last saw in the parent, nor one on
\* anything but the parent as it is or as the roller has got it.
THEOREM ImplementsTheSlot ==
  ASSUME "window" \notin Faults PROVE Spec => RollsOneAtATime
<1>1. Init => Slot!SlotInit
  <2>1. Init => OpenCLs = {}
    BY DEF Init, OpenCLs, IsOpen, UnusedCL
  <2> QED BY <2>1 DEF Init, SyncedRevs, Slot!SlotInit
<1>2. TypeInv /\ OpenRollInv /\ LandInv /\ RevsExist /\ [Next]_vars
        => [Slot!SlotNext]_<<Slot!repos, Slot!known>>
  BY SlotStep
<1>3. TypeInv /\ RevsExist /\ [Next]_vars => RevsExist'
  BY NextRevsExist
<1> QED
  BY <1>1, <1>2, <1>3, InitTypeInv, NextTypeInv, InitOpenRollInv,
     NextOpenRollInv, InitLandInv, NextLandInv, InitRevsExist, PTL
  DEF Spec, RollsOneAtATime, Slot!SlotSpec
=============================================================================
