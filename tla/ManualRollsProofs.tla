--------------------------- MODULE ManualRollsProofs ---------------------------
(***************************************************************************)
(* Proofs about RollSequence and ManualRolls: what the strategies choose,  *)
(* wherever rolls and manual rolls have taken the parent, and how requests *)
(* and their CLs belong together, whatever fails.                          *)
(***************************************************************************)
EXTENDS ManualRolls, TLAPS, FiniteSetTheorems, WellFoundedInduction

(***************************************************************************)
(* The newest and the oldest revision.                                     *)
(***************************************************************************)

\* Among the finite sets which an operation makes of the members of a set
\* there is one which contains no other.
LEMMA SmallestPart ==
  ASSUME NEW S \in SUBSET Nat, IsFiniteSet(S), NEW part,
         part \in [S -> SUBSET S], S # {}
  PROVE  \E m \in S : \A n \in S :
           ~(part[n] \subseteq part[m] /\ part[n] # part[m])
<1> DEFINE R == StrictSubsetOrdering(S)
           F == FiniteSubsetsOf(S)
           T == {part[n] : n \in S}
<1>1. T \subseteq F /\ T # {}
  <2>1. \A U \in SUBSET S : U \in F
    BY FS_Subset DEF FiniteSubsetsOf
  <2>2. \A n \in S : part[n] \in SUBSET S
    OBVIOUS
  <2> QED BY <2>1, <2>2
<1>2. IsWellFoundedOn(R, F)
  BY FS_StrictSubsetOrderingWellFounded
<1>3. \E x \in T : \A y \in T : ~(<<y, x>> \in R)
  <2> HIDE DEF R, F, T
  <2> QED BY <1>1, <1>2, WFMin
<1>4. PICK m \in S : \A n \in S : <<part[n], part[m]>> \notin R
  BY <1>3
<1>5. \A n \in S : part[n] \in SUBSET S /\ part[m] \in SUBSET S
  OBVIOUS
<1>6. ASSUME NEW n \in S, part[n] \subseteq part[m], part[n] # part[m]
      PROVE  <<part[n], part[m]>> \in R
  BY <1>5, <1>6 DEF StrictSubsetOrdering
<1> QED BY <1>4, <1>6

\* So a finite set of revisions which is not empty has a newest one.
LEMMA NewestExists ==
  ASSUME NEW S \in SUBSET Nat, IsFiniteSet(S), S # {}
  PROVE  \E m \in S : \A n \in S : n <= m
<1> DEFINE above == [n \in S |-> {x \in S : x > n}]
<1>1. /\ above \in [S -> SUBSET S]
      /\ \A n, x \in S : x \in above[n] <=> x > n
  OBVIOUS
<1> HIDE DEF above
<1>2. PICK m \in S : \A n \in S :
        ~(above[n] \subseteq above[m] /\ above[n] # above[m])
  BY <1>1, SmallestPart
<1>3. ASSUME NEW n \in S, n > m PROVE FALSE
  <2>1. n \in above[m] /\ n \notin above[n]
    BY <1>1, <1>3
  <2>2. ASSUME NEW x \in above[n] PROVE x \in above[m]
    <3>1. x \in S
      BY <1>1
    <3> QED BY <1>1, <1>3, <3>1
  <2> QED BY <1>2, <2>1, <2>2
<1> QED BY <1>3

\* And an oldest one.
LEMMA OldestExists ==
  ASSUME NEW S \in SUBSET Nat, IsFiniteSet(S), S # {}
  PROVE  \E m \in S : \A n \in S : m <= n
<1> DEFINE below == [n \in S |-> {x \in S : x < n}]
<1>1. /\ below \in [S -> SUBSET S]
      /\ \A n, x \in S : x \in below[n] <=> x < n
  OBVIOUS
<1> HIDE DEF below
<1>2. PICK m \in S : \A n \in S :
        ~(below[n] \subseteq below[m] /\ below[n] # below[m])
  BY <1>1, SmallestPart
<1>3. ASSUME NEW n \in S, n < m PROVE FALSE
  <2>1. n \in below[m] /\ n \notin below[n]
    BY <1>1, <1>3
  <2>2. ASSUME NEW x \in below[n] PROVE x \in below[m]
    <3>1. x \in S
      BY <1>1
    <3> QED BY <1>1, <1>3, <3>1
  <2> QED BY <1>2, <2>1, <2>2
<1> QED BY <1>3

\* The strategies choose from what they are given, and choose something.
LEMMA ChosenRev ==
  ASSUME NEW S \in SUBSET Nat, IsFiniteSet(S), NEW nil
  PROVE  /\ S # {} => Newest(S, nil) \in S /\ Oldest(S, nil) \in S
         /\ S = {} => Newest(S, nil) = nil /\ Oldest(S, nil) = nil
<1>1. ASSUME S # {} PROVE Newest(S, nil) \in S
  <2>1. \E m \in S : \A n \in S : n <= m
    BY <1>1, NewestExists
  <2> QED BY <2>1 DEF Newest
<1>2. ASSUME S # {} PROVE Oldest(S, nil) \in S
  <2>1. \E m \in S : \A n \in S : m <= n
    BY <1>2, OldestExists
  <2> QED BY <2>1 DEF Oldest
<1> QED BY <1>1, <1>2 DEF Newest, Oldest

(***************************************************************************)
(* The invariant.                                                          *)
(***************************************************************************)
RevsOK ==
  /\ strategy \in Strategy
  /\ tip \in Nat /\ parent \in Nat
  /\ known \in [last : Nat, tip : Nat, next : Nat]

RequestRecords ==
  [status : {"none", "pending", "started", "complete"},
   result : {"unknown", "success", "failure"},
   rev : Nat, dryRun : BOOLEAN, cl : Nat]

CLRecords == [req : Requests \cup {"none"}, to : Nat,
              status : {"none", "open", "success", "failure"}]

TypeInv ==
  /\ RevsOK
  /\ req \in [Requests -> RequestRecords]
  /\ cl \in [CLs -> CLRecords]
  /\ faults \in Nat

\* A CL which was made is the CL of a request.
IsMade(i) == cl[i].status # "none" /\ cl[i].req \in Requests

\* The request r names a CL which was made for it.
NamesItsCL(r) ==
  req[r].cl \in CLs /\ IsMade(req[r].cl) /\ cl[req[r].cl].req = r

\* Requests which are started or have succeeded name their CL, and a success
\* is that of the CL.
Link(r) ==
  /\ req[r].status = "started" => NamesItsCL(r)
  /\ req[r].result = "success" =>
       NamesItsCL(r) /\ cl[req[r].cl].status = "success"

LinkInv ==
  /\ \A i \in CLs \ Unused : IsMade(i)
  /\ \A r \in Requests : Link(r)

\* The CLs which were made for a request.
CLsOf(r) == {i \in CLs : cl[i].req = r}

\* Each CL beyond the first has taken a fault, and so has each one of a
\* request which does not know of it yet.
CountInv ==
  /\ \A r \in Requests :
       /\ Cardinality(CLsOf(r)) <= 1 + faults
       /\ req[r].status \in {"none", "pending"} =>
            Cardinality(CLsOf(r)) <= faults
  /\ faults = 0 => \A i \in CLs \ Unused : req[cl[i].req].cl = i

\* The inductive invariant.
Inv == TypeInv /\ LinkInv /\ CountInv

(***************************************************************************)
(* One request of handleManualRolls, by what becomes of its CLs and of     *)
(* itself.                                                                 *)
(***************************************************************************)

NewCL(r) == [req |-> r, to |-> req[r].rev, status |-> "open"]

\* The CL i is made for the request r, which is new.
Makes(r, i) == /\ i \in Unused /\ req[r].status = "pending"
               /\ cl' = [cl EXCEPT ![i] = NewCL(r)]

\* The request names the CL i, which has the given status.
Renews(r, i, status) == req' = [req EXCEPT ![r] = WithResult(@, i, status)]

OneFault == faults' = faults + 1

RequestStep(r) ==
  \/ UNCHANGED cl /\ Fails(r) /\ (UNCHANGED faults \/ OneFault)
  \/ UNCHANGED <<cl, req>> /\ OneFault
  \/ /\ req[r].status = "started" /\ UNCHANGED <<cl, faults>>
     /\ Renews(r, req[r].cl, cl[req[r].cl].status)
  \/ \E i \in CLs :
       /\ Makes(r, i)
       /\ \/ Fails(r) /\ OneFault
          \/ UNCHANGED req /\ OneFault
          \/ Renews(r, i, "open") /\ UNCHANGED faults

\* These are all the steps of handleManualRolls which look at a request.
LEMMA RequestSteps ==
  ASSUME NEW r \in Requests,
         \/ NoRevision(r) \/ AlreadyThere(r) \/ UploadFails(r)
         \/ Create(r) \/ Watch(r)
  PROVE  UNCHANGED revs /\ RequestStep(r)
<1> USE DEF Goes, Returns, Fault, OneFault
<1>1. ASSUME NEW i \in CLs, Upload(r, i), ToUpload(r) PROVE Makes(r, i)
  BY <1>1 DEF Upload, ToUpload, First, Makes, NewCL
<1>2. CASE NoRevision(r) \/ AlreadyThere(r)
  BY <1>2 DEF NoRevision, AlreadyThere, RequestStep
<1>3. CASE UploadFails(r)
  BY <1>1, <1>3 DEF UploadFails, RequestStep
<1>4. CASE Create(r)
  BY <1>1, <1>4 DEF Create, Record, Renews, RequestStep
<1>5. CASE Watch(r)
  BY <1>5 DEF Watch, Record, Renews, RequestStep
<1> QED BY <1>2, <1>3, <1>4, <1>5

\* What a request which is looked at becomes.
LEMMA RequestBecomes ==
  ASSUME NEW r \in Requests, req \in [Requests -> RequestRecords]
  PROVE  /\ Fails(r) =>
              /\ req'[r].status = "complete" /\ req'[r].result = "failure"
              /\ req'[r].cl = req[r].cl
              /\ req'[r].rev = req[r].rev /\ req'[r].dryRun = req[r].dryRun
              /\ \A x \in Requests : x # r => req'[x] = req[x]
              /\ req' \in [Requests -> RequestRecords]
         /\ \A i \in Nat, s \in {"open", "success", "failure"} :
              Renews(r, i, s) =>
                /\ req'[r].status = IF s = "open" THEN "started" ELSE "complete"
                /\ req'[r].result = IF s = "open" THEN "unknown" ELSE s
                /\ req'[r].cl = i
                /\ req'[r].rev = req[r].rev /\ req'[r].dryRun = req[r].dryRun
                /\ \A x \in Requests : x # r => req'[x] = req[x]
                /\ req' \in [Requests -> RequestRecords]
<1>1. PICK q \in RequestRecords : q = req[r]
  OBVIOUS
<1>2. ASSUME Fails(r)
      PROVE  /\ req'[r].status = "complete" /\ req'[r].result = "failure"
             /\ req'[r].cl = req[r].cl
             /\ req'[r].rev = req[r].rev /\ req'[r].dryRun = req[r].dryRun
             /\ \A x \in Requests : x # r => req'[x] = req[x]
             /\ req' \in [Requests -> RequestRecords]
  <2>1. PICK m : m = [q EXCEPT !.status = "complete", !.result = "failure"]
    OBVIOUS
  <2>2. m \in RequestRecords /\ m.status = "complete" /\ m.result = "failure"
          /\ m.cl = q.cl /\ m.rev = q.rev /\ m.dryRun = q.dryRun
    BY <2>1 DEF RequestRecords
  <2>3. req' = [req EXCEPT ![r] = m]
    BY <1>1, <1>2, <2>1 DEF Fails
  <2> QED BY <1>1, <2>2, <2>3
<1>3. ASSUME NEW i \in Nat, NEW s \in {"open", "success", "failure"},
             Renews(r, i, s)
      PROVE  /\ req'[r].status = IF s = "open" THEN "started" ELSE "complete"
             /\ req'[r].result = IF s = "open" THEN "unknown" ELSE s
             /\ req'[r].cl = i
             /\ req'[r].rev = req[r].rev /\ req'[r].dryRun = req[r].dryRun
             /\ \A x \in Requests : x # r => req'[x] = req[x]
             /\ req' \in [Requests -> RequestRecords]
  <2>1. PICK m : m = WithResult(q, i, s)
    OBVIOUS
  <2>2. /\ m \in RequestRecords /\ m.cl = i /\ m.rev = q.rev /\ m.dryRun = q.dryRun
        /\ m.status = IF s = "open" THEN "started" ELSE "complete"
        /\ m.result = IF s = "open" THEN "unknown" ELSE s
    BY <2>1 DEF WithResult, RequestRecords
  <2>3. req' = [req EXCEPT ![r] = m]
    BY <1>1, <1>3, <2>1 DEF Renews
  <2> QED BY <1>1, <2>2, <2>3
<1> QED BY <1>2, <1>3

\* The CL which is made.
LEMMA MadeCL ==
  ASSUME TypeInv, NEW r \in Requests, NEW i \in CLs, Makes(r, i)
  PROVE  /\ cl' \in [CLs -> CLRecords]
         /\ cl'[i].req = r /\ cl'[i].status = "open"
         /\ \A j \in CLs : j # i => cl'[j] = cl[j]
         /\ cl[i].status = "none"
         /\ Unused' = Unused \ {i}
<1>1. NewCL(r) \in CLRecords /\ NewCL(r).req = r /\ NewCL(r).status = "open"
  BY DEF NewCL, CLRecords, TypeInv, RequestRecords
<1>2. cl \in [CLs -> CLRecords] /\ cl' = [cl EXCEPT ![i] = NewCL(r)]
  BY DEF TypeInv, Makes
<1>3. cl[i] = NoCL
  BY DEF Makes, Unused
<1>4. cl'[i] # NoCL
  BY <1>1, <1>2 DEF NoCL
<1> QED BY <1>1, <1>2, <1>3, <1>4 DEF NoCL, Unused

(***************************************************************************)
(* Types and links.                                                        *)
(***************************************************************************)

\* What the sanity checks of UpdateRepos let through is a revision.
LEMMA SyncType ==
  ASSUME RevsOK, NEW last \in Nat, Sync(last)
  PROVE  known' \in [last : Nat, tip : Nat, next : Nat]
  BY DEF RevsOK, Sync, SaneRevs, NotRolled

\* The steps of RollSequence keep the types of the revisions.
LEMMA RevsOKKept == RevsOK /\ (Roller \/ Others) => RevsOK'
<1> SUFFICES ASSUME RevsOK, Roller \/ Others PROVE RevsOK'
  OBVIOUS
<1>1. CASE UpdateRepos
  BY <1>1, SyncType DEF UpdateRepos, RevsOK
<1>2. CASE RollLands
  <2>1. known.next \in Nat
    BY DEF RevsOK
  <2> QED BY <1>2, <2>1, SyncType DEF RollLands, RevsOK
<1>3. CASE NewRevision \/ SetStrategy
  BY <1>3 DEF NewRevision, SetStrategy, RevsOK
<1> QED BY <1>1, <1>2, <1>3 DEF Roller, Others

\* No CL is forgotten, and one which has succeeded stays so.
CLsLast ==
  \A i \in CLs :
    cl[i].status # "none" =>
      /\ cl'[i].status # "none" /\ cl'[i].req = cl[i].req
      /\ cl[i].status = "success" => cl'[i].status = "success"

\* Then a request which does not change keeps its CL.
LEMMA LinkKept ==
  ASSUME LinkInv, CLsLast, NEW r \in Requests, req'[r] = req[r]
  PROVE  Link(r)'
  BY DEF LinkInv, Link, NamesItsCL, IsMade, CLsLast

\* The steps of others.
LEMMA OthersKeepLinks ==
  ASSUME TypeInv, LinkInv,
         \/ Roller \/ Others
         \/ \E r \in Requests, ask \in Asks : CreateManualRoll(r, ask)
         \/ Crash
         \/ UNCHANGED vars
  PROVE  TypeInv' /\ LinkInv'
<1>1. CASE Roller \/ Others \/ Crash \/ UNCHANGED vars
  <2>1. UNCHANGED <<req, cl>> /\ (UNCHANGED faults \/ faults' = faults + 1)
    BY <1>1
    DEF Roller, Others, Crash, Fault, Returns, manual, vars
  <2>2. RevsOK'
    BY <1>1, RevsOKKept
    DEF TypeInv, RevsOK, Crash, Returns, revs, vars
  <2> QED
    BY <2>1, <2>2
    DEF TypeInv, LinkInv, Link, NamesItsCL, IsMade, Unused
<1>2. ASSUME NEW r \in Requests, NEW ask \in Asks, CreateManualRoll(r, ask)
      PROVE  TypeInv' /\ LinkInv'
  <2>1. PICK m : m = [NoRequest EXCEPT !.status = "pending", !.rev = ask.rev,
                                       !.dryRun = ask.dryRun]
    OBVIOUS
  <2>2. m \in RequestRecords /\ m.status = "pending" /\ m.result = "unknown"
    <3>1. ask.rev \in Nat /\ ask.dryRun \in BOOLEAN
      BY AsksAssumption
    <3> QED BY <2>1, <3>1 DEF NoRequest, RequestRecords
  <2>3. req' = [req EXCEPT ![r] = m] /\ UNCHANGED <<revs, cl, faults>>
    BY <1>2, <2>1 DEF CreateManualRoll
  <2>4. req \in [Requests -> RequestRecords]
    BY DEF TypeInv
  <2>5. TypeInv'
    BY <2>2, <2>3, <2>4 DEF TypeInv, RevsOK, revs
  <2>6. CLsLast
    BY <2>3 DEF CLsLast
  <2>7. ASSUME NEW x \in Requests PROVE Link(x)'
    <3>1. CASE x = r
      BY <2>2, <2>3, <2>4, <3>1 DEF Link
    <3>2. CASE x # r
      BY <2>3, <2>4, <2>6, <3>2, LinkKept
    <3> QED BY <3>1, <3>2
  <2> QED BY <2>3, <2>5, <2>7 DEF LinkInv, Unused, IsMade
<1> QED BY <1>1, <1>2

\* The end of a roll.
LEMMA RollEndsKeepsLinks ==
  ASSUME TypeInv, LinkInv, NEW i \in CLs, NEW status \in {"success", "failure"},
         RollEnds(i, status)
  PROVE  /\ TypeInv' /\ LinkInv'
         /\ \A j \in CLs : cl'[j].req = cl[j].req
         /\ Unused' = Unused
<1>1. PICK c \in CLRecords : c = cl[i]
  BY DEF TypeInv
<1>2. PICK m : m = [c EXCEPT !.status = status]
  OBVIOUS
<1>3. m \in CLRecords /\ m.req = c.req /\ m.status = status
  BY <1>2 DEF CLRecords
<1>4. /\ cl' = [cl EXCEPT ![i] = m] /\ c.status = "open"
      /\ UNCHANGED <<req, faults, strategy, tip, known>>
      /\ parent' \in {c.to, parent}
  BY <1>1, <1>2 DEF RollEnds
<1>5. /\ cl' \in [CLs -> CLRecords]
      /\ \A j \in CLs : cl'[j] = IF j = i THEN m ELSE cl[j]
  BY <1>3, <1>4 DEF TypeInv
<1>6. TypeInv'
  BY <1>4, <1>5 DEF TypeInv, RevsOK, CLRecords
<1>7. \A j \in CLs : cl'[j].req = cl[j].req
  BY <1>1, <1>3, <1>5
<1>8. Unused' = Unused
  BY <1>1, <1>3, <1>4, <1>5 DEF Unused, NoCL
<1>9. CLsLast
  BY <1>1, <1>3, <1>4, <1>5 DEF CLsLast
<1>10. \A r \in Requests : Link(r)'
  BY <1>4, <1>9, LinkKept
<1>11. \A j \in CLs \ Unused' : IsMade(j)'
  <2>1. ASSUME NEW j \in CLs \ Unused PROVE IsMade(j)'
    BY <1>9 DEF LinkInv, IsMade, CLsLast
  <2> QED BY <1>8, <2>1
<1> QED BY <1>6, <1>7, <1>8, <1>10, <1>11 DEF LinkInv

\* A step of handleManualRolls leaves the CLs which there are, and a CL which
\* it makes belongs to a request.
LEMMA RequestKeepsCLs ==
  ASSUME TypeInv, LinkInv, NEW r \in Requests, RequestStep(r)
  PROVE  /\ CLsLast /\ cl' \in [CLs -> CLRecords]
         /\ \A i \in CLs \ Unused' : IsMade(i)'
<1>1. CASE UNCHANGED cl
  BY <1>1 DEF CLsLast, TypeInv, LinkInv, IsMade, Unused
<1>2. ASSUME NEW i \in CLs, Makes(r, i)
      PROVE  /\ CLsLast /\ cl' \in [CLs -> CLRecords]
             /\ \A j \in CLs \ Unused' : IsMade(j)'
  <2>1. /\ cl' \in [CLs -> CLRecords]
        /\ cl'[i].req = r /\ cl'[i].status = "open"
        /\ \A j \in CLs : j # i => cl'[j] = cl[j]
        /\ cl[i].status = "none" /\ Unused' = Unused \ {i}
    BY <1>2, MadeCL
  <2> QED BY <2>1 DEF CLsLast, LinkInv, IsMade
<1> QED BY <1>1, <1>2 DEF RequestStep

\* The request comes to name a CL of its own, with the result of that CL.
LEMMA RequestKeepsLinks ==
  ASSUME TypeInv, LinkInv, NEW r \in Requests, UNCHANGED revs, RequestStep(r)
  PROVE  TypeInv' /\ LinkInv'
<1>1. req \in [Requests -> RequestRecords]
  BY DEF TypeInv
<1>2. /\ CLsLast /\ cl' \in [CLs -> CLRecords]
      /\ \A i \in CLs \ Unused' : IsMade(i)'
  BY RequestKeepsCLs
<1>3. faults' \in Nat /\ RevsOK'
  BY DEF RequestStep, OneFault, TypeInv, RevsOK, revs
<1>4. /\ req' \in [Requests -> RequestRecords]
      /\ \A x \in Requests : x # r => req'[x] = req[x]
      /\ Link(r)'
  <2>1. CASE UNCHANGED req
    BY <1>1, <1>2, <2>1, LinkKept
  <2>2. CASE Fails(r)
    BY <1>1, <2>2, RequestBecomes DEF Link
  <2>3. CASE /\ req[r].status = "started" /\ UNCHANGED cl
             /\ Renews(r, req[r].cl, cl[req[r].cl].status)
    <3>1. NamesItsCL(r)
      BY <2>3 DEF LinkInv, Link
    <3>2. PICK i, s : i = req[r].cl /\ s = cl[req[r].cl].status
      OBVIOUS
    <3>3. i \in Nat /\ s \in {"open", "success", "failure"}
      BY <3>1, <3>2 DEF NamesItsCL, IsMade, CLs, TypeInv, CLRecords
    <3>4. /\ req'[r].status = IF s = "open" THEN "started" ELSE "complete"
          /\ req'[r].result = IF s = "open" THEN "unknown" ELSE s
          /\ req'[r].cl = i
          /\ \A x \in Requests : x # r => req'[x] = req[x]
          /\ req' \in [Requests -> RequestRecords]
      BY <1>1, <2>3, <3>2, <3>3, RequestBecomes
    <3>5. Link(r)'
      BY <2>3, <3>1, <3>2, <3>4 DEF Link, NamesItsCL, IsMade
    <3> QED BY <3>4, <3>5
  <2>4. ASSUME NEW i \in CLs, Makes(r, i), Renews(r, i, "open")
        PROVE  /\ req' \in [Requests -> RequestRecords]
               /\ \A x \in Requests : x # r => req'[x] = req[x]
               /\ Link(r)'
    <3>1. cl'[i].req = r /\ cl'[i].status = "open"
      BY <2>4, MadeCL
    <3>2. /\ req'[r].status = "started" /\ req'[r].result = "unknown"
          /\ req'[r].cl = i
          /\ \A x \in Requests : x # r => req'[x] = req[x]
          /\ req' \in [Requests -> RequestRecords]
      BY <1>1, <2>4, RequestBecomes DEF CLs
    <3> QED BY <3>1, <3>2 DEF Link, NamesItsCL, IsMade
  <2> QED BY <2>1, <2>2, <2>3, <2>4 DEF RequestStep
<1>5. ASSUME NEW x \in Requests PROVE Link(x)'
  BY <1>2, <1>4, LinkKept
<1> QED BY <1>2, <1>3, <1>4, <1>5 DEF TypeInv, LinkInv

(***************************************************************************)
(* Counts.                                                                 *)
(***************************************************************************)

\* There are finitely many CLs for a request.
LEMMA CLsAreFinite ==
  ASSUME NEW r
  PROVE  IsFiniteSet(CLsOf(r)) /\ Cardinality(CLsOf(r)) \in Nat
<1>1. IsFiniteSet(CLs)
  BY BoundsAssumption, FS_Interval DEF CLs
<1>2. IsFiniteSet(CLsOf(r))
  BY <1>1, FS_Subset DEF CLsOf
<1> QED BY <1>2, FS_CardinalityType

\* Counts are kept while the CLs are those of the same requests, if every
\* request which is new was new before.
LEMMA CountKept ==
  ASSUME TypeInv, CountInv, \A i \in CLs : cl'[i].req = cl[i].req,
         Unused' = Unused,
         UNCHANGED faults \/ OneFault,
         \A r \in Requests :
           /\ req'[r].status \in {"none", "pending"} =>
                req[r].status \in {"none", "pending"}
           /\ UNCHANGED faults => req'[r].cl = req[r].cl,
         \A i \in CLs \ Unused : cl[i].req \in Requests
  PROVE  CountInv'
<1>1. \A r \in Requests : CLsOf(r)' = CLsOf(r)
  BY DEF CLsOf
<1>2. \A r \in Requests : Cardinality(CLsOf(r)) \in Nat
  BY CLsAreFinite
<1>3. faults \in Nat
  BY DEF TypeInv
<1>4. ASSUME NEW r \in Requests
      PROVE  /\ Cardinality(CLsOf(r)') <= 1 + faults'
             /\ req'[r].status \in {"none", "pending"} =>
                  Cardinality(CLsOf(r)') <= faults'
  <2>1. PICK k \in Nat : k = Cardinality(CLsOf(r)) /\ CLsOf(r)' = CLsOf(r)
    BY <1>1, <1>2
  <2>2. k <= 1 + faults
          /\ (req[r].status \in {"none", "pending"} => k <= faults)
    BY <2>1 DEF CountInv
  <2> QED BY <1>3, <2>1, <2>2 DEF OneFault
<1>5. ASSUME faults' = 0, NEW i \in CLs \ Unused'
      PROVE  req'[cl'[i].req].cl = i
  <2>1. UNCHANGED faults /\ faults = 0 /\ i \in CLs \ Unused
    BY <1>3, <1>5 DEF OneFault
  <2> QED BY <2>1 DEF CountInv
<1> QED BY <1>4, <1>5 DEF CountInv

\* A CL is made for a request which does not know of one yet.
LEMMA MadeCount ==
  ASSUME TypeInv, LinkInv, CountInv, NEW r \in Requests,
         NEW i \in CLs, Makes(r, i),
         \A x \in Requests : x # r => req'[x] = req[x],
         \/ OneFault
         \/ UNCHANGED faults /\ req'[r].cl = i
              /\ req'[r].status \notin {"none", "pending"}
  PROVE  CountInv'
<1>1. /\ cl'[i].req = r
      /\ \A j \in CLs : j # i => cl'[j] = cl[j]
      /\ Unused' = Unused \ {i}
  BY MadeCL
<1>2. Cardinality(CLsOf(r)) <= faults /\ faults \in Nat
  BY DEF Makes, CountInv, TypeInv
<1>3. CLsOf(r)' = CLsOf(r) \cup {i}
  BY <1>1 DEF CLsOf
<1>4. PICK k \in Nat : k = Cardinality(CLsOf(r)') /\ k <= faults + 1
  <2>1. IsFiniteSet(CLsOf(r)) /\ Cardinality(CLsOf(r)) \in Nat
    BY CLsAreFinite
  <2>2. Cardinality(CLsOf(r) \cup {i})
          \in {Cardinality(CLsOf(r)), Cardinality(CLsOf(r)) + 1}
    BY <2>1, FS_AddElement
  <2> QED BY <1>2, <1>3, <2>1, <2>2
<1>5. ASSUME NEW x \in Requests
      PROVE  /\ Cardinality(CLsOf(x)') <= 1 + faults'
             /\ req'[x].status \in {"none", "pending"} =>
                  Cardinality(CLsOf(x)') <= faults'
  <2>1. CASE x = r
    BY <1>2, <1>4, <2>1 DEF OneFault
  <2>2. CASE x # r
    <3>1. CLsOf(x)' \subseteq CLsOf(x)
      BY <1>1, <2>2 DEF CLsOf
    <3>2. PICK k1, k2 \in Nat :
            k1 = Cardinality(CLsOf(x)') /\ k2 = Cardinality(CLsOf(x)) /\ k1 <= k2
      BY <3>1, CLsAreFinite, FS_Subset, FS_CardinalityType
    <3>3. k2 <= 1 + faults
            /\ (req[x].status \in {"none", "pending"} => k2 <= faults)
      BY <3>2 DEF CountInv
    <3> QED BY <1>2, <2>2, <3>2, <3>3 DEF OneFault
  <2> QED BY <2>1, <2>2
<1>6. ASSUME faults' = 0, NEW j \in CLs \ Unused'
      PROVE  req'[cl'[j].req].cl = j
  <2>1. UNCHANGED faults /\ faults = 0 /\ req'[r].cl = i
    BY <1>2, <1>6 DEF OneFault
  <2>2. CASE j = i
    BY <1>1, <2>1, <2>2
  <2>3. CASE j # i
    <3>1. j \in CLs \ Unused /\ cl'[j] = cl[j]
      BY <1>1, <1>6, <2>3
    <3>2. cl[j].req \in Requests /\ req[cl[j].req].cl = j
      BY <2>1, <3>1 DEF LinkInv, IsMade, CountInv
    <3>3. CLsOf(r) = {}
      BY <1>2, <2>1, CLsAreFinite, FS_EmptySet
    <3>4. cl[j].req # r
      BY <3>1, <3>3 DEF CLsOf
    <3> QED BY <3>1, <3>2, <3>4
  <2> QED BY <2>2, <2>3
<1> QED BY <1>5, <1>6 DEF CountInv

\* A step of handleManualRolls.
LEMMA RequestKeepsCount ==
  ASSUME TypeInv, LinkInv, CountInv, NEW r \in Requests, RequestStep(r)
  PROVE  CountInv'
<1>1. req \in [Requests -> RequestRecords]
  BY DEF TypeInv
<1>2. \A i \in CLs \ Unused : cl[i].req \in Requests
  BY DEF LinkInv, IsMade
<1>3. CASE UNCHANGED cl
  <2>1. Unused' = Unused
    BY <1>3 DEF Unused
  <2>2. CASE UNCHANGED req /\ OneFault
    BY <1>2, <1>3, <2>1, <2>2, CountKept
  <2>3. CASE Fails(r) /\ (UNCHANGED faults \/ OneFault)
    <3>1. /\ req'[r].status = "complete" /\ req'[r].cl = req[r].cl
          /\ \A x \in Requests : x # r => req'[x] = req[x]
      BY <1>1, <2>3, RequestBecomes
    <3> QED BY <1>2, <1>3, <2>1, <2>3, <3>1, CountKept
  <2>4. CASE /\ req[r].status = "started" /\ UNCHANGED faults
             /\ Renews(r, req[r].cl, cl[req[r].cl].status)
    <3>1. PICK i, s : i = req[r].cl /\ s = cl[req[r].cl].status
      OBVIOUS
    <3>2. i \in Nat /\ s \in {"open", "success", "failure"}
      BY <2>4, <3>1
      DEF LinkInv, Link, NamesItsCL, IsMade, CLs, TypeInv, CLRecords
    <3>3. /\ req'[r].status = IF s = "open" THEN "started" ELSE "complete"
          /\ req'[r].cl = i
          /\ \A x \in Requests : x # r => req'[x] = req[x]
      BY <1>1, <2>4, <3>1, <3>2, RequestBecomes
    <3> QED BY <1>2, <1>3, <2>1, <2>4, <3>1, <3>3, CountKept
  <2>5. ASSUME NEW i \in CLs, Makes(r, i) PROVE FALSE
    BY <1>3, <2>5, MadeCL DEF TypeInv
  <2> QED BY <2>2, <2>3, <2>4, <2>5 DEF RequestStep
<1>4. ASSUME NEW i \in CLs, Makes(r, i),
             \/ Fails(r) /\ OneFault
             \/ UNCHANGED req /\ OneFault
             \/ Renews(r, i, "open") /\ UNCHANGED faults
      PROVE  CountInv'
  <2>1. CASE Fails(r) /\ OneFault
    BY <1>1, <1>4, <2>1, RequestBecomes, MadeCount
  <2>2. CASE UNCHANGED req /\ OneFault
    BY <1>4, <2>2, MadeCount
  <2>3. CASE Renews(r, i, "open") /\ UNCHANGED faults
    <3>1. /\ req'[r].status = "started" /\ req'[r].cl = i
          /\ \A x \in Requests : x # r => req'[x] = req[x]
      BY <1>1, <2>3, RequestBecomes DEF CLs
    <3> QED BY <1>4, <2>3, <3>1, MadeCount
  <2> QED BY <1>4, <2>1, <2>2, <2>3
<1> QED BY <1>3, <1>4 DEF RequestStep

\* The steps of others.
LEMMA OthersKeepCount ==
  ASSUME TypeInv, LinkInv, CountInv,
         \/ Roller \/ Others
         \/ \E r \in Requests, ask \in Asks : CreateManualRoll(r, ask)
         \/ \E i \in CLs, status \in {"success", "failure"} :
              RollEnds(i, status)
         \/ Crash
         \/ UNCHANGED vars
  PROVE  CountInv'
<1>1. \A i \in CLs \ Unused : cl[i].req \in Requests
  BY DEF LinkInv, IsMade
<1>2. CASE Roller \/ Others \/ Crash \/ UNCHANGED vars
  <2>1. UNCHANGED <<req, cl>> /\ (UNCHANGED faults \/ OneFault)
    BY <1>2
    DEF Roller, Others, Crash, Fault, Returns, OneFault, manual, vars
  <2>2. Unused' = Unused
    BY <2>1 DEF Unused
  <2> QED BY <1>1, <2>1, <2>2, CountKept
<1>3. ASSUME NEW r \in Requests, NEW ask \in Asks, CreateManualRoll(r, ask)
      PROVE  CountInv'
  <2>1. PICK m : m = [NoRequest EXCEPT !.status = "pending", !.rev = ask.rev,
                                       !.dryRun = ask.dryRun]
    OBVIOUS
  <2>2. m.status = "pending" /\ m.cl = req[r].cl /\ req[r].status = "none"
    <3>1. req[r] = NoRequest
      BY <1>3 DEF CreateManualRoll
    <3>2. m.status = "pending" /\ m.cl = 0
      BY <2>1 DEF NoRequest
    <3> QED BY <3>1, <3>2 DEF NoRequest
  <2>3. /\ req' = [req EXCEPT ![r] = m] /\ UNCHANGED <<cl, faults>>
        /\ Unused' = Unused
    BY <1>3, <2>1 DEF CreateManualRoll, Unused
  <2>4. \A x \in Requests : req'[x] = IF x = r THEN m ELSE req[x]
    BY <2>3 DEF TypeInv
  <2> QED BY <1>1, <2>2, <2>3, <2>4, CountKept
<1>4. ASSUME NEW i \in CLs, NEW status \in {"success", "failure"},
             RollEnds(i, status)
      PROVE  CountInv'
  <2>1. UNCHANGED <<req, faults>>
    BY <1>4 DEF RollEnds
  <2>2. /\ \A j \in CLs : cl'[j].req = cl[j].req
        /\ Unused' = Unused
    BY <1>4, RollEndsKeepsLinks
  <2> QED BY <1>1, <2>1, <2>2, CountKept
<1> QED BY <1>2, <1>3, <1>4

(***************************************************************************)
(* The theorems.                                                           *)
(***************************************************************************)

\* There is no CL in the beginning, and no request.
LEMMA InitInv == ManualInit => Inv
<1> SUFFICES ASSUME ManualInit PROVE Inv
  OBVIOUS
<1>1. TypeInv /\ LinkInv
  BY DEF ManualInit, Init, TypeInv, RevsOK, RequestRecords, CLRecords,
    LinkInv, Link, Unused, NoRequest, NoCL
<1>2. \A r : CLsOf(r) = {} \/ r = "none"
  BY DEF ManualInit, CLsOf, NoCL
<1>3. \A r \in Requests : Cardinality(CLsOf(r)) = 0
  BY <1>2, FS_EmptySet, RequestsAssumption
<1> QED BY <1>1, <1>3 DEF Inv, CountInv, ManualInit, Unused

\* Every step preserves the invariant.
LEMMA NextInv == Inv /\ [Next]_vars => Inv'
<1> SUFFICES ASSUME TypeInv, LinkInv, CountInv, [Next]_vars PROVE Inv'
  BY DEF Inv
<1>1. CASE \/ Roller \/ Others
           \/ \E r \in Requests, ask \in Asks : CreateManualRoll(r, ask)
           \/ Crash
           \/ UNCHANGED vars
  BY <1>1, OthersKeepLinks, OthersKeepCount DEF Inv
<1>2. CASE \E i \in CLs, status \in {"success", "failure"} : RollEnds(i, status)
  BY <1>2, RollEndsKeepsLinks, OthersKeepCount DEF Inv
<1>3. CASE GetIncomplete
  <2>1. UNCHANGED <<revs, req, cl, faults>>
    BY <1>3 DEF GetIncomplete
  <2>2. Unused' = Unused
    BY <2>1 DEF Unused
  <2>3. CountInv'
    BY <2>1, <2>2, CountKept DEF LinkInv, IsMade
  <2> QED
    BY <2>1, <2>2, <2>3
    DEF Inv, TypeInv, RevsOK, revs, LinkInv, Link, NamesItsCL, IsMade
<1>4. ASSUME NEW r \in Requests,
             \/ NoRevision(r) \/ AlreadyThere(r) \/ UploadFails(r)
             \/ Create(r) \/ Watch(r)
      PROVE  Inv'
  BY <1>4, RequestSteps, RequestKeepsLinks, RequestKeepsCount DEF Inv
<1> QED BY <1>1, <1>2, <1>3, <1>4 DEF Next, HandleManualRolls

\* A request for a manual roll says that it has succeeded only when a CL of
\* its own has, whatever fails while handleManualRolls uploads and watches.
THEOREM SuccessesAreTrue == Spec => []SuccessIsTrue
<1>1. Inv => SuccessIsTrue
  BY DEF Inv, LinkInv, Link, NamesItsCL, SuccessIsTrue
<1> QED BY <1>1, InitInv, NextInv, PTL DEF Spec

\* Every CL of a request beyond the first has taken a fault; without faults
\* each CL is the one which its request names.
THEOREM SecondCLsTakeFaults == Spec => []SecondCLTakesAFault
<1>1. Inv => SecondCLTakesAFault
  BY DEF Inv, CountInv, CLsOf, SecondCLTakesAFault
<1> QED BY <1>1, InitInv, NextInv, PTL DEF Spec

(***************************************************************************)
(* What is decided about a request stands.                                 *)
(***************************************************************************)

\* What handleManualRolls has listed when it began and has still to look at is
\* incomplete.
QueueInv == queue \subseteq Incomplete

\* A completed request is never written again; a started one keeps its CL until
\* it is completed; and what was asked for stays.
Stands(r) ==
  /\ req[r].status = "complete" => req'[r] = req[r]
  /\ req[r].status = "started" =>
       req'[r].status \in {"started", "complete"} /\ req'[r].cl = req[r].cl
  /\ req[r] # NoRequest =>
       req'[r].rev = req[r].rev /\ req'[r].dryRun = req[r].dryRun

DecisionsStand == [][\A r \in Requests : Stands(r)]_vars

\* Each request is looked at once, and the failing ones end the round.
LEMMA LookedAtOnce ==
  ASSUME NEW r \in Requests,
         \/ NoRevision(r) \/ AlreadyThere(r) \/ UploadFails(r)
         \/ Create(r) \/ Watch(r)
  PROVE  r \in queue /\ (queue' = queue \ {r} \/ queue' = {})
  BY DEF NoRevision, AlreadyThere, UploadFails, Create, Watch, ToUpload, Record,
         Goes, Returns

LEMMA RequestStands ==
  ASSUME Inv, QueueInv, NEW r \in Requests,
         \/ NoRevision(r) \/ AlreadyThere(r) \/ UploadFails(r)
         \/ Create(r) \/ Watch(r)
  PROVE  QueueInv' /\ \A q \in Requests : Stands(q)
<1>1. req \in [Requests -> RequestRecords] /\ RequestStep(r)
  BY RequestSteps DEF Inv, TypeInv
<1>2. r \in queue /\ req[r].status \in {"pending", "started"}
  BY LookedAtOnce DEF QueueInv, Incomplete
<1>3. /\ \A q \in Requests : q # r => req'[q] = req[q]
      /\ Stands(r)
  <2>1. CASE UNCHANGED req
    BY <1>2, <2>1 DEF Stands
  <2>2. CASE Fails(r)
    BY <1>1, <1>2, <2>2, RequestBecomes DEF Stands
  <2>3. CASE req[r].status = "started" /\ Renews(r, req[r].cl, cl[req[r].cl].status)
    <3>1. PICK i, s : i = req[r].cl /\ s = cl[req[r].cl].status
      OBVIOUS
    <3>2. i \in Nat /\ s \in {"open", "success", "failure"} /\ Renews(r, i, s)
      <4>1. i \in CLs /\ IsMade(i)
        BY <2>3, <3>1 DEF Inv, LinkInv, Link, NamesItsCL
      <4> QED BY <2>3, <3>1, <4>1, BoundsAssumption
              DEF IsMade, CLs, Inv, TypeInv, CLRecords
    <3> QED BY <1>1, <2>3, <3>1, <3>2, RequestBecomes DEF Stands
  <2>4. ASSUME NEW i \in CLs, req[r].status = "pending", Renews(r, i, "open")
        PROVE  /\ \A q \in Requests : q # r => req'[q] = req[q]
               /\ Stands(r)
    <3>1. i \in Nat
      BY BoundsAssumption DEF CLs
    <3> QED BY <1>1, <2>4, <3>1, RequestBecomes DEF Stands
  <2> QED BY <1>1, <2>1, <2>2, <2>3, <2>4 DEF RequestStep, Makes
<1>4. \A q \in Requests : Stands(q)
  BY <1>3 DEF Stands
<1>5. QueueInv'
  BY <1>3, LookedAtOnce DEF QueueInv, Incomplete
<1> QED BY <1>4, <1>5

LEMMA NextStands ==
  Inv /\ QueueInv /\ [Next]_vars => QueueInv' /\ \A r \in Requests : Stands(r)
<1> SUFFICES ASSUME Inv, QueueInv, [Next]_vars
             PROVE  QueueInv' /\ \A r \in Requests : Stands(r)
  OBVIOUS
<1>1. CASE UNCHANGED req /\ (UNCHANGED queue \/ queue' = {} \/ queue' = Incomplete)
  <2>1. \A r \in Requests :
          req[r].status = "started" => req'[r].status = "started"
    BY <1>1
  <2> QED BY <1>1, <2>1 DEF QueueInv, Incomplete, Stands
<1>2. ASSUME NEW r \in Requests, NEW ask \in Asks, CreateManualRoll(r, ask)
      PROVE  QueueInv' /\ \A q \in Requests : Stands(q)
  <2>1. /\ req[r] = NoRequest /\ UNCHANGED queue
        /\ \A q \in Requests : q # r => req'[q] = req[q]
    BY <1>2 DEF CreateManualRoll, Inv, TypeInv
  <2>2. req[r].status = "none" /\ r \notin queue
    BY <2>1 DEF NoRequest, QueueInv, Incomplete
  <2> QED BY <2>1, <2>2 DEF QueueInv, Incomplete, Stands
<1>3. ASSUME NEW r \in Requests,
             \/ NoRevision(r) \/ AlreadyThere(r) \/ UploadFails(r)
             \/ Create(r) \/ Watch(r)
      PROVE  QueueInv' /\ \A q \in Requests : Stands(q)
  BY <1>3, RequestStands
<1> QED BY <1>1, <1>2, <1>3
        DEF Next, vars, manual, Roller, Others, RollEnds, HandleManualRolls,
            GetIncomplete, Crash, Returns

\* Nothing which is decided about a request is taken back: handleManualRolls
\* works from a list which it made when it began, and writes whole requests.
THEOREM DecisionsAreKept == Spec => DecisionsStand
<1>1. ManualInit => QueueInv
  BY DEF ManualInit, QueueInv
<1>2. Inv /\ QueueInv /\ [Next]_vars =>
        QueueInv' /\ [\A r \in Requests : Stands(r)]_vars
  BY NextStands
<1> QED BY <1>1, <1>2, InitInv, NextInv, PTL DEF Spec, DecisionsStand

\* In every N_REVISIONS revisions in a row there is one which can be rolled:
\* without it, n_batch finds none in its batch while there are others.
BatchesHaveCandidates ==
  ROLL_STRATEGY_N_BATCH \in Strategy =>
    \A r \in Nat : \E q \in r + 1 .. r + N_REVISIONS : q \notin Invalid

\* If n_batch is not configured, or no batch of it is all invalid, then the
\* strategies choose a valid revision which is not yet rolled, and find none
\* only when there is none, wherever rolls and manual rolls, backwards too,
\* have taken the parent.
THEOREM NextRollsAreRight ==
  ASSUME BatchesHaveCandidates PROVE Spec => []NextRollIsRight
<1>1. ASSUME TypeInv PROVE NextRollIsRight
  <2> DEFINE all == Valid(NotRolled(known.last, tip))
             batch == Valid(OldestBatch(known.last, tip))
  <2>1. known.last \in Nat /\ tip \in Nat /\ strategy \in ValidStrategies
    BY <1>1, StrategyAssumption DEF TypeInv, RevsOK
  <2>2. /\ all \in SUBSET Nat /\ IsFiniteSet(all)
        /\ batch \in SUBSET all /\ batch \in SUBSET Nat /\ IsFiniteSet(batch)
    <3>1. all \subseteq NotRolled(known.last, tip) /\ batch \subseteq all
      BY DEF Valid, OldestBatch
    <3>2. NotRolled(known.last, tip) \in SUBSET Nat
            /\ IsFiniteSet(NotRolled(known.last, tip))
      <4>1. known.last + 1 \in Int /\ tip \in Int
        BY <2>1
      <4>2. known.last + 1 .. tip \in SUBSET Nat
        BY <2>1
      <4> QED BY <4>1, <4>2, FS_Interval DEF NotRolled
    <3>3. IsFiniteSet(all)
      BY <3>1, <3>2, FS_Subset
    <3> QED BY <3>1, <3>2, <3>3, FS_Subset
  <2>3. ASSUME strategy = ROLL_STRATEGY_N_BATCH, all # {} PROVE batch # {}
    <3>1. PICK c \in all : TRUE
      BY <2>3
    <3>2. c \in known.last + 1 .. tip /\ c \notin Invalid
      BY DEF Valid, NotRolled
    <3>3. PICK q \in known.last + 1 .. known.last + N_REVISIONS :
            q \notin Invalid
      BY <1>1, <2>1, <2>3 DEF BatchesHaveCandidates, TypeInv, RevsOK
    <3>4. CASE c <= known.last + N_REVISIONS
      BY <3>2, <3>4 DEF Valid, OldestBatch, NotRolled
    <3>5. CASE ~(c <= known.last + N_REVISIONS)
      <4>1. q \in known.last + 1 .. tip /\ q <= known.last + N_REVISIONS
        BY <2>1, <3>2, <3>3, <3>5, BatchSizeAssumption
      <4> QED BY <3>3, <4>1 DEF Valid, OldestBatch, NotRolled
    <3> QED BY <3>4, <3>5
  <2> HIDE DEF all, batch
  <2>4. \/ GetNextRollRev(strategy, known.last, tip) = Newest(all, known.last)
        \/ GetNextRollRev(strategy, known.last, tip) = Oldest(all, known.last)
        \/ /\ GetNextRollRev(strategy, known.last, tip)
                = Newest(batch, known.last)
           /\ strategy = ROLL_STRATEGY_N_BATCH
    BY <2>1
    DEF GetNextRollRev, ValidStrategies, ROLL_STRATEGY_BATCH,
      ROLL_STRATEGY_N_BATCH, ROLL_STRATEGY_SINGLE, all, batch
  <2>5. GetNextRollRev(strategy, known.last, tip)
          \in IF all = {} THEN {known.last} ELSE all
    BY <2>2, <2>3, <2>4, ChosenRev
  <2> QED BY <2>5 DEF NextRollIsRight, all
<1> QED BY <1>1, InitInv, NextInv, PTL DEF Spec, Inv
==============================================================================
