----------------------- MODULE PersistentCounterProofs -----------------------
(***************************************************************************)
(* Proofs about PersistentCounter, for every clock, duration, threshold    *)
(* and number of increments: that no entry of the list counts forever, and *)
(* that ThrottledUntil, the entry of the sorted list which the Throttler   *)
(* reports, is the instant at which the throttle is released.              *)
(***************************************************************************)
EXTENDS PersistentCounter, TLAPS, WellFoundedInduction

\* Neither operation on a list leaves the lists, if there is something to
\* remove, and both act on one instant only.
LEMMA ListOps ==
  ASSUME NEW list \in Lists, NEW t \in Instants
  PROVE  /\ Add(list, t) \in Lists
         /\ \A u \in Instants :
              Add(list, t)[u] = IF u = t THEN list[u] + 1 ELSE list[u]
         /\ list[t] > 0 => Remove(list, t) \in Lists
         /\ \A u \in Instants :
              Remove(list, t)[u] = IF u = t THEN list[u] - 1 ELSE list[u]
  BY DEF Lists, Add, Remove

\* Each entry of the list has a timer, and everything has its type: the
\* conjunction is inductive, since a restart copies the file to both.
IndInv == TypeOK /\ EveryEntryHasATimer

\* The empty list has no entry at any instant.
LEMMA EmptyIsAList == Empty \in Lists /\ \A t \in Instants : Empty[t] = 0
  BY DEF Empty, Lists

\* The initial state satisfies the inductive invariant.
LEMMA InitIndInv == Init => IndInv
  BY EmptyIsAList, MaxTimeAssumption, DurationAssumption
  DEF Init, IndInv, TypeOK, EveryEntryHasATimer, Instants

\* Every step of the counter, of its timers, of the clock and of the process
\* preserves the inductive invariant.
LEMMA NextIndInv == IndInv /\ [Next]_vars => IndInv'
<1> SUFFICES ASSUME IndInv, [Next]_vars PROVE IndInv'
  OBVIOUS
<1> USE MaxTimeAssumption, DurationAssumption
<1>1. CASE BoundedInc
  <2>1. now + Duration \in Instants
    BY <1>1 DEF BoundedInc, IndInv, TypeOK, Instants
  <2>2. /\ Add(times, now + Duration) \in Lists
        /\ Add(timers, now + Duration) \in Lists
    BY <2>1, ListOps DEF IndInv, TypeOK
  <2>3. TypeOK'
    BY <1>1, <2>2 DEF BoundedInc, Inc, Write, IndInv, TypeOK
  <2>4. EveryEntryHasATimer'
    <3> SUFFICES ASSUME NEW t \in Instants PROVE times'[t] <= timers'[t]
      BY DEF EveryEntryHasATimer
    <3>1. times[t] \in Nat /\ timers[t] \in Nat /\ times[t] <= timers[t]
      BY DEF IndInv, TypeOK, Lists, EveryEntryHasATimer
    <3>2. /\ times' = Add(times, now + Duration) /\ times \in Lists
          /\ timers' = Add(timers, now + Duration) /\ timers \in Lists
      BY <1>1 DEF BoundedInc, Inc, IndInv, TypeOK
    <3>3. times'[t] = IF t = now + Duration THEN times[t] + 1 ELSE times[t]
      BY <2>1, <3>2, ListOps
    <3>4. timers'[t] = IF t = now + Duration THEN timers[t] + 1 ELSE timers[t]
      BY <2>1, <3>2, ListOps
    <3> QED BY <3>1, <3>3, <3>4
  <2> QED BY <2>3, <2>4 DEF IndInv
<1>2. CASE Reset
  <2>1. TypeOK'
    BY <1>2, EmptyIsAList DEF Reset, Write, IndInv, TypeOK
  <2>2. EveryEntryHasATimer'
    BY <1>2, EmptyIsAList DEF Reset, IndInv, TypeOK, Lists, EveryEntryHasATimer
  <2> QED BY <2>1, <2>2 DEF IndInv
<1>3. CASE Crash
  <2>1. times' = Empty /\ timers' = Empty /\ up' = FALSE
          /\ UNCHANGED <<now, file>>
    BY <1>3 DEF Crash
  <2>2. TypeOK'
    BY <2>1, EmptyIsAList DEF IndInv, TypeOK
  <2>3. ASSUME NEW t \in Instants PROVE times'[t] <= timers'[t]
    <3>1. times'[t] = 0 /\ timers'[t] = 0
      BY <2>1, EmptyIsAList
    <3> QED BY <3>1
  <2> QED BY <2>2, <2>3 DEF IndInv, EveryEntryHasATimer
<1>4. CASE Restart
  BY <1>4 DEF Restart, IndInv, TypeOK, EveryEntryHasATimer, Lists
<1>5. CASE Tick
  BY <1>5 DEF Tick, IndInv, TypeOK, EveryEntryHasATimer, Instants
<1>6. ASSUME NEW t \in Instants, Fire(t) PROVE IndInv'
  <2>1. /\ timers' = Remove(timers, t) /\ timers[t] > 0
        /\ times' = IF times[t] > 0 THEN Remove(times, t) ELSE times
        /\ UNCHANGED <<now, up>>
    BY <1>6 DEF Fire
  <2>2. times \in Lists /\ timers \in Lists
    BY DEF IndInv, TypeOK
  <2>3. times' \in Lists /\ timers' \in Lists
    BY <2>1, <2>2, ListOps
  <2>4. file' \in Lists
    BY <1>6, <2>3 DEF Fire, Write, IndInv, TypeOK
  <2>5. TypeOK'
    BY <2>1, <2>3, <2>4 DEF IndInv, TypeOK
  <2>6. EveryEntryHasATimer'
    <3> SUFFICES ASSUME NEW u \in Instants PROVE times'[u] <= timers'[u]
      BY DEF EveryEntryHasATimer
    <3>1. times[u] \in Nat /\ timers[u] \in Nat /\ times[u] <= timers[u]
      BY DEF IndInv, TypeOK, Lists, EveryEntryHasATimer
    <3>2. timers'[u] = IF u = t THEN timers[u] - 1 ELSE timers[u]
      BY <2>1, <2>2, ListOps
    <3>3. CASE times[t] > 0
      <4>1. times'[u] = IF u = t THEN times[u] - 1 ELSE times[u]
        BY <2>1, <2>2, <3>3, ListOps
      <4> QED BY <3>1, <3>2, <4>1
    <3>4. CASE ~(times[t] > 0)
      BY <2>1, <3>1, <3>2, <3>4
    <3> QED BY <3>3, <3>4
  <2> QED BY <2>5, <2>6 DEF IndInv
<1>7. CASE UNCHANGED vars
  BY <1>7 DEF vars, IndInv, TypeOK, EveryEntryHasATimer
<1> QED
  BY <1>1, <1>2, <1>3, <1>4, <1>5, <1>6, <1>7 DEF Next

\* The list, its file and its timers always have their types.
THEOREM TypeCorrect == Spec => []TypeOK
<1>1. IndInv => TypeOK
  BY DEF IndInv
<1> QED
  BY <1>1, InitIndInv, NextIndInv, PTL DEF Spec

\* No reset, failed write, late timer or restart leaves an entry in the list
\* without a timer which will remove it.
THEOREM TimersCoverEntries == Spec => []EveryEntryHasATimer
<1>1. IndInv => EveryEntryHasATimer
  BY DEF IndInv
<1> QED
  BY <1>1, InitIndInv, NextIndInv, PTL DEF Spec
(***************************************************************************)
(* The sum over a list.  The induction theorems of the library take an     *)
(* operator; a least counterexample does without one.                      *)
(***************************************************************************)

\* A set of numbers which is not empty has a least member.
LEMMA LeastExists ==
  ASSUME NEW S \in SUBSET Nat, S # {}
  PROVE  \E m \in S : \A n \in S : m <= n
<1> DEFINE R == OpToRel(<, Nat)
<1>1. IsWellFoundedOn(R, Nat)
  BY NatLessThanWellFounded
<1>2. PICK m \in S : \A n \in S : <<n, m>> \notin R
  <2> HIDE DEF R
  <2> QED BY <1>1, WFMin
<1>3. \A n \in S : n \in Nat /\ m \in Nat /\ ~(n < m)
  BY <1>2 DEF OpToRel
<1> QED BY <1>3

Last == MaxTime + Duration + 1

\* The sums of the first entries of a list.
SumsOf(f, list, n) ==
  /\ f \in [0 .. n -> Nat]
  /\ f[0] = 0
  /\ \A k \in 1 .. n : f[k] = f[k - 1] + list[k - 1]

\* The instants are the numbers before Last.
LEMMA LastInstant ==
  /\ Last \in Nat \ {0}
  /\ Instants = 0 .. Last - 1
  /\ \A t \in Instants : t \in Nat /\ t + 1 \in 1 .. Last
  /\ \A k \in 1 .. Last : k - 1 \in Instants
  BY MaxTimeAssumption, DurationAssumption DEF Last, Instants

\* There is a function of the sums, up to any instant.
LEMMA SumsExist ==
  ASSUME NEW list \in Lists
  PROVE  \A n \in 0 .. Last : \E f : SumsOf(f, list, n)
<1> DEFINE Bad == {n \in 0 .. Last : ~ \E f : SumsOf(f, list, n)}
<1> SUFFICES ASSUME Bad # {} PROVE FALSE
  OBVIOUS
<1>1. PICK m \in Bad : \A n \in Bad : m <= n
  <2>1. Bad \in SUBSET Nat
    OBVIOUS
  <2> HIDE DEF Bad
  <2> QED BY <2>1, LeastExists
<1>2. m \in 0 .. Last /\ Last \in Nat
  BY LastInstant
<1>3. m # 0
  <2>1. SumsOf([k \in 0 .. 0 |-> 0], list, 0)
    BY DEF SumsOf
  <2> QED BY <2>1
<1>4. m - 1 \in 0 .. Last /\ m - 1 \notin Bad
  <2>1. m - 1 \in 0 .. Last /\ ~(m <= m - 1)
    BY <1>2, <1>3
  <2> QED BY <1>1, <2>1
<1>5. PICK f : SumsOf(f, list, m - 1)
  BY <1>4
<1> DEFINE g == [k \in 0 .. m |->
                   IF k = m THEN f[m - 1] + list[m - 1] ELSE f[k]]
<1>6. list[m - 1] \in Nat
  BY <1>2, <1>3, LastInstant DEF Lists
<1>7. SumsOf(g, list, m)
  <2>1. /\ f \in [0 .. m - 1 -> Nat] /\ f[0] = 0
        /\ \A k \in 1 .. m - 1 : f[k] = f[k - 1] + list[k - 1]
    BY <1>5 DEF SumsOf
  <2>2. m - 1 \in 0 .. m - 1
    BY <1>2, <1>3
  <2>3. g \in [0 .. m -> Nat]
    <3>1. f[m - 1] + list[m - 1] \in Nat
      BY <1>6, <2>1, <2>2
    <3>2. \A k \in 0 .. m : k # m => f[k] \in Nat
      BY <1>2, <2>1
    <3> QED BY <3>1, <3>2
  <2>4. g[0] = 0
    BY <1>2, <1>3, <2>1
  <2>5. ASSUME NEW k \in 1 .. m PROVE g[k] = g[k - 1] + list[k - 1]
    <3>1. k \in 0 .. m /\ k - 1 \in 0 .. m /\ k - 1 # m
      BY <1>2
    <3>2. g[k - 1] = f[k - 1]
      BY <3>1
    <3>3. CASE k = m
      BY <3>1, <3>2, <3>3
    <3>4. CASE k # m
      <4>1. k \in 1 .. m - 1
        BY <1>2, <3>4
      <4> QED BY <2>1, <3>1, <3>2, <3>4, <4>1
    <3> QED BY <3>3, <3>4
  <2> HIDE DEF g
  <2> QED BY <2>3, <2>4, <2>5 DEF SumsOf
<1>8. \E h : SumsOf(h, list, m)
  BY <1>7
<1> QED BY <1>1, <1>8

\* Total is the last of the sums.
LEMMA TotalIsLastSum ==
  ASSUME NEW list \in Lists
  PROVE  \E f : SumsOf(f, list, Last) /\ Total(list) = f[Last]
<1> DEFINE IsSum(f) ==
      f = [k \in 0 .. MaxTime + Duration + 1 |->
             IF k = 0 THEN 0 ELSE f[k - 1] + list[k - 1]]
<1> DEFINE sum == CHOOSE f : IsSum(f)
<1>1. Total(list) = sum[Last]
  BY DEF Total, Last
<1>2. PICK f : SumsOf(f, list, Last)
  BY SumsExist, LastInstant
<1>3. f = [k \in 0 .. Last |-> IF k = 0 THEN 0 ELSE f[k - 1] + list[k - 1]]
  <2>1. \A k \in 0 .. Last : k = 0 \/ k \in 1 .. Last
    BY LastInstant
  <2> QED BY <1>2, <2>1 DEF SumsOf
<1>4. IsSum(f)
  BY <1>3 DEF Last
<1>5. IsSum(sum)
  <2> HIDE DEF IsSum
  <2> QED BY <1>4
<1>6. sum = [k \in 0 .. Last |->
               IF k = 0 THEN 0 ELSE sum[k - 1] + list[k - 1]]
  <2> HIDE DEF sum
  <2> QED BY <1>5 DEF Last
<1> HIDE DEF sum
<1>7. /\ DOMAIN sum = 0 .. Last
      /\ sum[0] = 0
      /\ \A k \in 1 .. Last : sum[k] = sum[k - 1] + list[k - 1]
  <2>1. \A k \in 1 .. Last : k \in 0 .. Last /\ k # 0
    OBVIOUS
  <2>2. 0 \in 0 .. Last
    BY LastInstant
  <2> QED BY <1>6, <2>1, <2>2
<1>8. \A k \in 0 .. Last : sum[k] = f[k]
  <2> DEFINE Bad == {k \in 0 .. Last : sum[k] # f[k]}
  <2> SUFFICES ASSUME Bad # {} PROVE FALSE
    OBVIOUS
  <2>1. PICK m \in Bad : \A n \in Bad : m <= n
    <3>1. Bad \in SUBSET Nat
      OBVIOUS
    <3> HIDE DEF Bad
    <3> QED BY <3>1, LeastExists
  <2>2. m # 0
    BY <1>2, <1>7 DEF SumsOf
  <2>3. m \in 1 .. Last /\ m - 1 \in 0 .. Last /\ ~(m <= m - 1)
    BY <2>2, LastInstant
  <2>4. sum[m - 1] = f[m - 1]
    BY <2>1, <2>3
  <2> QED BY <1>2, <1>7, <2>3, <2>4 DEF SumsOf
<1>9. Last \in 0 .. Last
  BY LastInstant
<1> QED BY <1>1, <1>2, <1>8, <1>9
\* The sums are numbers, and none is less than an earlier one.
LEMMA SumsGrow ==
  ASSUME NEW list \in Lists, NEW f, SumsOf(f, list, Last)
  PROVE  /\ \A k \in 0 .. Last : f[k] \in Nat
         /\ \A t \in Instants : f[t + 1] = f[t] + list[t]
         /\ \A j, k \in 0 .. Last : j <= k => f[j] <= f[k]
<1>1. /\ f \in [0 .. Last -> Nat] /\ f[0] = 0
      /\ \A k \in 1 .. Last : f[k] = f[k - 1] + list[k - 1]
  BY DEF SumsOf
<1>2. \A k \in 0 .. Last : f[k] \in Nat
  BY <1>1
<1>3. \A t \in Instants : f[t + 1] = f[t] + list[t]
  <2> SUFFICES ASSUME NEW t \in Instants PROVE f[t + 1] = f[t] + list[t]
    OBVIOUS
  <2>1. t + 1 \in 1 .. Last /\ (t + 1) - 1 = t
    BY LastInstant
  <2> QED BY <1>1, <2>1
<1>4. ASSUME NEW j \in 0 .. Last PROVE \A k \in 0 .. Last : j <= k => f[j] <= f[k]
  <2> DEFINE Bad == {k \in 0 .. Last : j <= k /\ ~(f[j] <= f[k])}
  <2> SUFFICES ASSUME Bad # {} PROVE FALSE
    OBVIOUS
  <2>1. PICK m \in Bad : \A n \in Bad : m <= n
    <3>1. Bad \in SUBSET Nat
      OBVIOUS
    <3> HIDE DEF Bad
    <3> QED BY <3>1, LeastExists
  <2>2. m # j /\ m \in 1 .. Last /\ m - 1 \in 0 .. Last
          /\ j <= m - 1 /\ ~(m <= m - 1)
    BY <1>2, LastInstant
  <2>3. f[j] <= f[m - 1]
    BY <2>1, <2>2
  <2>4. f[m] = f[m - 1] + list[m - 1] /\ list[m - 1] \in Nat
    BY <1>1, <2>2, LastInstant DEF Lists
  <2> QED BY <1>2, <2>2, <2>3, <2>4
<1> QED BY <1>2, <1>3, <1>4

\* UpTo is the sum which includes its instant.
LEMMA UpToIsSum ==
  ASSUME NEW list \in Lists, NEW f, SumsOf(f, list, Last), NEW t \in Instants
  PROVE  UpTo(list, t) = f[t + 1]
<1> DEFINE part == [u \in Instants |-> IF u <= t THEN list[u] ELSE 0]
<1>1. part \in Lists
  BY DEF Lists
<1>2. UpTo(list, t) = Total(part)
  BY DEF UpTo
<1>3. \A k \in 1 .. Last :
        part[k - 1] = IF k - 1 <= t THEN list[k - 1] ELSE 0
  BY LastInstant
<1> HIDE DEF part
<1>4. PICK g : SumsOf(g, part, Last) /\ Total(part) = g[Last]
  BY <1>1, TotalIsLastSum
<1>5. t + 1 \in 1 .. Last /\ t \in Nat /\ Last \in Nat /\ Last \in 0 .. Last
  BY LastInstant
<1>6. \A k \in 0 .. Last : g[k] = IF k <= t + 1 THEN f[k] ELSE f[t + 1]
  <2> DEFINE Bad ==
        {k \in 0 .. Last : g[k] # IF k <= t + 1 THEN f[k] ELSE f[t + 1]}
  <2> SUFFICES ASSUME Bad # {} PROVE FALSE
    OBVIOUS
  <2>1. PICK m \in Bad : \A n \in Bad : m <= n
    <3>1. Bad \in SUBSET Nat
      OBVIOUS
    <3> HIDE DEF Bad
    <3> QED BY <3>1, LeastExists
  <2>2. g[0] = 0 /\ f[0] = 0
    BY <1>4 DEF SumsOf
  <2>3. m # 0
    BY <1>5, <2>2
  <2>4. m \in 1 .. Last /\ m - 1 \in 0 .. Last /\ ~(m <= m - 1)
    BY <1>5, <2>3
  <2>5. g[m - 1] = IF m - 1 <= t + 1 THEN f[m - 1] ELSE f[t + 1]
    BY <2>1, <2>4
  <2>6. g[m] = g[m - 1] + part[m - 1] /\ f[m] = f[m - 1] + list[m - 1]
    BY <1>4, <2>4 DEF SumsOf
  <2>7. \A k \in 0 .. Last : f[k] \in Nat
    BY SumsGrow
  <2>8. g[m] # IF m <= t + 1 THEN f[m] ELSE f[t + 1]
    OBVIOUS
  <2>9. CASE m <= t + 1
    <3>1. m - 1 <= t /\ m - 1 <= t + 1
      BY <1>5, <2>4, <2>9
    <3> HIDE DEF Bad
    <3> QED BY <1>3, <2>4, <2>5, <2>6, <2>8, <2>9, <3>1
  <2>10. CASE ~(m <= t + 1)
    <3>1. ~(m - 1 <= t) /\ (m - 1 <= t + 1 => m - 1 = t + 1)
      BY <1>5, <2>4, <2>10
    <3>2. g[m - 1] = f[t + 1] /\ part[m - 1] = 0
      BY <1>3, <2>4, <2>5, <3>1
    <3>3. f[t + 1] \in Nat
      BY <1>5, <2>7
    <3> HIDE DEF Bad
    <3> QED BY <2>6, <2>8, <2>10, <3>2, <3>3
  <2> QED BY <2>9, <2>10
<1>7. g[Last] = f[t + 1]
  BY <1>5, <1>6
<1> QED BY <1>2, <1>4, <1>7

\* Sorted finds its entry: fewer entries are before its instant, and enough
\* of them are there by then.
LEMMA SortedIsThere ==
  ASSUME NEW list \in Lists, NEW f, SumsOf(f, list, Last),
         NEW k \in Nat, k < f[Last]
  PROVE  LET t == Sorted(list, k)
         IN  t \in Instants /\ f[t] <= k /\ k < f[t + 1]
<1>1. /\ \A n \in 0 .. Last : f[n] \in Nat
      /\ \A t \in Instants : f[t + 1] = f[t] + list[t]
  BY SumsGrow
<1>2. \A t \in Instants :
        /\ UpTo(list, t) = f[t + 1]
        /\ UpTo(list, t) - list[t] = f[t]
        /\ f[t] \in Nat /\ f[t + 1] \in Nat
  <2> SUFFICES ASSUME NEW t \in Instants
               PROVE  /\ UpTo(list, t) = f[t + 1]
                      /\ UpTo(list, t) - list[t] = f[t]
                      /\ f[t] \in Nat /\ f[t + 1] \in Nat
    OBVIOUS
  <2>1. t \in 0 .. Last /\ t + 1 \in 0 .. Last
    BY LastInstant
  <2>2. f[t] \in Nat /\ f[t + 1] \in Nat /\ list[t] \in Nat
    BY <1>1, <2>1 DEF Lists
  <2>3. UpTo(list, t) = f[t + 1] /\ f[t + 1] = f[t] + list[t]
    BY <1>1, UpToIsSum
  <2> QED BY <2>2, <2>3
<1>3. \E t \in Instants : f[t] <= k /\ k < f[t + 1]
  <2> DEFINE Above == {n \in 0 .. Last : k < f[n]}
  <2>1. Last \in Above
    BY LastInstant
  <2>2. PICK m \in Above : \A n \in Above : m <= n
    <3>1. Above \in SUBSET Nat
      OBVIOUS
    <3> HIDE DEF Above
    <3> QED BY <2>1, <3>1, LeastExists
  <2>3. f[0] = 0
    BY DEF SumsOf
  <2>4. m \in 1 .. Last /\ m - 1 \in 0 .. Last /\ ~(m <= m - 1)
          /\ (m - 1) + 1 = m
    BY <2>3, LastInstant
  <2>5. m - 1 \in Instants /\ ~(k < f[m - 1]) /\ f[m - 1] \in Nat
    BY <1>1, <2>2, <2>4, LastInstant
  <2> QED BY <2>4, <2>5
<1>4. \E t \in Instants : UpTo(list, t) > k /\ UpTo(list, t) - list[t] <= k
  BY <1>2, <1>3
<1>5. LET t == Sorted(list, k)
      IN  t \in Instants /\ UpTo(list, t) > k /\ UpTo(list, t) - list[t] <= k
  BY <1>4 DEF Sorted
<1> QED BY <1>2, <1>5

\* The instant which the Throttler reports is the first one at which it will
\* allow an attempt again, whatever list the increments, the late timers, the
\* resets and the restarts have left.
THEOREM ThrottledUntilIsRight == Spec => []ThrottledUntilIsExact
<1>1. ASSUME TypeOK PROVE ThrottledUntilIsExact
  <2>1. times \in Lists
    BY <1>1 DEF TypeOK
  <2>2. PICK f : SumsOf(f, times, Last) /\ Total(times) = f[Last]
    BY <2>1, TotalIsLastSum
  <2>3. Last \in 0 .. Last /\ f[Last] \in Nat
    BY <2>1, <2>2, SumsGrow, LastInstant
  <2>4. CASE ~IsThrottled
    <3>1. Total(times) < Threshold
      BY <2>2, <2>3, <2>4, ThresholdAssumption DEF IsThrottled
    <3> QED BY <2>4, <3>1 DEF ThrottledUntilIsExact, ThrottledUntil
  <2>5. CASE IsThrottled
    <3> DEFINE k == Total(times) - Threshold
               until == Sorted(times, k)
    <3>1. k \in Nat /\ k < f[Last] /\ ~(Total(times) < Threshold)
      BY <2>2, <2>3, <2>5, ThresholdAssumption DEF IsThrottled
    <3>2. until \in Instants /\ f[until] <= k /\ k < f[until + 1]
      <4> HIDE DEF k
      <4> QED BY <2>1, <2>2, <3>1, SortedIsThere
    <3>3. ThrottledUntil = until
      BY <3>1 DEF ThrottledUntil
    <3> HIDE DEF until
    <3>4. ASSUME NEW t \in Instants
          PROVE  /\ UpTo(times, t) = f[t + 1] /\ f[t + 1] \in Nat
                 /\ Total(times) - UpTo(times, t) < Threshold <=> k < f[t + 1]
      <4>1. UpTo(times, t) = f[t + 1]
        BY <2>1, <2>2, UpToIsSum
      <4>2. t + 1 \in 0 .. Last
        BY LastInstant
      <4>3. f[t + 1] \in Nat
        BY <2>1, <2>2, <4>2, SumsGrow
      <4> QED BY <2>2, <2>3, <4>1, <4>3, ThresholdAssumption
    <3>5. Total(times) - UpTo(times, until) < Threshold
      BY <3>2, <3>4
    <3>6. ASSUME NEW t \in Instants, t < until
          PROVE  ~(Total(times) - UpTo(times, t) < Threshold)
      <4>1. t + 1 \in 0 .. Last /\ until \in 0 .. Last /\ t + 1 <= until
        BY <3>2, <3>6, LastInstant
      <4>2. f[t + 1] <= f[until] /\ f[until] \in Nat /\ f[t + 1] \in Nat
        BY <2>1, <2>2, <4>1, SumsGrow
      <4>3. ~(k < f[t + 1])
        BY <3>1, <3>2, <4>2
      <4> QED BY <3>4, <4>3
    <3> HIDE DEF k
    <3> QED BY <2>5, <3>3, <3>5, <3>6 DEF ThrottledUntilIsExact
  <2> QED BY <2>4, <2>5
<1> QED BY <1>1, TypeCorrect, PTL
=============================================================================
