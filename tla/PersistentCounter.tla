-------------------------- MODULE PersistentCounter --------------------------
(***************************************************************************)
(* PersistentAutoDecrementCounter (go/counters/counters.go), the counter   *)
(* behind a Throttler (autoroll/go/state_machine/state_machine.go): a list *)
(* of the times at which the counter goes down again, a timer for each of  *)
(* them, and a copy of the list in a GCS file.                             *)
(*                                                                         *)
(* A list is a bag: the number of its entries for each instant.  Time is   *)
(* discrete, so two increments can fall on the same instant.               *)
(***************************************************************************)
EXTENDS Naturals

CONSTANTS
  MaxTime,     \* bound on the clock
  Duration,    \* how long an increment counts
  Threshold,   \* the count at which the Throttler throttles
  MaxCount     \* bound on the increments of one instant

ASSUME MaxTimeAssumption == MaxTime \in Nat
ASSUME DurationAssumption == Duration \in Nat \ {0}
ASSUME ThresholdAssumption == Threshold \in Nat \ {0}
ASSUME MaxCountAssumption == MaxCount \in Nat

VARIABLES
  now,      \* the clock
  times,    \* the list, in memory
  timers,   \* the timers which have not fired
  file,     \* the list, in GCS
  up        \* the process runs

vars == <<now, times, timers, file, up>>

Instants == 0 .. MaxTime + Duration
Lists == [Instants -> Nat]
Empty == [t \in Instants |-> 0]

Add(list, t) == [list EXCEPT ![t] = @ + 1]
Remove(list, t) == [list EXCEPT ![t] = @ - 1]

\* write: the file now holds the list, unless GCS fails.
Write(list) == file' \in {file, list}

Init ==
  /\ now = 0
  /\ times = Empty
  /\ timers = Empty
  /\ file = Empty
  /\ up = TRUE

\* An error of the write is returned to the caller, but the increment stays.
Inc ==
  /\ up
  /\ times' = Add(times, now + Duration)
  /\ timers' = Add(timers, now + Duration)
  /\ Write(times')
  /\ UNCHANGED <<now, up>>

\* Mutant: a timer which is late is dropped.
FireOnTime(t) ==
  /\ t = now
  /\ up
  /\ timers[t] > 0
  /\ timers' = Remove(timers, t)
  /\ IF times[t] > 0
     THEN times' = Remove(times, t) /\ Write(times')
     ELSE UNCHANGED <<times, file>>
  /\ UNCHANGED <<now, up>>

\* A timer fires, on time or late: dec removes one entry of its instant.
Fire(t) ==
  /\ up
  /\ t <= now
  /\ timers[t] > 0
  /\ timers' = Remove(timers, t)
  /\ IF times[t] > 0
     THEN times' = Remove(times, t) /\ Write(times')
     ELSE UNCHANGED <<times, file>>
  /\ UNCHANGED <<now, up>>

\* The timers of the dropped entries stay.
Reset ==
  /\ up
  /\ times' = Empty
  /\ Write(times')
  /\ UNCHANGED <<now, timers, up>>

Crash ==
  /\ up
  /\ up' = FALSE
  /\ times' = Empty
  /\ timers' = Empty
  /\ UNCHANGED <<now, file>>

\* Mutant: the timers are not started.
RestartWithoutTimers ==
  /\ ~up
  /\ up' = TRUE
  /\ times' = file
  /\ UNCHANGED <<now, timers, file>>

\* NewPersistentAutoDecrementCounter: the timers of entries which are due
\* fire at once.
Restart ==
  /\ ~up
  /\ up' = TRUE
  /\ times' = file
  /\ timers' = file
  /\ UNCHANGED <<now, file>>

Tick ==
  /\ now < MaxTime + Duration
  /\ now' = now + 1
  /\ UNCHANGED <<times, timers, file, up>>

BoundedInc == now <= MaxTime /\ timers[now + Duration] < MaxCount /\ Inc

Next ==
  \/ BoundedInc \/ Reset \/ Crash \/ Restart \/ Tick
  \/ \E t \in Instants : Fire(t)

Spec == Init /\ [][Next]_vars

FairSpec ==
  /\ Spec
  /\ WF_vars(Tick) /\ WF_vars(Restart)
  /\ \A t \in Instants : WF_vars(Fire(t))

(***************************************************************************)
(* The Throttler.                                                          *)
(***************************************************************************)
Total(list) ==
  LET sum[k \in 0 .. MaxTime + Duration + 1] ==
        IF k = 0 THEN 0 ELSE sum[k - 1] + list[k - 1]
  IN  sum[MaxTime + Duration + 1]

IsThrottled == Total(times) >= Threshold

\* The entries of the list which are at or before the instant t.
UpTo(list, t) == Total([u \in Instants |-> IF u <= t THEN list[u] ELSE 0])

\* The k-th entry, from 0, of the sorted list.
Sorted(list, k) ==
  CHOOSE t \in Instants : UpTo(list, t) > k /\ UpTo(list, t) - list[t] <= k

NoTime == MaxTime + Duration + 1

\* Mutant: off by one.
ThrottledUntilNext ==
  IF Total(times) < Threshold THEN NoTime
  ELSE Sorted(times, Total(times) - Threshold + 1)

ThrottledUntil ==
  IF Total(times) < Threshold THEN NoTime
  ELSE Sorted(times, Total(times) - Threshold)

(***************************************************************************)
(* Properties.                                                             *)
(***************************************************************************)

\* Every variable has its type.
TypeOK ==
  /\ now \in Instants
  /\ times \in Lists
  /\ timers \in Lists
  /\ file \in Lists
  /\ up \in BOOLEAN

\* Each entry of the list has a timer which will remove it: no reset, failed
\* write or restart leaves an entry behind which counts forever.
EveryEntryHasATimer == \A t \in Instants : times[t] <= timers[t]

\* ThrottledUntil is the first instant by which so many entries are due that
\* the rest is below the threshold.
ThrottledUntilIsExact ==
  LET Below(t) == Total(times) - UpTo(times, t) < Threshold
  IN  IF IsThrottled
      THEN Below(ThrottledUntil)
             /\ \A t \in Instants : t < ThrottledUntil => ~Below(t)
      ELSE ThrottledUntil = NoTime

\* A throttle which is reached is released again, even across crashes, as
\* long as the process comes up and stays up.
ThrottleIsReleased == <>[]up => []<>~IsThrottled
=============================================================================
