------------------------------ MODULE RollSlot ------------------------------
(***************************************************************************)
(* What an AutoRoller promises to the two repositories between which it    *)
(* rolls: it has one slot for a roll CL.  A roll is put into the slot only *)
(* while it is free, to a revision of the child which is newer than the    *)
(* one the roller last saw in the parent, and leaves the slot when it is   *)
(* abandoned or lands, on the revision which it rolls from.                *)
(*                                                                         *)
(* The roll is made against the parent as it is, or as the roller has got  *)
(* it.  Either may be newer than what the roller saw when it chose the     *)
(* revision, so a roll can go back: RollSlot does not promise the          *)
(* contrary.                                                               *)
(*                                                                         *)
(* Modes, throttles, votes, retries, restarts and whatever fails are not   *)
(* to be seen from here.                                                   *)
(***************************************************************************)
EXTENDS Naturals

CONSTANT
  Names         \* the names of the roll CLs

VARIABLES
  child,        \* the newest revision of the child
  parent,       \* the revision of the child which the parent uses
  slot,         \* the open roll, as a set
  seen,         \* the parent as the roller saw it when it chose a revision
  base          \* the parent as the roller has got it

repos == <<child, parent, slot>>
known == <<seen, base>>

SlotInit ==
  /\ child = 0
  /\ parent = 0
  /\ slot = {}
  /\ seen = 0
  /\ base = 0

\* Somebody lands a change in the child, or rolls it by other means.
ChildGrows == child' = child + 1 /\ UNCHANGED <<parent, slot, known>>
ParentIsMoved ==
  parent' \in parent + 1 .. child /\ UNCHANGED <<child, slot, known>>

\* The roller looks at the parent, or forgets what it has seen.
Look ==
  /\ seen' \in {seen, parent, 0}
  /\ base' \in {base, parent, 0}
  /\ UNCHANGED repos

Open ==
  /\ slot = {}
  /\ \E name \in Names, old \in {parent, base}, new \in seen + 1 .. child :
       slot' = {[name |-> name, from |-> old, to |-> new]}
  /\ UNCHANGED <<child, parent, known>>

Land ==
  \E roll \in slot :
    /\ roll.from = parent
    /\ parent' = roll.to
    /\ slot' = slot \ {roll}
    /\ UNCHANGED <<child, known>>

\* This is also how a roll which changes nothing leaves.
Abandon ==
  \E roll \in slot : slot' = slot \ {roll} /\ UNCHANGED <<child, parent, known>>

SlotNext == ChildGrows \/ ParentIsMoved \/ Look \/ Open \/ Land \/ Abandon

SlotSpec == SlotInit /\ [][SlotNext]_<<repos, known>>
=============================================================================
