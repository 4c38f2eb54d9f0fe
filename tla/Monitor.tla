------------------------------ MODULE Monitor ------------------------------
(***************************************************************************)
(* What a mutex and a condition variable promise together: at most one     *)
(* thread owns the mutex, which may lock it several times and gives it up  *)
(* when it has unlocked it as often, and a thread that waits for the       *)
(* condition comes back as the owner.  A wait gives up one lock, and may   *)
(* end without a notification.  Once an owner has overtaken those who wait *)
(* nothing is promised any more.                                           *)
(***************************************************************************)
EXTENDS Naturals

CONSTANTS Threads, Nobody

VARIABLES owner,
          depth,     \* how often the owner has locked the mutex
          waiting, overtaken

vars == <<owner, depth, waiting, overtaken>>

Init == owner = Nobody /\ depth = 0 /\ waiting = {} /\ overtaken = FALSE

Takes(t) ==
  /\ owner \in {Nobody, t}
  /\ owner' = t /\ depth' = depth + 1

Gives(t) ==
  /\ owner = t
  /\ owner' = IF depth = 1 THEN Nobody ELSE t
  /\ depth' = depth - 1

Acquire(t) == t \notin waiting /\ Takes(t) /\ UNCHANGED <<waiting, overtaken>>

Release(t) == t \notin waiting /\ Gives(t) /\ UNCHANGED <<waiting, overtaken>>

Wait(t) ==
  /\ t \notin waiting /\ Gives(t)
  /\ waiting' = waiting \cup {t}
  /\ UNCHANGED overtaken

Return(t) ==
  /\ t \in waiting /\ Takes(t)
  /\ waiting' = waiting \ {t}
  /\ UNCHANGED overtaken

Overtake == overtaken'

Next ==
  \/ Overtake
  \/ \E t \in Threads : Acquire(t) \/ Release(t) \/ Wait(t) \/ Return(t)

Spec == Init /\ [][Next]_vars
=============================================================================
