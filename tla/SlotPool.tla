------------------------------ MODULE SlotPool ------------------------------
(***************************************************************************)
(* What a limiter promises, without channels, mutexes or deferred calls:   *)
(* there is a fixed number of slots; a client takes a free one and returns *)
(* it once, and no slot is lost or comes from nowhere.                     *)
(***************************************************************************)
EXTENDS Integers

CONSTANTS
  Clients,   \* those who may take a slot
  Capacity   \* the number of slots

VARIABLES
  holders,   \* the clients that have a slot
  free       \* the number of slots nobody has

Init == holders = {} /\ free = Capacity

Acquire(c) ==
  /\ c \notin holders /\ free > 0
  /\ holders' = holders \cup {c}
  /\ free' = free - 1

Release(c) ==
  /\ c \in holders
  /\ holders' = holders \ {c}
  /\ free' = free + 1

Next == \E c \in Clients : Acquire(c) \/ Release(c)

Spec == Init /\ [][Next]_<<holders, free>>
=============================================================================
