------------------------------ MODULE BusLife ------------------------------
(***************************************************************************)
(* The life of one bus as its owners see it: it is created by one of them, *)
(* lives as long as there is one, and is then closed, once, by whoever let *)
(* go last, after its receiver has ended.  The receiver owns the bus for   *)
(* the time of a dispatch; when that makes it the last owner, it waits for *)
(* itself and the bus is never closed.                                     *)
(*                                                                         *)
(* Bus shows how a bus keeps to this with all its threads, from activation *)
(* on; Factory relies on it for several buses at a time.                   *)
(***************************************************************************)
CONSTANTS
  Owners,   \* connectors, or the clients that have them
  Receiver  \* the reference that the bus' own receiver takes

VARIABLES
  state,    \* "none", "created", "active", "closing" or "gone"
  refs,     \* the owners
  receiver  \* "none", "running", "dispatching", "stopped" or "stuck"

vars == <<state, refs, receiver>>

Init ==
  /\ state = "none"
  /\ refs = {}
  /\ receiver = "none"

\* What activation leaves.
Activated ==
  /\ state = "active"
  /\ refs # {} /\ refs \subseteq Owners
  /\ receiver = "running"

Create(o) ==
  /\ state = "none"
  /\ state' = "created"
  /\ refs' = {o}
  /\ UNCHANGED receiver

Activate ==
  /\ state = "created"
  /\ state' = "active"
  /\ receiver' = "running"
  /\ UNCHANGED refs

ActivateThrows ==
  /\ state = "created"
  /\ state' = "gone"
  /\ refs' = {}
  /\ UNCHANGED receiver

\* Only a bus that is owned gets new owners: none comes back to life.
Share(o) ==
  /\ state = "active" /\ refs # {}
  /\ refs' = refs \cup {o}
  /\ UNCHANGED <<state, receiver>>

LetGo(o) ==
  /\ o \in refs
  /\ refs' = refs \ {o}
  /\ state' = IF refs = {o} THEN "closing" ELSE state

Release(o) ==
  /\ state = "active"
  /\ LetGo(o)
  /\ UNCHANGED receiver

Pin ==
  /\ receiver = "running" /\ refs # {}
  /\ refs' = refs \cup {Receiver}
  /\ receiver' = "dispatching"
  /\ UNCHANGED state

Unpin ==
  /\ receiver = "dispatching"
  /\ LetGo(Receiver)
  /\ receiver' = IF refs = {Receiver} THEN "stuck" ELSE "running"

\* On request, or by itself after an exception.
ReceiverEnds ==
  /\ receiver = "running"
  /\ receiver' = "stopped"
  /\ UNCHANGED <<state, refs>>

Close ==
  /\ state = "closing"
  /\ receiver = "stopped"
  /\ state' = "gone"
  /\ UNCHANGED <<refs, receiver>>

Next ==
  \/ \E o \in Owners : Create(o) \/ Share(o) \/ Release(o)
  \/ Activate \/ ActivateThrows
  \/ Pin \/ Unpin \/ ReceiverEnds
  \/ Close

Spec == Init /\ [][Next]_vars

FromActivation == Activated /\ [][Next]_vars

---------------------------------------------------------------------------

\* What follows for the owners: whoever has a reference has a bus that is up
\* or being brought up; whoever closes one waits for a receiver that has
\* nothing left to do, unless it is the receiver; and a bus that is closed has
\* neither an owner nor a receiver.
OwnedOrOver ==
  /\ refs # {} <=> state \in {"created", "active"}
  /\ state = "active" => receiver \in {"running", "dispatching", "stopped"}
  /\ state = "closing" => receiver \in {"running", "stopped", "stuck"}
  /\ state = "gone" => receiver \in {"none", "stopped"}
=============================================================================
