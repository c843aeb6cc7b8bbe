---------------------------- MODULE AssemblyPool ----------------------------
(***************************************************************************)
(* The pool in which fragmented notifications are put together (class      *)
(* AssemblyPool with Assembly and PruningTask).  Three kinds of threads    *)
(* meet in it: the receiver, which adds fragments in the order, and as     *)
(* often, as the network brings them; the pruning task, which scans for    *)
(* old assemblies; and callers of setPruning, of whom the Owner also       *)
(* destroys the pool.                                                      *)
(*                                                                         *)
(* add() runs under poolMutex from end to end and is one step.  The scan   *)
(* holds poolMutex over many steps, setPruning(false) holds pruningMutex   *)
(* while it waits.  A fragment <<e, i>> is part i of event e, and the      *)
(* event stands for the key of sender id and sequence number.              *)
(***************************************************************************)
EXTENDS Naturals, FiniteSets

CONSTANTS
  Events,       \* fragmented events (their keys in the pool)
  Parts,        \* num_data_parts of each event
  Controllers,  \* threads that call setPruning
  Owner,        \* the controller that destroys the pool
  MaxAge,       \* pruningAgeS
  MaxCopies,    \* bound: how often the network delivers one fragment
  None          \* no controller

ASSUME PartsAssumption == Parts \in [Events -> Nat \ {0}]

ASSUME OwnerAssumption == Owner \in Controllers /\ None \notin Controllers

\* The constructor rejects an age of 0.
ASSUME AgeAssumption == MaxAge \in Nat \ {0}

ASSUME CopiesAssumption == MaxCopies \in Nat

PartsOf(e) == 0..(Parts[e] - 1)
Fragments == UNION {{e} \X PartsOf(e) : e \in Events}

VARIABLES
  inTransit,         \* copies of each fragment still to arrive
  pooled,            \* keys of the pool
  store,             \* filled slots of Assembly::store
  receivedParts,     \* Assembly::receivedParts
  age,               \* Assembly::age() in seconds, up to MaxAge + 1
  task,              \* state of pruningTask, or "none" for a null pointer
  cancelled,         \* its cancel flag
  todo,              \* keys the scan has still to look at
  pruningMutex,      \* the controller that holds it, or None
  phase,             \* "alive", or in or past the destructor
  delivered,         \* history: complete notifications returned by add()
  added, discarded   \* history: fragments accepted, and pruned

poolVars == <<pooled, store, receivedParts, age>>
taskVars == <<task, cancelled, todo>>
history == <<inTransit, delivered, added, discarded>>
vars == <<poolVars, taskVars, history, pruningMutex, phase>>

TypeOK ==
  /\ inTransit \in [Fragments -> 0..MaxCopies]
  /\ pooled \subseteq Events
  /\ store \in [Events -> SUBSET Nat]
  /\ receivedParts \in [Events -> Nat]
  /\ \A e \in Events : receivedParts[e] \in PartsOf(e)
  /\ age \in [Events -> 0..(MaxAge + 1)]
  /\ task \in {"none", "sleeping", "locking", "scanning", "done"}
  /\ cancelled \in BOOLEAN
  /\ todo \subseteq Events
  /\ pruningMutex \in Controllers \cup {None}
  /\ phase \in {"alive", "dying", "dead"}
  /\ delivered \in [Events -> Nat]
  /\ added \in [Fragments -> Nat]
  /\ discarded \in [Fragments -> Nat]

\* A fragment may be lost (no copy arrives) or repeated.
Init ==
  /\ inTransit \in [Fragments -> 0..MaxCopies]
  /\ pooled = {}
  /\ store = [e \in Events |-> {}]
  /\ receivedParts = [e \in Events |-> 0]
  /\ age = [e \in Events |-> 0]
  /\ task = "none" /\ cancelled = FALSE /\ todo = {}
  /\ pruningMutex = None
  /\ phase = "alive"
  /\ delivered = [e \in Events |-> 0]
  /\ added = [f \in Fragments |-> 0]
  /\ discarded = [f \in Fragments |-> 0]

---------------------------------------------------------------------------
(* add(). *)

\* Mutant: the pruning task does not lock poolMutex.
PoolNeverLocked == FALSE

PoolLocked == task = "scanning"

Arrives(e, i) ==
  /\ inTransit[<<e, i>>] > 0
  /\ inTransit' = [inTransit EXCEPT ![<<e, i>>] = @ - 1]

\* Mutant: completeness is looked at before the fragment is counted.
CompleteLate(e) == receivedParts[e] = Parts[e]

\* isComplete() compares the counter with the number of slots.
Complete(e) == receivedParts[e] + 1 = Parts[e]

\* Mutant: a repeated fragment is counted again.
AddUnchecked(e, i) ==
  /\ phase = "alive" /\ ~PoolLocked
  /\ Arrives(e, i)
  /\ added' = [added EXCEPT ![<<e, i>>] = @ + 1]
  /\ \/ /\ Complete(e)
        /\ pooled' = pooled \ {e}
        /\ store' = [store EXCEPT ![e] = {}]
        /\ receivedParts' = [receivedParts EXCEPT ![e] = 0]
        /\ age' = [age EXCEPT ![e] = 0]
        /\ delivered' = [delivered EXCEPT ![e] = @ + 1]
     \/ /\ ~Complete(e)
        /\ pooled' = pooled \cup {e}
        /\ store' = [store EXCEPT ![e] = @ \cup {i}]
        /\ receivedParts' = [receivedParts EXCEPT ![e] = @ + 1]
        /\ UNCHANGED <<age, delivered>>
  /\ UNCHANGED <<taskVars, pruningMutex, phase, discarded>>

\* Assembly::add, on the existing assembly or from the constructor of a new
\* one, and getCompleteNotification when it completes the assembly.
Add(e, i) ==
  /\ phase = "alive" /\ ~PoolLocked
  /\ Arrives(e, i)
  /\ i \notin store[e]
  /\ added' = [added EXCEPT ![<<e, i>>] = @ + 1]
  /\ \/ /\ Complete(e)
        /\ pooled' = pooled \ {e}
        /\ store' = [store EXCEPT ![e] = {}]
        /\ receivedParts' = [receivedParts EXCEPT ![e] = 0]
        /\ age' = [age EXCEPT ![e] = 0]
        /\ delivered' = [delivered EXCEPT ![e] = @ + 1]
     \/ /\ ~Complete(e)
        /\ pooled' = pooled \cup {e}
        /\ store' = [store EXCEPT ![e] = @ \cup {i}]
        /\ receivedParts' = [receivedParts EXCEPT ![e] = @ + 1]
        /\ UNCHANGED <<age, delivered>>
  /\ UNCHANGED <<taskVars, pruningMutex, phase, discarded>>

\* Mutant: the part is counted before the slot is looked at.
AddThrowsCounted(e, i) ==
  /\ phase = "alive" /\ ~PoolLocked
  /\ Arrives(e, i)
  /\ i \in store[e]
  /\ receivedParts' = [receivedParts EXCEPT ![e] = @ + 1]
  /\ UNCHANGED <<pooled, store, age, taskVars, pruningMutex, phase, delivered,
                 added, discarded>>

\* The fragment is already there: ProtocolException, and nothing changes.
AddThrows(e, i) ==
  /\ phase = "alive" /\ ~PoolLocked
  /\ Arrives(e, i)
  /\ i \in store[e]
  /\ UNCHANGED <<poolVars, taskVars, pruningMutex, phase, delivered, added,
                 discarded>>

---------------------------------------------------------------------------
(* The pruning task, a PeriodicTask. *)

\* Mutant: the task does not look at its cancel flag.
WakeAlways ==
  /\ task = "sleeping"
  /\ task' = "locking"
  /\ UNCHANGED <<poolVars, history, cancelled, todo, pruningMutex, phase>>

Wake ==
  /\ task = "sleeping"
  /\ task' = IF cancelled THEN "done" ELSE "locking"
  /\ UNCHANGED <<poolVars, history, cancelled, todo, pruningMutex, phase>>

LockPool ==
  /\ task = "locking"
  /\ task' = "scanning"
  /\ todo' = pooled
  /\ UNCHANGED <<poolVars, history, cancelled, pruningMutex, phase>>

Scan(e) ==
  /\ task = "scanning"
  /\ e \in todo
  /\ todo' = todo \ {e}
  /\ \/ /\ age[e] > MaxAge
        /\ pooled' = pooled \ {e}
        /\ store' = [store EXCEPT ![e] = {}]
        /\ receivedParts' = [receivedParts EXCEPT ![e] = 0]
        /\ age' = [age EXCEPT ![e] = 0]
        /\ discarded' = [f \in Fragments |->
             discarded[f] + IF f[1] = e /\ f[2] \in store[e] THEN 1 ELSE 0]
     \/ /\ age[e] <= MaxAge
        /\ UNCHANGED <<poolVars, discarded>>
  /\ UNCHANGED <<task, cancelled, pruningMutex, phase, inTransit, delivered,
                 added>>

\* Mutant: the task ends after its first scan.
UnlockPoolOnce ==
  /\ task = "scanning"
  /\ todo = {}
  /\ task' = "done"
  /\ UNCHANGED <<poolVars, history, cancelled, todo, pruningMutex, phase>>

UnlockPool ==
  /\ task = "scanning"
  /\ todo = {}
  /\ task' = "sleeping"
  /\ UNCHANGED <<poolVars, history, cancelled, todo, pruningMutex, phase>>

PrunerStep == Wake \/ LockPool \/ (\E e \in Events : Scan(e)) \/ UnlockPool

\* A second passes.
Tick ==
  /\ age' = [e \in Events |->
       IF e \in pooled /\ age[e] <= MaxAge THEN age[e] + 1 ELSE age[e]]
  /\ age' # age
  /\ UNCHANGED <<pooled, store, receivedParts, taskVars, history, pruningMutex,
                 phase>>

---------------------------------------------------------------------------
(* setPruning() and the destructor. *)

isPruning == task # "none"

Idle == phase = "alive" /\ pruningMutex = None

StartPruning ==
  /\ Idle
  /\ ~isPruning
  /\ task' = "sleeping"
  /\ cancelled' = FALSE
  /\ UNCHANGED <<poolVars, history, todo, pruningMutex, phase>>

StopPruning(k) ==
  /\ Idle
  /\ isPruning
  /\ cancelled' = TRUE
  /\ pruningMutex' = k
  /\ UNCHANGED <<poolVars, history, task, todo, phase>>

\* Mutant: the caller does not wait for the task.
StopReturnsAtOnce(k) ==
  /\ pruningMutex = k
  /\ pruningMutex' = None
  /\ phase' = IF phase = "dying" THEN "dead" ELSE phase
  /\ UNCHANGED <<poolVars, history, taskVars>>

\* waitDone().  The pointer to the task stays, and isPruning() stays true.
StopReturns(k) ==
  /\ pruningMutex = k
  /\ task = "done"
  /\ pruningMutex' = None
  /\ phase' = IF phase = "dying" THEN "dead" ELSE phase
  /\ UNCHANGED <<poolVars, history, taskVars>>

\* ~AssemblyPool is setPruning(false) by the owner, when nobody else is in
\* the pool.
Destroy ==
  /\ Idle
  /\ \/ /\ isPruning
        /\ cancelled' = TRUE
        /\ pruningMutex' = Owner
        /\ phase' = "dying"
     \/ /\ ~isPruning
        /\ phase' = "dead"
        /\ UNCHANGED <<cancelled, pruningMutex>>
  /\ UNCHANGED <<poolVars, history, task, todo>>

---------------------------------------------------------------------------
Next ==
  \/ \E e \in Events : \E i \in PartsOf(e) : Add(e, i) \/ AddThrows(e, i)
  \/ PrunerStep
  \/ Tick
  \/ StartPruning
  \/ \E k \in Controllers : StopPruning(k) \/ StopReturns(k)
  \/ Destroy

Spec == Init /\ [][Next]_vars

\* Time passes, the pruning task is run, and a caller that can return does.
FairSpec ==
  /\ Spec
  /\ WF_vars(Tick)
  /\ WF_vars(PrunerStep)
  /\ \A k \in Controllers : WF_vars(StopReturns(k))

---------------------------------------------------------------------------
(* Safety. *)

\* Every fragment that add() has accepted is in exactly one place: in a
\* notification that was returned, among the pruned, or in its slot.  So a
\* notification is made of one copy of each of its parts, under any loss,
\* repetition, reordering and pruning in between (Assembly::add,
\* AssemblyPool::add, PruningTask::execute).
FragmentsConserved ==
  \A f \in Fragments :
    added[f] = delivered[f[1]] + discarded[f]
                 + IF f[2] \in store[f[1]] THEN 1 ELSE 0

\* The counter that decides completeness agrees with the slots that are
\* filled, and nothing is left of an assembly that was taken out.
PoolIsSound ==
  \A e \in Events :
    /\ store[e] \subseteq PartsOf(e)
    /\ receivedParts[e] = Cardinality(store[e])
    /\ e \in pooled <=> store[e] # {}

\* An event of which every part was accepted and none pruned has been
\* returned: no completion goes unnoticed.
CompleteIsDelivered ==
  \A e \in Events :
    (\A i \in PartsOf(e) : added[<<e, i>>] > 0 /\ discarded[<<e, i>>] = 0)
      => delivered[e] > 0

\* No element the scan has still to visit is erased under it: its iterator
\* stays valid (poolMutex in add and in PruningTask::execute).
IteratorStaysValid == todo \subseteq pooled

\* When setPruning(false), or the destructor, has returned, the task has
\* ended and will not touch the pool again.
StoppedWhenReturned ==
  pruningMutex = None /\ cancelled => task = "done"

---------------------------------------------------------------------------
(* Liveness. *)

\* While pruning is on, an assembly that is never completed goes away.
StaleIsPruned ==
  \A e \in Events :
    e \in pooled /\ task \notin {"none", "done"} ~> e \notin pooled \/ cancelled

\* setPruning(false) and the destructor return, whatever the task is doing.
StoppingReturns == pruningMutex # None ~> pruningMutex = None

---------------------------------------------------------------------------
(* What the interface says, and the code does not keep. *)


=============================================================================
