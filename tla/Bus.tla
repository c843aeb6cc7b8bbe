-------------------------------- MODULE Bus --------------------------------
(***************************************************************************)
(* One active BusImpl with everything that shares it: the receiver thread  *)
(* of its ReceiverTask, in-connectors (the sinks) and out-connectors       *)
(* (publishers).  Each connector is driven by the thread that owns it, and *)
(* thread and connector go by one name.  Handlers run on whatever thread   *)
(* dispatches: the receiver for messages from the daemon, a publisher for  *)
(* its own notifications.                                                  *)
(*                                                                         *)
(* A step is what a thread does between two points at which another thread *)
(* can matter.  Taking sinkMutex is one step with the first access it      *)
(* protects, releasing it one step with the last.                          *)
(***************************************************************************)
EXTENDS MembershipManager, FiniteSets

CONSTANTS
  Connectors,   \* in-connectors
  Publishers,   \* out-connectors
  Receiver,     \* the thread that executes the ReceiverTask
  None,         \* no thread, no connector
  GroupOf,      \* GroupNameCache::scopeToGroup
  SuperScopes,  \* a scope and all its super-scopes
  MaxWork       \* bound: activations, published and delivered messages

Users == Connectors \cup Publishers
Dispatchers == Publishers \cup {Receiver}
Threads == Users \cup {Receiver}

ASSUME FiniteAssumption == IsFiniteSet(Connectors)

ASSUME ThreadAssumption ==
  /\ Connectors \cap Publishers = {}
  /\ Receiver \notin Users
  /\ None \notin Threads
  /\ Users # {}  \* a bus is obtained for a connector

\* Two scopes may have one group name.
ASSUME ScopeAssumption ==
  /\ GroupOf \in [Scopes -> Groups]
  /\ SuperScopes \in [Scopes -> SUBSET Scopes]

ASSUME WorkAssumption == MaxWork \in Nat

VARIABLES
  pc,         \* where each thread is
  scope,      \* InConnector::scope
  active,     \* ConnectorBase::active of the in-connectors
  held,       \* in-connectors whose owner still has its shared_ptr
  sinks,      \* BusImpl::scopeDispatcher
  sinkMutex,  \* the thread that holds BusImpl::sinkMutex, or None
  todo,       \* sinks the mapSinks loop has still to visit
  handling,   \* the sink mapSinks is calling, or None
  inHand,     \* what each dispatcher dispatches; Garbage: an exception
  busRefs,    \* threads (connectors) with a shared_ptr to the bus
  cancelled,  \* the task's cancel flag
  failure,    \* how the process has ended, or "none"
  work        \* counted against MaxWork

busVars == <<pc, scope, active, held, sinks, sinkMutex, todo, handling,
             inHand, busRefs, cancelled, failure, work>>
vars == <<connVars, groups, busVars>>

Destructing == {"canceling", "interrupting", "waiting", "disconnecting"}
Adding == {"adding", "registering"}
Removing == {"removing", "leaving"}
Dispatching == {"locking", "dispatching", "unpinning", "destroying"}

PC == {"idle", "dropping", "gone"} \cup Adding \cup Removing \cup Dispatching
        \cup {"loop", "receiving", "pinning", "done"} \cup Destructing

TypeOK ==
  /\ ConnTypeOK
  /\ MembersTypeOK
  /\ pc \in [Threads -> PC]
  /\ scope \in [Connectors -> Scopes]
  /\ active \in [Connectors -> BOOLEAN]
  /\ held \subseteq Connectors
  /\ sinks \subseteq Connectors
  /\ sinkMutex \in Threads \cup {None}
  /\ todo \subseteq Connectors
  /\ handling \in Connectors \cup {None}
  /\ inHand \in [Dispatchers -> Scopes \cup {Garbage}]
  /\ busRefs \subseteq Threads
  /\ cancelled \in BOOLEAN
  /\ failure \in {"none", "assert", "terminate"}
  /\ work \in 0..MaxWork

\* What Factory::obtainBus leaves: a connected session, an active bus with
\* the receiver running, and a reference to it in every connector.
Init ==
  /\ ConnInit
  /\ MembersInit
  /\ pc = [t \in Threads |-> IF t = Receiver THEN "loop" ELSE "idle"]
  /\ scope \in [Connectors -> Scopes]
  /\ active = [c \in Connectors |-> FALSE]
  /\ held = Connectors
  /\ sinks = {}
  /\ sinkMutex = None
  /\ todo = {}
  /\ handling = None
  /\ inHand = [d \in Dispatchers |-> Garbage]
  /\ busRefs = Users
  /\ cancelled = FALSE
  /\ failure = "none"
  /\ work = 0

\* Where a thread may go on from.  An ended process does nothing.
At(t, label) == failure = "none" /\ pc[t] = label

Goto(t, label) == pc' = [pc EXCEPT ![t] = label]

Worked ==
  /\ work < MaxWork
  /\ work' = work + 1

---------------------------------------------------------------------------
(* In-connectors: activate and addSink. *)

Activate(c) ==
  /\ At(c, "idle") /\ c \in held /\ ~active[c]
  /\ Worked
  /\ \E s \in Scopes : scope' = [scope EXCEPT ![c] = s]  \* setScope
  /\ Goto(c, "adding")
  /\ UNCHANGED <<connVars, groups, active, held, sinks, sinkMutex, todo,
                 handling, inHand, busRefs, cancelled, failure>>

\* Mutant: the exception of join() leaves the mutex locked.
LockAndJoinKeepsLock(c) ==
  /\ At(c, "adding")
  /\ sinkMutex = None
  /\ sinkMutex' = c
  /\ \/ Join(GroupOf[scope[c]]) /\ Goto(c, "registering")
     \/ JoinThrows(GroupOf[scope[c]]) /\ Goto(c, "idle")
  /\ UNCHANGED <<scope, active, held, sinks, todo, handling, inHand, busRefs,
                 cancelled, failure, work>>

LockAndJoin(c) ==
  /\ At(c, "adding")
  /\ sinkMutex = None
  /\ \/ /\ Join(GroupOf[scope[c]])
        /\ sinkMutex' = c
        /\ Goto(c, "registering")
     \/ /\ JoinThrows(GroupOf[scope[c]])  \* out of activate()
        /\ Goto(c, "idle")
        /\ UNCHANGED sinkMutex
  /\ UNCHANGED <<scope, active, held, sinks, todo, handling, inHand, busRefs,
                 cancelled, failure, work>>

Register(c) ==
  /\ At(c, "registering")
  /\ sinks' = sinks \cup {c}
  /\ sinkMutex' = None
  /\ active' = [active EXCEPT ![c] = TRUE]
  /\ Goto(c, "idle")
  /\ UNCHANGED <<connVars, groups, scope, held, todo, handling, inHand,
                 busRefs, cancelled, failure, work>>

---------------------------------------------------------------------------
(* In-connectors: deactivate and removeSink, called by the owner or by the *)
(* destructor.                                                             *)

Deactivate(c) ==
  /\ At(c, "idle") /\ c \in held /\ active[c]
  /\ Goto(c, "removing")
  /\ UNCHANGED <<connVars, groups, scope, active, held, sinks, sinkMutex,
                 todo, handling, inHand, busRefs, cancelled, failure, work>>

\* Mutant: removeSink does not wait for the mutex.
UnregisterWithoutLock(c) ==
  /\ At(c, "removing")
  /\ sinks' = sinks \ {c}
  /\ sinkMutex' = c
  /\ Goto(c, "leaving")
  /\ UNCHANGED <<connVars, groups, scope, active, held, todo, handling,
                 inHand, busRefs, cancelled, failure, work>>

LockAndUnregister(c) ==
  /\ At(c, "removing")
  /\ sinkMutex = None
  /\ sinks' = sinks \ {c}
  /\ sinkMutex' = c
  /\ Goto(c, "leaving")
  /\ UNCHANGED <<connVars, groups, scope, active, held, todo, handling,
                 inHand, busRefs, cancelled, failure, work>>

LeaveReturns(c) ==
  /\ At(c, "leaving")
  /\ Leave(GroupOf[scope[c]])
  /\ sinkMutex' = None
  /\ active' = [active EXCEPT ![c] = FALSE]
  /\ Goto(c, IF c \in held THEN "idle" ELSE "dropping")
  /\ UNCHANGED <<scope, held, sinks, todo, handling, inHand, busRefs,
                 cancelled, failure, work>>

\* The exception passes deactivate() before it clears the active flag; out
\* of a destructor it terminates the process.
LeaveThrown(c) ==
  /\ At(c, "leaving")
  /\ LeaveThrows(GroupOf[scope[c]])
  /\ sinkMutex' = None
  /\ Goto(c, "idle")
  /\ failure' = IF c \in held THEN "none" ELSE "terminate"
  /\ UNCHANGED <<scope, active, held, sinks, todo, handling, inHand, busRefs,
                 cancelled, work>>

LeaveAsserted(c) ==
  /\ At(c, "leaving")
  /\ LeaveAsserts(GroupOf[scope[c]])
  /\ failure' = "assert"
  /\ UNCHANGED <<pc, scope, active, held, sinks, sinkMutex, todo, handling,
                 inHand, busRefs, cancelled, work>>

---------------------------------------------------------------------------
(* Dropping connectors and, with the last of them, the bus. *)

\* The owner resets its pointer.  If a dispatcher is calling the sink it
\* has the other reference, and the destructor is left to it.
DropConnector(c) ==
  /\ At(c, "idle") /\ c \in held
  /\ held' = held \ {c}
  /\ Goto(c, IF handling = c THEN "gone"
             ELSE IF active[c] THEN "removing" ELSE "dropping")
  /\ UNCHANGED <<connVars, groups, scope, active, sinks, sinkMutex, todo,
                 handling, inHand, busRefs, cancelled, failure, work>>

DropPublisher(p) ==
  /\ At(p, "idle")
  /\ Goto(p, "dropping")
  /\ UNCHANGED <<connVars, groups, scope, active, held, sinks, sinkMutex,
                 todo, handling, inHand, busRefs, cancelled, failure, work>>

\* ~ConnectorBase releases the connector's reference to the bus.
ReleaseBus(t) ==
  /\ At(t, "dropping")
  /\ busRefs' = busRefs \ {t}
  /\ Goto(t, IF busRefs = {t} THEN "canceling" ELSE "gone")
  /\ UNCHANGED <<connVars, groups, scope, active, held, sinks, sinkMutex,
                 todo, handling, inHand, cancelled, failure, work>>

\* ~BusImpl: deactivate() on the thread that had the last reference.
Cancel(t) ==
  /\ At(t, "canceling")
  /\ cancelled' = TRUE
  /\ Goto(t, "interrupting")
  /\ UNCHANGED <<connVars, groups, scope, active, held, sinks, sinkMutex,
                 todo, handling, inHand, busRefs, failure, work>>

Interrupting(t) ==
  /\ At(t, "interrupting")
  /\ InterruptReceive
  /\ Goto(t, "waiting")
  /\ UNCHANGED <<groups, scope, active, held, sinks, sinkMutex, todo,
                 handling, inHand, busRefs, cancelled, failure, work>>

\* Mutant: the destructor does not wait for the receiver.
WaitDoneSkipped(t) ==
  /\ At(t, "waiting")
  /\ Goto(t, "disconnecting")
  /\ UNCHANGED <<connVars, groups, scope, active, held, sinks, sinkMutex,
                 todo, handling, inHand, busRefs, cancelled, failure, work>>

WaitDone(t) ==
  /\ At(t, "waiting")
  /\ pc[Receiver] = "done"
  /\ Goto(t, "disconnecting")
  /\ UNCHANGED <<connVars, groups, scope, active, held, sinks, sinkMutex,
                 todo, handling, inHand, busRefs, cancelled, failure, work>>

Disconnecting(t) ==
  /\ At(t, "disconnecting")
  /\ Disconnect
  /\ Goto(t, "gone")
  /\ UNCHANGED <<groups, scope, active, held, sinks, sinkMutex, todo,
                 handling, inHand, busRefs, cancelled, failure, work>>

DestructBus(t) ==
  Cancel(t) \/ Interrupting(t) \/ WaitDone(t) \/ Disconnecting(t)

---------------------------------------------------------------------------
(* The receiver thread: RepetitiveTask calls execute() until cancelled. *)

Loop ==
  /\ At(Receiver, "loop")
  /\ Goto(Receiver, IF cancelled THEN "done" ELSE "receiving")
  /\ UNCHANGED <<connVars, groups, scope, active, held, sinks, sinkMutex,
                 todo, handling, inHand, busRefs, cancelled, failure, work>>

\* Mutant: receive() does not recognise the interrupt.
ReceiveAnything ==
  /\ At(Receiver, "receiving")
  /\ \E m \in Message :
       /\ ReceiveMessage(m)
       /\ inHand' = [inHand EXCEPT ![Receiver] = m]
  /\ Goto(Receiver, "pinning")
  /\ UNCHANGED <<groups, scope, active, held, sinks, sinkMutex, todo,
                 handling, busRefs, cancelled, failure, work>>

\* receive() and handleMessage(): a notification, or an exception that is
\* passed to handleError, or the interrupt, after which execute() returns.
Receive ==
  /\ At(Receiver, "receiving")
  /\ \/ /\ ReceiveMessage(Interrupt)
        /\ Goto(Receiver, "loop")
        /\ UNCHANGED inHand
     \/ \E m \in Scopes \cup {Garbage} :
          /\ ReceiveMessage(m)
          /\ inHand' = [inHand EXCEPT ![Receiver] = m]
          /\ Goto(Receiver, "pinning")
     \/ /\ ReceiveFails
        /\ inHand' = [inHand EXCEPT ![Receiver] = Garbage]
        /\ Goto(Receiver, "pinning")
  /\ UNCHANGED <<groups, scope, active, held, sinks, sinkMutex, todo,
                 handling, busRefs, cancelled, failure, work>>

\* Mutant: no cancel() in the catch clause.
CancelsNever == cancelled

\* execute() cancels its own task after an exception.
CancelsItself == cancelled \/ inHand[Receiver] = Garbage

\* Mutant: the adapter calls through a plain pointer.
PinByPointer ==
  /\ At(Receiver, "pinning")
  /\ Goto(Receiver, "locking")
  /\ UNCHANGED <<connVars, groups, scope, active, held, sinks, sinkMutex,
                 todo, handling, inHand, busRefs, cancelled, failure, work>>

\* WeakHandlerAdapter: weak_ptr::lock fails once the bus is being destroyed.
Pin ==
  /\ At(Receiver, "pinning")
  /\ \/ /\ busRefs # {}
        /\ busRefs' = busRefs \cup {Receiver}
        /\ Goto(Receiver, "locking")
        /\ UNCHANGED cancelled
     \/ /\ busRefs = {}
        /\ cancelled' = CancelsItself
        /\ Goto(Receiver, "loop")
        /\ UNCHANGED busRefs
  /\ UNCHANGED <<connVars, groups, scope, active, held, sinks, sinkMutex,
                 todo, handling, inHand, failure, work>>

\* The adapter's reference goes out of scope.  When every connector has been
\* dropped meanwhile it is the last one.
Unpin ==
  /\ At(Receiver, "unpinning")
  /\ busRefs' = busRefs \ {Receiver}
  /\ \/ /\ busRefs = {Receiver}
        /\ Goto(Receiver, "canceling")
        /\ UNCHANGED cancelled
     \/ /\ busRefs # {Receiver}
        /\ cancelled' = CancelsItself
        /\ Goto(Receiver, "loop")
  /\ UNCHANGED <<connVars, groups, scope, active, held, sinks, sinkMutex,
                 todo, handling, inHand, failure, work>>

---------------------------------------------------------------------------
(* Dispatching to the local sinks, on the receiver or on a publisher. *)

\* handleOutgoingNotification sends first.  When send() throws, the caller
\* gets the exception and nothing else happens.
Publish(p) ==
  /\ At(p, "idle")
  /\ Worked
  /\ SendReturns
  /\ \E n \in Scopes : inHand' = [inHand EXCEPT ![p] = n]
  /\ Goto(p, "locking")
  /\ UNCHANGED <<groups, scope, active, held, sinks, sinkMutex, todo,
                 handling, busRefs, cancelled, failure>>

\* mapSinks visits the sinks of all super-scopes, mapAllSinks all sinks.
Addressed(m) ==
  {c \in sinks : m \in Scopes => scope[c] \in SuperScopes[m]}

LockAndMap(d) ==
  /\ At(d, "locking")
  /\ sinkMutex = None
  /\ sinkMutex' = d
  /\ todo' = Addressed(inHand[d])
  /\ Goto(d, "dispatching")
  /\ UNCHANGED <<connVars, groups, scope, active, held, sinks, handling,
                 inHand, busRefs, cancelled, failure, work>>

\* WeakScopeDispatcher locks the sink's weak_ptr: a sink in its destructor
\* is passed over.
PickSink(d) ==
  /\ At(d, "dispatching")
  /\ handling = None
  /\ \E c \in todo :
       /\ todo' = todo \ {c}
       /\ handling' = IF c \in held THEN c ELSE None
  /\ UNCHANGED <<connVars, groups, pc, scope, active, held, sinks, sinkMutex,
                 inHand, busRefs, cancelled, failure, work>>

\* The handlers have returned and the dispatcher's reference is released.
\* If it is the last, ~InConnector runs here and wants sinkMutex.
FinishSink(d) ==
  /\ At(d, "dispatching")
  /\ handling # None
  /\ \/ /\ handling \in held
        /\ handling' = None
        /\ UNCHANGED pc
     \/ /\ handling \notin held
        /\ Goto(d, "destroying")
        /\ UNCHANGED handling
  /\ UNCHANGED <<connVars, groups, scope, active, held, sinks, sinkMutex,
                 todo, inHand, busRefs, cancelled, failure, work>>

Unlock(d) ==
  /\ At(d, "dispatching")
  /\ handling = None /\ todo = {}
  /\ sinkMutex' = None
  /\ Goto(d, IF d = Receiver THEN "unpinning" ELSE "idle")
  /\ UNCHANGED <<connVars, groups, scope, active, held, sinks, todo,
                 handling, inHand, busRefs, cancelled, failure, work>>

Dispatch(d) == LockAndMap(d) \/ PickSink(d) \/ FinishSink(d) \/ Unlock(d)

---------------------------------------------------------------------------
(* The world outside. *)

RemoteSends ==
  /\ Worked
  /\ \E m \in Scopes \cup {Garbage} : DaemonDelivers(m)
  /\ UNCHANGED <<groups, pc, scope, active, held, sinks, sinkMutex, todo,
                 handling, inHand, busRefs, cancelled, failure>>

SessionLost ==
  /\ DaemonDropsSession
  /\ UNCHANGED <<groups, busVars>>

---------------------------------------------------------------------------
(* Steps a thread that is scheduled will take, and calls users may make. *)

ConnectorStep(c) ==
  \/ LockAndJoin(c) \/ Register(c)
  \/ LockAndUnregister(c)
  \/ LeaveReturns(c) \/ LeaveThrown(c) \/ LeaveAsserted(c)
  \/ ReleaseBus(c) \/ DestructBus(c)

PublisherStep(p) == Dispatch(p) \/ ReleaseBus(p) \/ DestructBus(p)

ReceiverStep ==
  \/ Loop \/ Receive \/ Pin \/ Dispatch(Receiver) \/ Unpin
  \/ DestructBus(Receiver)

UserCall ==
  \/ \E c \in Connectors : Activate(c) \/ Deactivate(c) \/ DropConnector(c)
  \/ \E p \in Publishers : Publish(p) \/ DropPublisher(p)

Next ==
  \/ \E c \in Connectors : ConnectorStep(c)
  \/ \E p \in Publishers : PublisherStep(p)
  \/ ReceiverStep
  \/ UserCall
  \/ RemoteSends
  \/ SessionLost

Spec == Init /\ [][Next]_vars

\* The operating system runs every thread that is ready and handlers return.
\* Users owe no call, the daemon owes no message.
FairSpec ==
  /\ Spec
  /\ \A c \in Connectors : WF_vars(ConnectorStep(c))
  /\ \A p \in Publishers : WF_vars(PublisherStep(p))
  /\ WF_vars(ReceiverStep)

---------------------------------------------------------------------------
(* Safety. *)

\* Memberships are counted exactly: whenever nobody is inside addSink or
\* removeSink, the count of a group is the number of registered sinks whose
\* scope has that group, through failed joins and leaves and lost sessions
\* (MembershipManager::groups against BusImpl::scopeDispatcher).
MembershipExact ==
  sinkMutex = None =>
    \A g \in Groups :
      groups[g] = Cardinality({c \in sinks : GroupOf[scope[c]] = g})

\* While the session lives the daemon's view and the counts agree: the
\* groups joined are those with a reference, so no registered sink is deaf
\* and no group is received for nobody (MembershipManager::join, leave).
JoinedWhileCounted ==
  connected /\ session = "up" => joined = {g \in Groups : groups[g] > 0}

\* Once deactivate() has returned no handler of the connector runs or will
\* run before the next activate(); and activate() that has returned means
\* the sink is registered.  removeSink under sinkMutex gives this to user
\* code that tears down what its handlers use.
QuietAfterDeactivate ==
  \A c \in Connectors :
    pc[c] = "idle" /\ ~active[c] => c \notin sinks \cup todo /\ handling # c

\* A thread inside ~BusImpl is alone: no connector call, no dispatch and no
\* second destructor is in progress on the object (shared_ptr and weak_ptr
\* use in the connectors and in WeakHandlerAdapter).
DestructorAlone ==
  \A t \in Threads : pc[t] \in Destructing =>
    /\ busRefs = {} /\ sinkMutex = None
    /\ \A u \in Threads \ {t} :
         pc[u] \notin Adding \cup Removing \cup Dispatching \cup Destructing

\* A dispatcher has locked sinkMutex, or the receiver waits for the task, on
\* the thread that would have to release the one or to end the other.
SelfDeadlock == \E d \in Dispatchers :
  \/ pc[d] = "destroying"
  \/ d = Receiver /\ pc[d] = "waiting"

\* Where a thread cannot go on by itself.
Waits(t) ==
  \/ pc[t] \in {"adding", "removing", "locking", "destroying"} /\ sinkMutex # None
  \/ pc[t] = "waiting" /\ pc[Receiver] # "done"
  \/ pc[t] = "receiving" /\ session = "up" /\ mailbox = <<>>

WaitsFor(t) == IF pc[t] = "waiting" THEN Receiver ELSE sinkMutex

\* Unless a dispatcher waits for itself nobody waits in a circle, or for a
\* receiver that nothing will wake: whom a thread waits for can go on.  So the
\* order of sinkMutex, waitDone and SP_receive is right, and cancel() comes
\* before interruptReceive() (BusImpl::deactivate).
NoCircularWait ==
  SelfDeadlock \/
    \A t \in Threads : Waits(t) /\ pc[t] # "receiving" => ~Waits(WaitsFor(t))

\* A dispatcher ends up in the destructor of a sink, and waits for itself,
\* only if the owner dropped an active connector: calling deactivate() first
\* keeps clear of that deadlock, whatever is dispatched meanwhile
\* (~InConnector under sinkMutex, removeSink).
DeactivatedIsSafe ==
  \A d \in Dispatchers : pc[d] = "destroying" =>
    handling \in Connectors \ held /\ active[handling]

\* SpreadConnection::deactivate requires that no reader is blocking in
\* receive() any more.
NoReaderOnClosedConnection == ~connected => pc[Receiver] = "done"

---------------------------------------------------------------------------
(* What the bus is to its owners. *)

Live == busRefs # {}

LifeState ==
  IF Live THEN "active"
  ELSE IF \E t \in Threads : pc[t] \in Destructing THEN "closing" ELSE "gone"

ReceiverAt(label) ==
  CASE label \in Dispatching -> "dispatching"
    [] label \in Destructing -> "stuck"
    [] label = "done" -> "stopped"
    [] OTHER -> "running"

LifeReceiver == ReceiverAt(pc[Receiver])

Life == INSTANCE BusLife WITH
  Owners <- Users,
  refs <- busRefs,
  state <- LifeState,
  receiver <- LifeReceiver

\* The bus leads the life that Factory relies on: it is closed once, when the
\* last owner has let go, after its receiver has ended, and no reference to it
\* is taken from then on (shared_ptr in the connectors, weak_ptr::lock in
\* WeakHandlerAdapter, ~BusImpl).
ImplementsBusLife == Life!FromActivation

---------------------------------------------------------------------------
(* Liveness. *)

\* ~BusImpl comes to an end on any thread of a user: cancel, interrupt and
\* wait reach a receiver that is blocked, busy or already gone, on a live or
\* on a lost session.
DestructorCompletes ==
  \A t \in Users : pc[t] = "canceling" ~> pc[t] = "gone"

\* activate(), deactivate(), destructors and publishing return, unless the
\* process has ended or a dispatcher waits for itself.
CallsReturn ==
  \A t \in Users :
    pc[t] \in Adding \cup Removing \cup Dispatching
      ~> pc[t] \in {"idle", "dropping", "gone"} \/ SelfDeadlock \/ failure # "none"

\* A lost session stops the receiver for good: no busy loop of failing
\* receives (catch clause of ReceiverTask::execute).
LossStopsReceiver ==
  session = "lost"
    ~> pc[Receiver] = "done" \/ SelfDeadlock \/ failure # "none"

---------------------------------------------------------------------------
(* What comments and assertions say, and the code does not keep. *)

\* "This prevents the ReceiverTask from keeping the Bus alive"
\* (BusImpl.cpp:44, WeakHandlerAdapter): the receiver thread never has the
\* only reference to the bus.
ReceiverKeepsNoBusAlive == busRefs # {Receiver}

\* assert(it != this->groups.end()) (MembershipManager.cpp:53): leave() is
\* called only for groups that are counted.
LeaveOnlyCounted == failure # "assert"

\* "Skipping message" (InConnector.cpp:104): after an error in receiving one
\* message the receiver goes on with the next, as long as there is a session
\* and a bus.
BadMessageIsSkipped == cancelled => session = "lost" \/ busRefs = {}

===========================================================================
