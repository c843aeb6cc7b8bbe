----------------------------- MODULE BusProofs -----------------------------
(***************************************************************************)
(* Proofs that Bus keeps its safety properties for any connectors, scopes, *)
(* groups and group naming.                                                *)
(***************************************************************************)
EXTENDS Bus, FiniteSetTheorems, SequenceTheorems, TLAPS

---------------------------------------------------------------------------
(* The inductive invariant. *)

Critical == {"registering", "leaving", "dispatching", "destroying"}

\* Which thread can be where.
Roles ==
  /\ \A t \in Threads : pc[t] \in Adding \cup Removing => t \in Connectors
  /\ \A t \in Threads : pc[t] \in Dispatching => t \in Dispatchers
  /\ pc[Receiver] \notin {"idle", "dropping", "gone"}

\* sinkMutex is held by the thread inside a critical section, if any.
Exclusion == \A t \in Threads : pc[t] \in Critical <=> sinkMutex = t

\* The loop of mapSinks visits registered sinks and is over when the mutex
\* is not held by a dispatcher.
LoopVisitsSinks ==
  /\ todo \subseteq sinks
  /\ handling \in sinks \cup {None}
  /\ sinkMutex \notin Dispatchers => todo = {} /\ handling = None

\* A connector that believes it is active although its failed leave has
\* taken its membership away.
Orphan(c) == ~Usable /\ groups[GroupOf[scope[c]]] = 0

\* Where a connector is and whether it is registered.
Registration ==
  \A c \in Connectors :
    /\ pc[c] \in Adding => ~active[c]
    /\ pc[c] \in Removing => active[c]
    /\ pc[c] = "dropping" => ~active[c]
    /\ ~active[c] => c \notin sinks
    /\ pc[c] = "leaving" => c \notin sinks
    /\ active[c] /\ c \notin sinks /\ pc[c] # "leaving" => Orphan(c)

InGroup(S, g) == {c \in S : GroupOf[scope[c]] = g}

Counted(S) == \A g \in Groups : groups[g] = Cardinality(InGroup(S, g))

\* MembershipExact at every point inside the critical sections as well.
CountsFollowSinks ==
  /\ sinkMutex \notin Connectors => Counted(sinks)
  /\ \A c \in Connectors :
       /\ pc[c] = "registering" => Counted(sinks \cup {c})
       /\ pc[c] = "leaving" => \/ Counted(sinks \cup {c})
                               \/ Counted(sinks) /\ Orphan(c)

\* References to the bus and the one destructor.
References ==
  /\ \A t \in Threads :
       pc[t] \in {"idle", "dropping"} \cup Adding \cup Removing \cup Dispatching
         => t \in busRefs
  /\ \A t \in Threads : pc[t] \in Destructing => busRefs = {}
  /\ \A t, u \in Threads :
       pc[t] \in Destructing /\ pc[u] \in Destructing => t = u

\* The connection is closed after the receiver has ended.
Closing ==
  /\ \A t \in Threads : pc[t] = "disconnecting" => pc[Receiver] = "done"
  /\ NoReaderOnClosedConnection

IInv ==
  /\ TypeOK
  /\ Roles
  /\ Exclusion
  /\ LoopVisitsSinks
  /\ Registration
  /\ CountsFollowSinks
  /\ JoinedWhileCounted
  /\ References
  /\ Closing

---------------------------------------------------------------------------
(* Type correctness. *)

\* The initial state has the types.
LEMMA TypeInit == Init => TypeOK
<1> SUFFICES ASSUME Init PROVE TypeOK
  OBVIOUS
<1>1. ConnTypeOK /\ MembersTypeOK
  BY DEF Init, ConnInit, MembersInit, ConnTypeOK, MembersTypeOK
<1>2. pc \in [Threads -> PC]
  BY DEF Init, PC
<1>3. inHand \in [Dispatchers -> Scopes \cup {Garbage}]
  BY DEF Init
<1>4. busRefs \subseteq Threads /\ work \in 0..MaxWork
  BY WorkAssumption DEF Init, Threads
<1> QED
  BY <1>1, <1>2, <1>3, <1>4 DEF Init, TypeOK

\* Every step keeps the types.
LEMMA TypeStep == TypeOK /\ [Next]_vars => TypeOK'
<1> SUFFICES ASSUME TypeOK, [Next]_vars PROVE TypeOK'
  OBVIOUS
<1> USE ThreadAssumption, WorkAssumption
    DEF TypeOK, ConnTypeOK, MembersTypeOK, Users, Dispatchers, Threads, PC,
        Adding, Removing, Dispatching, Destructing, Goto, connVars
<1>1. ASSUME NEW c \in Connectors, Activate(c) PROVE TypeOK'
  BY <1>1 DEF Activate, Worked
<1>2. ASSUME NEW c \in Connectors, LockAndJoin(c) PROVE TypeOK'
  <2>0. GroupOf[scope[c]] \in Groups
    BY ScopeAssumption
  <2>1. groups' \in [Groups -> Nat] /\ ConnTypeOK'
    <3>1. CASE Join(GroupOf[scope[c]])
      BY <2>0, <3>1 DEF Join, ConnJoin
    <3>2. CASE JoinThrows(GroupOf[scope[c]])
      BY <3>2 DEF JoinThrows
    <3> QED
      BY <1>2, <3>1, <3>2 DEF LockAndJoin
  <2> QED
    BY <1>2, <2>1 DEF LockAndJoin
<1>3. ASSUME NEW c \in Connectors, Register(c) PROVE TypeOK'
  BY <1>3 DEF Register
<1>4. ASSUME NEW c \in Connectors, Deactivate(c) PROVE TypeOK'
  BY <1>4 DEF Deactivate
<1>5. ASSUME NEW c \in Connectors, LockAndUnregister(c) PROVE TypeOK'
  BY <1>5 DEF LockAndUnregister
<1>6. ASSUME NEW c \in Connectors, LeaveReturns(c) PROVE TypeOK'
  BY <1>6, ScopeAssumption DEF LeaveReturns, Leave, ConnLeave
<1>7. ASSUME NEW c \in Connectors, LeaveThrown(c) PROVE TypeOK'
  BY <1>7, ScopeAssumption DEF LeaveThrown, LeaveThrows
<1>8. ASSUME NEW c \in Connectors, LeaveAsserted(c) PROVE TypeOK'
  BY <1>8 DEF LeaveAsserted, LeaveAsserts
<1>9. ASSUME NEW c \in Connectors, DropConnector(c) PROVE TypeOK'
  BY <1>9 DEF DropConnector
<1>10. ASSUME NEW p \in Publishers, DropPublisher(p) PROVE TypeOK'
  BY <1>10 DEF DropPublisher
<1>11. ASSUME NEW t \in Threads, ReleaseBus(t) PROVE TypeOK'
  BY <1>11 DEF ReleaseBus
<1>12. ASSUME NEW t \in Threads, DestructBus(t) PROVE TypeOK'
  <2>1. CASE Cancel(t)
    BY <2>1 DEF Cancel
  <2>2. CASE Interrupting(t)
    <3>1. mailbox' \in Seq(Message)
      BY <2>2 DEF Interrupting, InterruptReceive, Message
    <3> QED
      BY <2>2, <3>1 DEF Interrupting, InterruptReceive
  <2>3. CASE WaitDone(t)
    BY <2>3 DEF WaitDone
  <2>4. CASE Disconnecting(t)
    <3>1. mailbox' = <<>>
      BY <2>4 DEF Disconnecting, Disconnect
    <3>2. mailbox' \in Seq(Message)
      BY <3>1, EmptySeq, Zenon
    <3>3. connected' = FALSE /\ session' = session /\ joined' = {}
      BY <2>4 DEF Disconnecting, Disconnect
    <3>4. ConnTypeOK'
      BY <3>2, <3>3
    <3> QED
      BY <2>4, <3>4 DEF Disconnecting
  <2> QED
    BY <1>12, <2>1, <2>2, <2>3, <2>4 DEF DestructBus
<1>13. CASE Loop
  BY <1>13 DEF Loop
<1>14. CASE Receive
  <2>1. mailbox' = mailbox \/ (mailbox # <<>> /\ mailbox' = Tail(mailbox))
    BY <1>14 DEF Receive, ReceiveMessage, ReceiveFails
  <2>2. mailbox' \in Seq(Message)
    BY <2>1, HeadTailProperties DEF TypeOK, ConnTypeOK
  <2> QED
    BY <1>14, <2>2 DEF Receive, ReceiveMessage, ReceiveFails
<1>15. CASE Pin
  BY <1>15 DEF Pin, CancelsItself
<1>16. CASE Unpin
  BY <1>16 DEF Unpin, CancelsItself
<1>17. ASSUME NEW p \in Publishers, Publish(p) PROVE TypeOK'
  BY <1>17 DEF Publish, Worked, SendReturns
<1>18. ASSUME NEW d \in Dispatchers, Dispatch(d) PROVE TypeOK'
  <2>1. CASE LockAndMap(d)
    BY <2>1 DEF LockAndMap, Addressed
  <2>2. CASE PickSink(d)
    BY <2>2 DEF PickSink
  <2>3. CASE FinishSink(d)
    BY <2>3 DEF FinishSink
  <2>4. CASE Unlock(d)
    BY <2>4 DEF Unlock
  <2> QED
    BY <1>18, <2>1, <2>2, <2>3, <2>4 DEF Dispatch
<1>19. CASE RemoteSends
  BY <1>19 DEF RemoteSends, Worked, DaemonDelivers, Message
<1>20. CASE SessionLost
  BY <1>20 DEF SessionLost, DaemonDropsSession, busVars
<1>21. CASE UNCHANGED vars
  BY <1>21 DEF vars, busVars
<1> QED
  BY <1>1, <1>2, <1>3, <1>4, <1>5, <1>6, <1>7, <1>8, <1>9, <1>10, <1>11, <1>12,
     <1>13, <1>14, <1>15, <1>16, <1>17, <1>18, <1>19, <1>20, <1>21
  DEF Next, ConnectorStep, PublisherStep, ReceiverStep, UserCall

\* Every variable of the bus and its connection has its type.
THEOREM TypeCorrect == Spec => []TypeOK
BY TypeInit, TypeStep, PTL DEF Spec

---------------------------------------------------------------------------
(* The connection is closed last. *)

\* Only the destructor closes the connection, and only after the receiver
\* has ended; an ended receiver does not start again.
LEMMA ClosingStep ==
  TypeOK /\ Closing /\ [Next]_vars => Closing'
<1> SUFFICES ASSUME TypeOK, Closing, [Next]_vars PROVE Closing'
  OBVIOUS
<1> USE ThreadAssumption DEF TypeOK, Closing, NoReaderOnClosedConnection,
    Users, Dispatchers, Threads, Goto, At, connVars
<1>1. ASSUME NEW c \in Connectors, ConnectorStep(c) PROVE Closing'
  BY <1>1 DEF ConnectorStep, LockAndJoin, Register, LockAndUnregister,
    LeaveReturns, LeaveThrown, LeaveAsserted, ReleaseBus, DestructBus, Cancel,
    Interrupting, WaitDone, Disconnecting, Join, JoinThrows, Leave,
    LeaveThrows, LeaveAsserts, ConnJoin, ConnLeave, InterruptReceive,
    Disconnect
<1>2. ASSUME NEW p \in Publishers, PublisherStep(p) PROVE Closing'
  BY <1>2 DEF PublisherStep, ReleaseBus, DestructBus, Cancel, Interrupting,
    WaitDone, Disconnecting, Dispatch, LockAndMap, PickSink, FinishSink,
    Unlock, InterruptReceive, Disconnect
<1>3. CASE ReceiverStep
  BY <1>3 DEF ReceiverStep, Loop, Receive, Pin, Unpin, DestructBus, Cancel,
    Interrupting, WaitDone, Disconnecting, Dispatch, LockAndMap, PickSink,
    FinishSink, Unlock, ReceiveMessage, ReceiveFails, InterruptReceive,
    Disconnect
<1>4. CASE UserCall
  BY <1>4 DEF UserCall, Activate, Deactivate, DropConnector, Publish,
    DropPublisher, SendReturns
<1>5. CASE RemoteSends \/ SessionLost
  BY <1>5 DEF RemoteSends, SessionLost, busVars, DaemonDelivers,
    DaemonDropsSession
<1>6. CASE UNCHANGED vars
  BY <1>6 DEF vars, busVars
<1> QED
  BY <1>1, <1>2, <1>3, <1>4, <1>5, <1>6 DEF Next

---------------------------------------------------------------------------
(* Mutual exclusion. *)

\* Threads stay on their own paths.
LEMMA RolesStep ==
  TypeOK /\ Closing /\ Roles /\ [Next]_vars => Roles'
<1> SUFFICES ASSUME TypeOK, Closing, Roles, [Next]_vars PROVE Roles'
  OBVIOUS
<1> USE ThreadAssumption DEF TypeOK, Users, Dispatchers, Threads, Goto, At,
    Roles, Closing, Adding, Removing, Dispatching, Destructing
<1>1. ASSUME NEW c \in Connectors, ConnectorStep(c) PROVE Roles'
  BY <1>1 DEF ConnectorStep, LockAndJoin, Register, LockAndUnregister,
    LeaveReturns, LeaveThrown, LeaveAsserted, ReleaseBus, DestructBus, Cancel,
    Interrupting, WaitDone, Disconnecting
<1>2. ASSUME NEW p \in Publishers, PublisherStep(p) PROVE Roles'
  BY <1>2 DEF PublisherStep, ReleaseBus, DestructBus, Cancel, Interrupting,
    WaitDone, Disconnecting, Dispatch, LockAndMap, PickSink, FinishSink,
    Unlock
<1>3. CASE ReceiverStep
  <2>1. CASE Loop \/ Receive \/ Pin \/ Unpin
    BY <2>1 DEF Loop, Receive, Pin, Unpin
  <2>2. CASE Dispatch(Receiver)
    BY <2>2 DEF Dispatch, LockAndMap, PickSink, FinishSink, Unlock
  <2>3. CASE DestructBus(Receiver)
    BY <2>3 DEF DestructBus, Cancel, Interrupting, WaitDone, Disconnecting
  <2> QED
    BY <1>3, <2>1, <2>2, <2>3 DEF ReceiverStep
<1>4. CASE UserCall
  BY <1>4 DEF UserCall, Activate, Deactivate, DropConnector, Publish,
    DropPublisher
<1>5. CASE RemoteSends \/ SessionLost
  BY <1>5 DEF RemoteSends, SessionLost, busVars
<1>6. CASE UNCHANGED vars
  BY <1>6 DEF vars, busVars
<1> QED
  BY <1>1, <1>2, <1>3, <1>4, <1>5, <1>6 DEF Next

\* sinkMutex excludes.
LEMMA ExclusionStep ==
  TypeOK /\ Roles /\ Exclusion /\ [Next]_vars => Exclusion'
<1> SUFFICES ASSUME TypeOK, Roles, Exclusion, [Next]_vars PROVE Exclusion'
  OBVIOUS
<1> USE ThreadAssumption DEF TypeOK, Users, Dispatchers, Threads, Goto, At,
    Roles, Exclusion, Critical, Adding, Removing, Dispatching, Destructing
<1>1. ASSUME NEW c \in Connectors, ConnectorStep(c) PROVE Exclusion'
  BY <1>1 DEF ConnectorStep, LockAndJoin, Register, LockAndUnregister,
    LeaveReturns, LeaveThrown, LeaveAsserted, ReleaseBus, DestructBus, Cancel,
    Interrupting, WaitDone, Disconnecting
<1>2. ASSUME NEW p \in Publishers, PublisherStep(p) PROVE Exclusion'
  BY <1>2 DEF PublisherStep, ReleaseBus, DestructBus, Cancel, Interrupting,
    WaitDone, Disconnecting, Dispatch, LockAndMap, PickSink, FinishSink,
    Unlock
<1>3. CASE ReceiverStep
  BY <1>3 DEF ReceiverStep, Loop, Receive, Pin, Unpin, DestructBus, Cancel,
    Interrupting, WaitDone, Disconnecting, Dispatch, LockAndMap, PickSink,
    FinishSink, Unlock
<1>4. CASE UserCall
  BY <1>4 DEF UserCall, Activate, Deactivate, DropConnector, Publish,
    DropPublisher
<1>5. CASE RemoteSends \/ SessionLost
  BY <1>5 DEF RemoteSends, SessionLost, busVars
<1>6. CASE UNCHANGED vars
  BY <1>6 DEF vars, busVars
<1> QED
  BY <1>1, <1>2, <1>3, <1>4, <1>5, <1>6 DEF Next

\* Nothing is unregistered under a running mapSinks loop.
LEMMA LoopStep ==
  TypeOK /\ Roles /\ Exclusion /\ LoopVisitsSinks /\ [Next]_vars => LoopVisitsSinks'
<1> SUFFICES ASSUME TypeOK, Roles, Exclusion, LoopVisitsSinks, [Next]_vars PROVE LoopVisitsSinks'
  OBVIOUS
<1> USE ThreadAssumption DEF TypeOK, Users, Dispatchers, Threads, Goto, At,
    Roles, Exclusion, Critical, LoopVisitsSinks, Addressed, Adding, Removing,
    Dispatching, Destructing
<1>1. ASSUME NEW c \in Connectors, ConnectorStep(c) PROVE LoopVisitsSinks'
  BY <1>1 DEF ConnectorStep, LockAndJoin, Register, LockAndUnregister,
    LeaveReturns, LeaveThrown, LeaveAsserted, ReleaseBus, DestructBus, Cancel,
    Interrupting, WaitDone, Disconnecting
<1>2. ASSUME NEW p \in Publishers, PublisherStep(p) PROVE LoopVisitsSinks'
  BY <1>2 DEF PublisherStep, ReleaseBus, DestructBus, Cancel, Interrupting,
    WaitDone, Disconnecting, Dispatch, LockAndMap, PickSink, FinishSink,
    Unlock
<1>3. CASE ReceiverStep
  BY <1>3 DEF ReceiverStep, Loop, Receive, Pin, Unpin, DestructBus, Cancel,
    Interrupting, WaitDone, Disconnecting, Dispatch, LockAndMap, PickSink,
    FinishSink, Unlock
<1>4. CASE UserCall
  BY <1>4 DEF UserCall, Activate, Deactivate, DropConnector, Publish,
    DropPublisher
<1>5. CASE RemoteSends \/ SessionLost
  BY <1>5 DEF RemoteSends, SessionLost, busVars
<1>6. CASE UNCHANGED vars
  BY <1>6 DEF vars, busVars
<1> QED
  BY <1>1, <1>2, <1>3, <1>4, <1>5, <1>6 DEF Next

---------------------------------------------------------------------------
(* References to the bus. *)

\* Every thread that works on the bus keeps it alive until it is done.
LEMMA ReferencesStep ==
  TypeOK /\ Roles /\ References /\ [Next]_vars => References'
<1> SUFFICES ASSUME TypeOK, Roles, References, [Next]_vars PROVE References'
  OBVIOUS
<1> USE ThreadAssumption DEF TypeOK, Users, Dispatchers, Threads, Goto, At,
    Roles, References, Adding, Removing, Dispatching, Destructing
<1>1. ASSUME NEW c \in Connectors, ConnectorStep(c) PROVE References'
  BY <1>1 DEF ConnectorStep, LockAndJoin, Register, LockAndUnregister,
    LeaveReturns, LeaveThrown, LeaveAsserted, ReleaseBus, DestructBus, Cancel,
    Interrupting, WaitDone, Disconnecting
<1>2. ASSUME NEW p \in Publishers, PublisherStep(p) PROVE References'
  BY <1>2 DEF PublisherStep, ReleaseBus, DestructBus, Cancel, Interrupting,
    WaitDone, Disconnecting, Dispatch, LockAndMap, PickSink, FinishSink,
    Unlock
<1>3. CASE ReceiverStep
  BY <1>3 DEF ReceiverStep, Loop, Receive, Pin, Unpin, DestructBus, Cancel,
    Interrupting, WaitDone, Disconnecting, Dispatch, LockAndMap, PickSink,
    FinishSink, Unlock
<1>4. CASE UserCall
  BY <1>4 DEF UserCall, Activate, Deactivate, DropConnector, Publish,
    DropPublisher
<1>5. CASE RemoteSends \/ SessionLost
  BY <1>5 DEF RemoteSends, SessionLost, busVars
<1>6. CASE UNCHANGED vars
  BY <1>6 DEF vars, busVars
<1> QED
  BY <1>1, <1>2, <1>3, <1>4, <1>5, <1>6 DEF Next

---------------------------------------------------------------------------
(* Memberships. *)

\* The daemon's view changes with the count, or the session is gone.
LEMMA JoinedStep ==
  TypeOK /\ JoinedWhileCounted /\ [Next]_vars => JoinedWhileCounted'
<1> SUFFICES ASSUME TypeOK, JoinedWhileCounted, [Next]_vars PROVE JoinedWhileCounted'
  OBVIOUS
<1> USE ScopeAssumption DEF TypeOK, ConnTypeOK, MembersTypeOK,
    JoinedWhileCounted, Users, Dispatchers, Threads, Usable, connVars
<1>1. ASSUME NEW c \in Connectors, ConnectorStep(c)
      PROVE  JoinedWhileCounted'
  <2> DEFINE g == GroupOf[scope[c]]
  <2>0. g \in Groups
    OBVIOUS
  <2>1. CASE LockAndJoin(c)
    <3>1. CASE Join(g)
      <4>1. {h \in Groups : groups'[h] > 0} = {h \in Groups : groups[h] > 0} \cup {g}
        BY <2>0, <3>1 DEF Join
      <4> QED
        BY <2>0, <3>1, <4>1 DEF Join, ConnJoin
    <3> QED
      BY <2>1, <3>1 DEF LockAndJoin, JoinThrows
  <2>2. CASE LeaveReturns(c)
    <3>1. {h \in Groups : groups'[h] > 0}
            = IF groups[g] = 1 THEN {h \in Groups : groups[h] > 0} \ {g}
              ELSE {h \in Groups : groups[h] > 0}
      BY <2>0, <2>2 DEF LeaveReturns, Leave
    <3>2. CASE groups[g] = 1 /\ ConnLeave(g)
      BY <3>1, <3>2 DEF ConnLeave
    <3>3. CASE groups[g] > 1 /\ UNCHANGED connVars
      BY <3>1, <3>3
    <3> QED
      BY <2>2, <3>2, <3>3 DEF LeaveReturns, Leave
  <2>3. CASE LeaveThrown(c)
    BY <2>3 DEF LeaveThrown, LeaveThrows
  <2>4. CASE Disconnecting(c) \/ Interrupting(c)
    BY <2>4 DEF Disconnecting, Disconnect, Interrupting, InterruptReceive
  <2>5. CASE UNCHANGED <<connVars, groups>>
    BY <2>5
  <2> QED
    BY <1>1, <2>1, <2>2, <2>3, <2>4, <2>5 DEF ConnectorStep, Register,
      LockAndUnregister, LeaveAsserted, LeaveAsserts, ReleaseBus, DestructBus,
      Cancel, WaitDone
<1>2. ASSUME NEW p \in Publishers, PublisherStep(p) PROVE JoinedWhileCounted'
  BY <1>2 DEF PublisherStep, ReleaseBus, DestructBus, Cancel, Interrupting,
    WaitDone, Disconnecting, Dispatch, LockAndMap, PickSink, FinishSink,
    Unlock, InterruptReceive, Disconnect
<1>3. CASE ReceiverStep
  BY <1>3 DEF ReceiverStep, Loop, Receive, Pin, Unpin, DestructBus, Cancel,
    Interrupting, WaitDone, Disconnecting, Dispatch, LockAndMap, PickSink,
    FinishSink, Unlock, ReceiveMessage, ReceiveFails, InterruptReceive,
    Disconnect
<1>4. CASE UserCall
  BY <1>4 DEF UserCall, Activate, Deactivate, DropConnector, Publish,
    DropPublisher, SendReturns
<1>5. CASE RemoteSends \/ SessionLost
  BY <1>5 DEF RemoteSends, SessionLost, busVars, DaemonDelivers,
    DaemonDropsSession
<1>6. CASE UNCHANGED vars
  BY <1>6 DEF vars, busVars
<1> QED
  BY <1>1, <1>2, <1>3, <1>4, <1>5, <1>6 DEF Next

\* One sink more or less changes the count of its own group by one.
LEMMA CountAdd ==
  ASSUME TypeOK, NEW S \in SUBSET Connectors, NEW c \in Connectors \ S,
         NEW g \in Groups
  PROVE  /\ Cardinality(InGroup(S, g)) \in Nat
         /\ GroupOf[scope[c]] = g =>
              Cardinality(InGroup(S \cup {c}, g)) = Cardinality(InGroup(S, g)) + 1
         /\ GroupOf[scope[c]] # g =>
              Cardinality(InGroup(S \cup {c}, g)) = Cardinality(InGroup(S, g))
<1>1. IsFiniteSet(InGroup(S, g))
  <2>1. InGroup(S, g) \subseteq Connectors
    BY DEF InGroup
  <2> QED
    BY <2>1, FiniteAssumption, FS_Subset
<1>2. Cardinality(InGroup(S, g)) \in Nat
  BY <1>1, FS_CardinalityType
<1>3. ASSUME GroupOf[scope[c]] = g
      PROVE  Cardinality(InGroup(S \cup {c}, g)) = Cardinality(InGroup(S, g)) + 1
  <2>1. InGroup(S \cup {c}, g) = InGroup(S, g) \cup {c} /\ c \notin InGroup(S, g)
    BY <1>3 DEF InGroup
  <2> QED
    BY <2>1, <1>1, FS_AddElement
<1>4. ASSUME GroupOf[scope[c]] # g
      PROVE  InGroup(S \cup {c}, g) = InGroup(S, g)
  BY <1>4 DEF InGroup
<1> QED
  BY <1>2, <1>3, <1>4

\* A first or further reference counts the sink that is about to be added.
LEMMA JoinCounts ==
  ASSUME TypeOK, NEW S \in SUBSET Connectors, NEW c \in Connectors \ S,
         Counted(S),
         groups' = [groups EXCEPT ![GroupOf[scope[c]]] = @ + 1]
  PROVE  \A g \in Groups : groups'[g] = Cardinality(InGroup(S \cup {c}, g))
<1> TAKE g \in Groups
<1>1. groups[g] = Cardinality(InGroup(S, g))
  BY DEF Counted
<1> QED
  BY <1>1, CountAdd DEF TypeOK, MembersTypeOK

\* One reference less (or the entry erased at the last) counts one sink less.
LEMMA LeaveCounts ==
  ASSUME TypeOK, NEW S \in SUBSET Connectors, NEW c \in Connectors \ S,
         Counted(S \cup {c}),
         groups' = [groups EXCEPT ![GroupOf[scope[c]]] = @ - 1]
  PROVE  \A g \in Groups : groups'[g] = Cardinality(InGroup(S, g))
<1> TAKE g \in Groups
<1>1. groups[g] = Cardinality(InGroup(S \cup {c}, g))
  BY DEF Counted
<1> QED
  BY <1>1, CountAdd DEF TypeOK, MembersTypeOK

\* What a step may do to the threads without touching the memberships.
Bystander(c) ==
  \/ pc'[c] = pc[c]
  \/ /\ pc[c] \notin Critical /\ pc'[c] \notin Critical
     /\ pc'[c] \in Adding \cup {"dropping"} => ~active[c]
     /\ pc'[c] \in Removing => active[c]

\* Such a step keeps counts and registrations as they are.
LEMMA BystandersKeepCounts ==
  ASSUME Registration, CountsFollowSinks,
         UNCHANGED <<groups, scope, sinks, active>>, Usable' => Usable,
         \A c \in Connectors : Bystander(c),
         sinkMutex' \notin Connectors => sinkMutex \notin Connectors
  PROVE  (Registration /\ CountsFollowSinks)'
<1>1. \A c \in Connectors : Orphan(c)' <=> ~Usable' /\ groups[GroupOf[scope[c]]] = 0
  BY DEF Orphan
<1>2. Registration'
  BY <1>1 DEF Registration, Bystander, Orphan, Critical, Adding, Removing
<1>3. /\ Counted(sinks)' <=> Counted(sinks)
      /\ \A c \in Connectors : Counted(sinks \cup {c})' <=> Counted(sinks \cup {c})
  BY DEF Counted, InGroup
<1>4. CountsFollowSinks'
  BY <1>1, <1>3 DEF CountsFollowSinks, Bystander, Orphan, Critical
<1> QED
  BY <1>2, <1>4

\* Counts and registrations go together, step by step.
LEMMA MembershipStep ==
  TypeOK /\ Roles /\ Exclusion /\ Registration /\ CountsFollowSinks /\ [Next]_vars
    => (Registration /\ CountsFollowSinks)'
<1> SUFFICES ASSUME TypeOK, Roles, Exclusion, Registration, CountsFollowSinks,
                    [Next]_vars
             PROVE  (Registration /\ CountsFollowSinks)'
  OBVIOUS
<1> USE ThreadAssumption DEF Users, Dispatchers, Threads, At, Goto
<1> DEFINE G(c) == GroupOf[scope[c]]
<1>0. \A c \in Connectors : G(c) \in Groups /\ groups[G(c)] \in Nat
  BY ScopeAssumption DEF TypeOK, MembersTypeOK
<1>1. ASSUME NEW c \in Connectors, LockAndJoin(c)
      PROVE  (Registration /\ CountsFollowSinks)'
  <2>1. CASE Join(G(c)) /\ sinkMutex' = c /\ Goto(c, "registering")
    <3>1. sinkMutex = None /\ c \notin sinks
      BY <1>1 DEF LockAndJoin, Registration, Adding
    <3>2. Counted(sinks \cup {c})'
      <4>1. Counted(sinks)
        BY <3>1 DEF CountsFollowSinks
      <4>2. UNCHANGED <<scope, sinks>>
        BY <1>1 DEF LockAndJoin
      <4>3. \A g \in Groups : groups'[g] = Cardinality(InGroup(sinks \cup {c}, g))
        BY <2>1, <3>1, <4>1, JoinCounts DEF Join, TypeOK
      <4>4. \A g \in Groups : InGroup(sinks \cup {c}, g)' = InGroup(sinks \cup {c}, g)
        BY <4>2 DEF InGroup
      <4> QED
        BY <4>3, <4>4 DEF Counted
    <3>3. ASSUME NEW d \in Connectors, Orphan(d) PROVE Orphan(d)'
      BY <1>1, <1>0, <2>1, <3>3, ScopeAssumption
      DEF LockAndJoin, Join, ConnJoin, Orphan, Usable, connVars, TypeOK, MembersTypeOK
    <3>4. Registration'
      BY <1>1, <2>1, <3>1, <3>3 DEF LockAndJoin, Registration, Adding, Removing, TypeOK
    <3>5. CountsFollowSinks'
      BY <1>1, <2>1, <3>1, <3>2
      DEF LockAndJoin, CountsFollowSinks, Exclusion, Critical, TypeOK
    <3> QED
      BY <3>4, <3>5
  <2>2. CASE JoinThrows(G(c)) /\ Goto(c, "idle") /\ UNCHANGED sinkMutex
    <3>1. \A d \in Connectors : Bystander(d)
      BY <1>1, <2>2 DEF LockAndJoin, Bystander, Critical, Adding, Removing, TypeOK
    <3> QED
      BY <1>1, <2>2, <3>1, BystandersKeepCounts
      DEF LockAndJoin, JoinThrows, Usable, connVars
  <2> QED
    BY <1>1, <2>1, <2>2 DEF LockAndJoin
<1>2. ASSUME NEW c \in Connectors, Register(c)
      PROVE  (Registration /\ CountsFollowSinks)'
  <2>1. sinkMutex = c
    BY <1>2 DEF Register, Exclusion, Critical
  <2>2. Counted(sinks)'
    <3>1. Counted(sinks \cup {c})
      BY <1>2 DEF Register, CountsFollowSinks
    <3>2. \A g \in Groups : InGroup(sinks, g)' = InGroup(sinks \cup {c}, g)
      BY <1>2 DEF Register, InGroup
    <3> QED
      BY <1>2, <3>1, <3>2 DEF Register, Counted
  <2>3. Registration'
    BY <1>2 DEF Register, Registration, Orphan, Usable, connVars, Adding, Removing,
      TypeOK
  <2>4. CountsFollowSinks'
    BY <1>2, <2>1, <2>2 DEF Register, CountsFollowSinks, Exclusion, Critical, TypeOK
  <2> QED
    BY <2>3, <2>4
<1>3. ASSUME NEW c \in Connectors, LockAndUnregister(c)
      PROVE  (Registration /\ CountsFollowSinks)'
  <2>1. sinkMutex = None /\ Counted(sinks) /\ active[c]
    BY <1>3 DEF LockAndUnregister, CountsFollowSinks, Registration, Removing
  <2>2. CASE c \in sinks
    <3>1. sinks' \cup {c} = sinks
      BY <1>3, <2>2 DEF LockAndUnregister
    <3>2. Counted(sinks \cup {c})'
      BY <1>3, <2>1, <3>1 DEF LockAndUnregister, Counted, InGroup
    <3>3. CountsFollowSinks'
      BY <1>3, <2>1, <3>2
      DEF LockAndUnregister, CountsFollowSinks, Exclusion, Critical, TypeOK
    <3>4. Registration'
      BY <1>3, <2>1
      DEF LockAndUnregister, Registration, Orphan, Usable, connVars, Adding, Removing,
        TypeOK
    <3> QED
      BY <3>3, <3>4
  <2>3. CASE c \notin sinks
    <3>1. Orphan(c) /\ sinks' = sinks
      BY <1>3, <2>1, <2>3 DEF LockAndUnregister, Registration
    <3>2. Counted(sinks)' /\ Orphan(c)'
      BY <1>3, <2>1, <3>1
      DEF LockAndUnregister, Counted, InGroup, Orphan, Usable, connVars
    <3>3. CountsFollowSinks'
      BY <1>3, <2>1, <3>2
      DEF LockAndUnregister, CountsFollowSinks, Exclusion, Critical, TypeOK
    <3>4. Registration'
      BY <1>3, <2>1, <3>1
      DEF LockAndUnregister, Registration, Orphan, Usable, connVars, Adding, Removing,
        TypeOK
    <3> QED
      BY <3>3, <3>4
  <2> QED
    BY <2>2, <2>3
<1>4. ASSUME NEW c \in Connectors, LeaveReturns(c) \/ LeaveThrown(c)
      PROVE  (Registration /\ CountsFollowSinks)'
  <2>1. /\ sinkMutex = c /\ c \notin sinks
        /\ pc[c] = "leaving"
        /\ groups[G(c)] > 0
        /\ groups' = [groups EXCEPT ![G(c)] = @ - 1]
        /\ UNCHANGED <<scope, sinks>>
    BY <1>4, <1>0
    DEF LeaveReturns, LeaveThrown, Leave, LeaveThrows, Exclusion, Critical,
      Registration, TypeOK, MembersTypeOK
  <2>2. Counted(sinks \cup {c})
    BY <2>1 DEF CountsFollowSinks, Orphan
  <2>3. \A g \in Groups : groups'[g] = Cardinality(InGroup(sinks, g))
    BY <2>1, <2>2, LeaveCounts DEF TypeOK
  <2>4. \A g \in Groups : InGroup(sinks, g)' = InGroup(sinks, g)
    BY <2>1 DEF InGroup
  <2>5. Counted(sinks)'
    BY <2>3, <2>4 DEF Counted
  <2>6. ASSUME NEW d \in Connectors, Orphan(d) PROVE Orphan(d)'
    <3>1. G(d) # G(c)
      BY <2>1, <2>6 DEF Orphan
    <3>2. Usable' => Usable
      BY <1>4 DEF LeaveReturns, LeaveThrown, Leave, LeaveThrows, ConnLeave, Usable,
        connVars
    <3> QED
      BY <2>1, <2>6, <3>1, <3>2, <1>0 DEF Orphan, TypeOK, MembersTypeOK
  <2>7. LeaveThrown(c) => Orphan(c)'
    BY <1>0 DEF LeaveThrown, LeaveThrows, Orphan, Usable, connVars, TypeOK, MembersTypeOK
  <2>8. CountsFollowSinks'
    BY <1>4, <2>1, <2>5
    DEF LeaveReturns, LeaveThrown, CountsFollowSinks, Exclusion, Critical, TypeOK
  <2>9. Registration'
    BY <1>4, <2>1, <2>6, <2>7
    DEF LeaveReturns, LeaveThrown, Registration, Adding, Removing, TypeOK
  <2> QED
    BY <2>8, <2>9
<1>5. ASSUME NEW c \in Connectors, Activate(c)
      PROVE  (Registration /\ CountsFollowSinks)'
  <2>1. c \notin sinks /\ ~active[c] /\ pc[c] = "idle"
    BY <1>5 DEF Activate, Registration
  <2>2. \A d \in Connectors \ {c} : scope'[d] = scope[d]
    BY <1>5 DEF Activate, TypeOK
  <2>3. Counted(sinks) => Counted(sinks)'
    <3>1. \A g \in Groups : InGroup(sinks, g)' = InGroup(sinks, g)
      BY <1>5, <2>1, <2>2 DEF Activate, InGroup, TypeOK
    <3> QED
      BY <1>5, <3>1 DEF Activate, Counted
  <2>4. ASSUME NEW d \in Connectors \ {c}, Counted(sinks \cup {d})
        PROVE  Counted(sinks \cup {d})'
    <3>1. \A g \in Groups : InGroup(sinks \cup {d}, g)' = InGroup(sinks \cup {d}, g)
      BY <1>5, <2>1, <2>2 DEF Activate, InGroup, TypeOK
    <3> QED
      BY <1>5, <2>4, <3>1 DEF Activate, Counted
  <2>5. ASSUME NEW d \in Connectors \ {c}, Orphan(d) PROVE Orphan(d)'
    BY <1>5, <2>2, <2>5 DEF Activate, Orphan, Usable, connVars
  <2>6. CountsFollowSinks'
    BY <1>5, <2>1, <2>3, <2>4, <2>5 DEF Activate, CountsFollowSinks, TypeOK
  <2>7. Registration'
    BY <1>5, <2>1, <2>5 DEF Activate, Registration, Adding, Removing, TypeOK
  <2> QED
    BY <2>6, <2>7
<1>6. ASSUME NEW c \in Connectors, Deactivate(c) \/ DropConnector(c)
      PROVE  (Registration /\ CountsFollowSinks)'
  <2>1. \A d \in Connectors : Bystander(d)
    BY <1>6
    DEF Deactivate, DropConnector, Bystander, Critical, Adding, Removing, TypeOK
  <2> QED
    BY <1>6, <2>1, BystandersKeepCounts DEF Deactivate, DropConnector, Usable, connVars
<1>7. ASSUME NEW c \in Connectors, LeaveAsserted(c)
      PROVE  (Registration /\ CountsFollowSinks)'
  <2>1. \A d \in Connectors : Bystander(d)
    BY <1>7 DEF LeaveAsserted, Bystander
  <2> QED
    BY <1>7, <2>1, BystandersKeepCounts DEF LeaveAsserted, LeaveAsserts, Usable, connVars
<1>8. ASSUME NEW t \in Threads, ReleaseBus(t) \/ DestructBus(t)
      PROVE  (Registration /\ CountsFollowSinks)'
  <2>1. \A d \in Connectors : Bystander(d)
    BY <1>8
    DEF ReleaseBus, DestructBus, Cancel, Interrupting, WaitDone, Disconnecting,
      Bystander, Critical, Adding, Removing, TypeOK
  <2>2. Usable' => Usable
    BY <1>8
    DEF ReleaseBus, DestructBus, Cancel, Interrupting, WaitDone, Disconnecting,
      InterruptReceive, Disconnect, Usable, connVars
  <2> QED
    BY <1>8, <2>1, <2>2, BystandersKeepCounts
    DEF ReleaseBus, DestructBus, Cancel, Interrupting, WaitDone, Disconnecting
<1>9. ASSUME NEW d \in Dispatchers, Dispatch(d)
      PROVE  (Registration /\ CountsFollowSinks)'
  <2>1. \A c \in Connectors : Bystander(c)
    BY <1>9
    DEF Dispatch, LockAndMap, PickSink, FinishSink, Unlock, Bystander, TypeOK
  <2>2. sinkMutex' \notin Connectors => sinkMutex \notin Connectors
    BY <1>9
    DEF Dispatch, LockAndMap, PickSink, FinishSink, Unlock, Exclusion, Critical
  <2> QED
    BY <1>9, <2>1, <2>2, BystandersKeepCounts
    DEF Dispatch, LockAndMap, PickSink, FinishSink, Unlock, Usable, connVars
<1>10. CASE Loop \/ Receive \/ Pin \/ Unpin
  <2>1. \A c \in Connectors : Bystander(c)
    BY <1>10 DEF Loop, Receive, Pin, Unpin, Bystander, TypeOK
  <2>2. Usable' => Usable
    BY <1>10 DEF Loop, Receive, ReceiveMessage, ReceiveFails, Pin, Unpin, Usable,
      connVars
  <2> QED
    BY <1>10, <2>1, <2>2, BystandersKeepCounts DEF Loop, Receive, Pin, Unpin
<1>11. ASSUME NEW p \in Publishers, Publish(p) \/ DropPublisher(p)
       PROVE  (Registration /\ CountsFollowSinks)'
  <2>1. \A c \in Connectors : Bystander(c)
    BY <1>11 DEF Publish, DropPublisher, Bystander, TypeOK
  <2> QED
    BY <1>11, <2>1, BystandersKeepCounts
    DEF Publish, DropPublisher, SendReturns, Usable, connVars
<1>12. CASE RemoteSends \/ SessionLost \/ UNCHANGED vars
  <2>1. \A c \in Connectors : Bystander(c)
    BY <1>12 DEF RemoteSends, SessionLost, Bystander, vars, busVars
  <2>2. Usable' => Usable
    BY <1>12 DEF RemoteSends, SessionLost, DaemonDelivers, DaemonDropsSession, Usable,
      vars, connVars
  <2> QED
    BY <1>12, <2>1, <2>2, BystandersKeepCounts
    DEF RemoteSends, SessionLost, vars, busVars
<1> QED
  BY <1>1, <1>2, <1>3, <1>4, <1>5, <1>6, <1>7, <1>8, <1>9, <1>10, <1>11, <1>12
  DEF Next, ConnectorStep, PublisherStep, ReceiverStep, UserCall

---------------------------------------------------------------------------
(* The theorems. *)

\* The initial state satisfies the inductive invariant.
LEMMA InvInit == Init => IInv
<1> SUFFICES ASSUME Init PROVE IInv
  OBVIOUS
<1>1. TypeOK
  BY TypeInit
<1>2. Counted(sinks)
  <2>1. \A g \in Groups : InGroup(sinks, g) = {}
    BY DEF Init, InGroup
  <2> QED
    BY <2>1, FS_EmptySet DEF Init, MembersInit, Counted
<1>3. CountsFollowSinks
  BY <1>2, ThreadAssumption
  DEF Init, CountsFollowSinks, Threads, Users
<1>4. Registration /\ JoinedWhileCounted
  BY ThreadAssumption
  DEF Init, ConnInit, MembersInit, Registration, JoinedWhileCounted, Adding,
    Removing, Threads, Users
<1>5. Roles /\ Exclusion /\ LoopVisitsSinks
  BY ThreadAssumption
  DEF Init, Roles, Exclusion, LoopVisitsSinks, Critical, Adding, Removing,
    Dispatching, Threads, Users
<1>6. References /\ Closing
  BY ThreadAssumption
  DEF Init, ConnInit, References, Closing, NoReaderOnClosedConnection, Adding,
    Removing, Dispatching, Destructing, Threads, Users
<1> QED
  BY <1>1, <1>3, <1>4, <1>5, <1>6 DEF IInv

\* Every step preserves it.
LEMMA InvStep == IInv /\ [Next]_vars => IInv'
BY TypeStep, ClosingStep, RolesStep, ExclusionStep, LoopStep, ReferencesStep,
   JoinedStep, MembershipStep
DEF IInv

\* The inductive invariant holds in every reachable state.
LEMMA Invariance == Spec => []IInv
BY InvInit, InvStep, PTL DEF Spec

\* MembershipManager counts exactly the registered sinks whenever no thread
\* is inside addSink or removeSink.
THEOREM CountsAreExact == Spec => []MembershipExact
<1>1. IInv => MembershipExact
  BY ThreadAssumption
  DEF IInv, CountsFollowSinks, Counted, InGroup, MembershipExact, Threads, Users
<1> QED
  BY <1>1, Invariance, PTL

\* As long as the session lives, the Spread groups joined are those counted.
THEOREM DaemonAgrees == Spec => []JoinedWhileCounted
<1>1. IInv => JoinedWhileCounted
  BY DEF IInv
<1> QED
  BY <1>1, Invariance, PTL

\* No handler of a connector runs or is about to run once deactivate() has
\* returned.
THEOREM HandlersAreQuiet == Spec => []QuietAfterDeactivate
<1>1. IInv => QuietAfterDeactivate
  BY ThreadAssumption
  DEF IInv, Registration, LoopVisitsSinks, QuietAfterDeactivate, Threads, Users
<1> QED
  BY <1>1, Invariance, PTL

\* The bus is destroyed by one thread and used by no other meanwhile.
THEOREM DestructionIsExclusive == Spec => []DestructorAlone
<1>1. ASSUME IInv, NEW t \in Threads, pc[t] \in Destructing
      PROVE  /\ busRefs = {} /\ sinkMutex = None
             /\ \A u \in Threads \ {t} :
                  pc[u] \notin Adding \cup Removing \cup Dispatching \cup Destructing
  <2>1. busRefs = {}
    BY <1>1 DEF IInv, References
  <2>2. \A u \in Threads \ {t} :
          pc[u] \notin Adding \cup Removing \cup Dispatching \cup Destructing
    BY <1>1, <2>1 DEF IInv, References
  <2>3. sinkMutex \notin Threads
    BY <1>1, <2>1
    DEF IInv, References, Exclusion, Critical, Adding, Removing, Dispatching
  <2> QED
    BY <1>1, <2>1, <2>2, <2>3 DEF IInv, TypeOK
<1>2. IInv => DestructorAlone
  BY <1>1 DEF DestructorAlone
<1> QED
  BY <1>2, Invariance, PTL

\* The connection is closed only after its reader has ended.
THEOREM ReaderEndsFirst == Spec => []NoReaderOnClosedConnection
<1>1. IInv => NoReaderOnClosedConnection
  BY DEF IInv, Closing
<1> QED
  BY <1>1, Invariance, PTL

---------------------------------------------------------------------------
(* The destructor and the receiver. *)

\* While a user's thread waits for the receiver in ~BusImpl, something will
\* end the receiver: it is told to stop, and if it blocks in receive() its
\* interrupt is in the mailbox or the session is lost.
DestructorIsHeard ==
  \A t \in Users : pc[t] = "waiting" =>
    /\ cancelled
    /\ pc[Receiver] = "receiving" =>
         session = "lost" \/ \E i \in DOMAIN mailbox : mailbox[i] = Interrupt

\* DestructorIsHeard with the step before the interrupt.
Heard ==
  /\ DestructorIsHeard
  /\ \A t \in Threads : pc[t] = "interrupting" => cancelled

\* What is in the mailbox stays there until it is received, and is followed
\* by what arrives.
LEMMA MailStays ==
  ASSUME NEW S, NEW s \in Seq(S), NEW m \in S, NEW i \in DOMAIN s
  PROVE  /\ i \in DOMAIN Append(s, m) /\ Append(s, m)[i] = s[i]
         /\ \E j \in DOMAIN Append(s, m) : Append(s, m)[j] = m
<1>1. DOMAIN s = 1..Len(s) /\ Len(s) \in Nat
  BY LenProperties
<1>2. Append(s, m) \in Seq(S) /\ Len(Append(s, m)) = Len(s) + 1
  BY AppendProperties
<1>3. DOMAIN Append(s, m) = 1..(Len(s) + 1)
  BY <1>2, LenProperties
<1> QED
  BY <1>1, <1>3, AppendProperties

\* A step that touches neither the flag nor the mailbox, and leads no thread
\* to where it matters.
LEMMA HeardUndisturbed ==
  ASSUME TypeOK, Heard, UNCHANGED <<cancelled, session, mailbox>>,
         \A t \in Threads :
           pc'[t] \in {"waiting", "interrupting", "receiving"} => pc'[t] = pc[t]
  PROVE  Heard'
BY ThreadAssumption DEF Heard, DestructorIsHeard, Threads, Users

\* The task is cancelled before it is interrupted, so a receiver that has had
\* its interrupt does not go back to receive().
LEMMA HeardStep ==
  TypeOK /\ References /\ Heard /\ [Next]_vars => Heard'
<1> SUFFICES ASSUME TypeOK, References, Heard, [Next]_vars PROVE Heard'
  OBVIOUS
<1> USE ThreadAssumption DEF Users, Dispatchers, Threads, Goto, At
<1>1. ASSUME NEW c \in Connectors,
             LockAndJoin(c) \/ Register(c) \/ LockAndUnregister(c) \/ LeaveReturns(c)
               \/ LeaveThrown(c) \/ LeaveAsserted(c)
      PROVE  Heard'
  BY <1>1, HeardUndisturbed
  DEF LockAndJoin, Register, LockAndUnregister, LeaveReturns, LeaveThrown,
      LeaveAsserted, Join, JoinThrows, Leave, LeaveThrows, LeaveAsserts, ConnJoin,
      ConnLeave, connVars, TypeOK
<1>2. ASSUME NEW t \in Threads, ReleaseBus(t) PROVE Heard'
  BY <1>2, HeardUndisturbed DEF ReleaseBus, connVars, TypeOK
<1>3. ASSUME NEW t \in Threads, DestructBus(t) PROVE Heard'
  <2>1. CASE Cancel(t)
    BY <2>1 DEF Cancel, Heard, DestructorIsHeard, connVars, TypeOK
  <2>2. CASE Interrupting(t)
    <3>1. \A u \in Threads \ {t} : pc[u] \notin Destructing
      BY <2>2 DEF Interrupting, References, Destructing
    <3>2. cancelled /\ cancelled' = cancelled /\ session' = session
      BY <2>2 DEF Interrupting, InterruptReceive, Heard
    <3>3. session = "lost" \/ \E i \in DOMAIN mailbox' : mailbox'[i] = Interrupt
      <4>1. CASE session = "up"
        <5>1. mailbox \in Seq(Message) /\ mailbox' = Append(mailbox, Interrupt)
          BY <2>2, <4>1 DEF Interrupting, InterruptReceive, TypeOK, ConnTypeOK
        <5> QED
          BY <5>1, AppendProperties, LenProperties DEF Message
      <4> QED
        BY <4>1 DEF TypeOK, ConnTypeOK
    <3>4. \A u \in Threads \ {t} : pc'[u] = pc[u]
      BY <2>2 DEF Interrupting, TypeOK
    <3> QED
      BY <3>1, <3>2, <3>3, <3>4 DEF Heard, DestructorIsHeard, Destructing
  <2>3. CASE WaitDone(t)
    BY <2>3, HeardUndisturbed DEF WaitDone, connVars, TypeOK
  <2>4. CASE Disconnecting(t)
    <3>1. \A u \in Threads \ {t} : pc[u] \notin Destructing
      BY <2>4 DEF Disconnecting, References, Destructing
    <3> QED
      BY <2>4, <3>1 DEF Disconnecting, Heard, DestructorIsHeard, TypeOK, Destructing
  <2> QED
    BY <1>3, <2>1, <2>2, <2>3, <2>4 DEF DestructBus
<1>4. CASE Loop
  BY <1>4 DEF Loop, Heard, DestructorIsHeard, connVars, TypeOK
<1>5. CASE Receive
  BY <1>5
  DEF Receive, ReceiveMessage, ReceiveFails, connVars, Heard, DestructorIsHeard, TypeOK
<1>6. CASE Pin \/ Unpin
  BY <1>6 DEF Pin, Unpin, CancelsItself, Heard, DestructorIsHeard, connVars, TypeOK
<1>7. ASSUME NEW d \in Dispatchers, Dispatch(d) PROVE Heard'
  BY <1>7, HeardUndisturbed
  DEF Dispatch, LockAndMap, PickSink, FinishSink, Unlock, connVars, TypeOK
<1>8. CASE UserCall
  BY <1>8, HeardUndisturbed
  DEF UserCall, Activate, Deactivate, DropConnector, Publish, DropPublisher,
      SendReturns, connVars, TypeOK
<1>9. CASE RemoteSends
  <2>1. PICK m \in Message : mailbox' = Append(mailbox, m)
    BY <1>9 DEF RemoteSends, DaemonDelivers, Message
  <2>2. \A i \in DOMAIN mailbox : i \in DOMAIN mailbox' /\ mailbox'[i] = mailbox[i]
    BY <2>1, MailStays DEF TypeOK, ConnTypeOK
  <2> QED
    BY <1>9, <2>2 DEF RemoteSends, DaemonDelivers, Heard, DestructorIsHeard
<1>10. CASE SessionLost
  BY <1>10 DEF SessionLost, DaemonDropsSession, busVars, Heard, DestructorIsHeard
<1>11. CASE UNCHANGED vars
  BY <1>11, HeardUndisturbed DEF vars, busVars, connVars
<1> QED
  BY <1>1, <1>2, <1>3, <1>4, <1>5, <1>6, <1>7, <1>8, <1>9, <1>10, <1>11
  DEF Next, ConnectorStep, PublisherStep, ReceiverStep

\* Nobody waits in ~BusImpl for a receiver that nothing will wake.
LEMMA DestructorsAreHeard == Spec => []Heard
<1>1. Init => Heard
  BY ThreadAssumption DEF Init, Heard, DestructorIsHeard, Threads, Users
<1>2. IInv /\ Heard /\ [Next]_vars => Heard'
  BY HeardStep DEF IInv
<1> QED
  BY <1>1, <1>2, Invariance, PTL DEF Spec

\* Threads wait for threads that can go on: a holder of sinkMutex never waits,
\* and neither does the receiver that is to end.
THEOREM WaitsAreShort == Spec => []NoCircularWait
<1>1. ASSUME IInv, Heard, ~SelfDeadlock, NEW t \in Threads, Waits(t), pc[t] # "receiving"
      PROVE  ~Waits(WaitsFor(t))
  <2>1. CASE pc[t] = "waiting"
    <3>1. t \in Users
      BY <1>1, <2>1 DEF SelfDeadlock, Threads, Dispatchers
    <3>2. pc[Receiver] \notin Dispatching \cup Destructing \cup Adding \cup Removing
      <4>1. Receiver \in Threads /\ Receiver # t /\ Receiver \notin Connectors
        BY <3>1, ThreadAssumption DEF Threads, Users
      <4>2. busRefs = {} /\ pc[t] \in Destructing
        BY <1>1, <2>1 DEF IInv, References, Destructing
      <4> QED
        BY <1>1, <4>1, <4>2 DEF IInv, References, Roles
    <3>3. pc[Receiver] = "receiving" =>
            session = "lost" \/ \E i \in DOMAIN mailbox : mailbox[i] = Interrupt
      BY <1>1, <2>1, <3>1 DEF Heard, DestructorIsHeard
    <3>4. mailbox = <<>> => DOMAIN mailbox = {}
      OBVIOUS
    <3>5. WaitsFor(t) = Receiver
      BY <2>1 DEF WaitsFor
    <3> QED
      BY <3>2, <3>3, <3>4, <3>5
      DEF Waits, Dispatching, Destructing, Adding, Removing
  <2>2. CASE pc[t] # "waiting"
    <3>1. sinkMutex # None /\ WaitsFor(t) = sinkMutex
      BY <1>1, <2>2 DEF Waits, WaitsFor
    <3>2. sinkMutex \in Threads /\ pc[sinkMutex] \in Critical
      BY <1>1, <3>1 DEF IInv, TypeOK, Exclusion
    <3>3. pc[sinkMutex] # "destroying"
      BY <1>1, <3>2 DEF SelfDeadlock, IInv, Roles, Dispatching
    <3> QED
      BY <3>1, <3>2, <3>3 DEF Waits, Critical
  <2> QED
    BY <2>1, <2>2
<1>2. IInv /\ Heard => NoCircularWait
  BY <1>1 DEF NoCircularWait
<1> QED
  BY <1>2, Invariance, DestructorsAreHeard, PTL

---------------------------------------------------------------------------
(* The destructor of a sink, run by a dispatcher. *)

\* The owner of a sink that is being destroyed has let go of it.
OwnerIsGone ==
  \A d \in Dispatchers : pc[d] = "destroying" => handling \in Connectors \ held

\* An owner who has let go never has the connector again, and nobody else is
\* handling while one dispatcher is.
LEMMA OwnerStep ==
  TypeOK /\ Roles /\ Exclusion /\ OwnerIsGone /\ [Next]_vars => OwnerIsGone'
<1> SUFFICES ASSUME TypeOK, Roles, Exclusion, OwnerIsGone, [Next]_vars PROVE OwnerIsGone'
  OBVIOUS
<1> USE ThreadAssumption DEF TypeOK, Users, Dispatchers, Threads, Goto, At,
    Exclusion, Critical, OwnerIsGone
<1>1. ASSUME NEW c \in Connectors, ConnectorStep(c) PROVE OwnerIsGone'
  BY <1>1 DEF ConnectorStep, LockAndJoin, Register, LockAndUnregister,
    LeaveReturns, LeaveThrown, LeaveAsserted, ReleaseBus, DestructBus, Cancel,
    Interrupting, WaitDone, Disconnecting
<1>2. ASSUME NEW d \in Dispatchers, Dispatch(d) PROVE OwnerIsGone'
  BY <1>2 DEF Dispatch, LockAndMap, PickSink, FinishSink, Unlock
<1>3. ASSUME NEW d \in Dispatchers, ReleaseBus(d) \/ DestructBus(d) PROVE OwnerIsGone'
  BY <1>3 DEF ReleaseBus, DestructBus, Cancel, Interrupting, WaitDone, Disconnecting
<1>4. CASE Loop \/ Receive \/ Pin \/ Unpin
  BY <1>4 DEF Loop, Receive, Pin, Unpin
<1>5. CASE UserCall
  BY <1>5 DEF UserCall, Activate, Deactivate, DropConnector, Publish,
    DropPublisher
<1>6. CASE RemoteSends \/ SessionLost
  BY <1>6 DEF RemoteSends, SessionLost, busVars
<1>7. CASE UNCHANGED vars
  BY <1>7 DEF vars, busVars
<1> QED
  BY <1>1, <1>2, <1>3, <1>4, <1>5, <1>6, <1>7 DEF Next, PublisherStep, ReceiverStep

\* Who deactivates a connector before dropping it is safe from a dispatcher
\* that destroys it and waits for itself.
THEOREM DeactivatingIsSafe == Spec => []DeactivatedIsSafe
<1>1. Init => OwnerIsGone
  BY ThreadAssumption DEF Init, OwnerIsGone, Threads, Users, Dispatchers
<1>2. IInv /\ OwnerIsGone /\ [Next]_vars => OwnerIsGone'
  BY OwnerStep DEF IInv
<1>3. IInv /\ OwnerIsGone => DeactivatedIsSafe
  BY ThreadAssumption
  DEF IInv, OwnerIsGone, DeactivatedIsSafe, LoopVisitsSinks, Registration, TypeOK,
      Threads, Users
<1> QED
  BY <1>1, <1>2, <1>3, Invariance, PTL DEF Spec

---------------------------------------------------------------------------
(* The bus leads the life that is promised to its owners. *)

lifeVars == <<LifeState, busRefs, LifeReceiver>>

\* A thread that stays in or out of ~BusImpl, and a receiver that stays in its
\* phase, change nothing for the owners.
LEMMA LifeUndisturbed ==
  ASSUME TypeOK, UNCHANGED busRefs,
         \A t \in Threads : pc'[t] \in Destructing <=> pc[t] \in Destructing,
         ReceiverAt(pc'[Receiver]) = ReceiverAt(pc[Receiver])
  PROVE  UNCHANGED lifeVars
BY DEF lifeVars, LifeState, Live, LifeReceiver

\* The same for one thread that goes on.
LEMMA LifeGoesOn ==
  ASSUME TypeOK, UNCHANGED busRefs,
         NEW t \in Threads, NEW l \in PC, Goto(t, l),
         l \in Destructing <=> pc[t] \in Destructing,
         t = Receiver => ReceiverAt(l) = ReceiverAt(pc[t])
  PROVE  UNCHANGED lifeVars
<1>1. \A u \in Threads : pc'[u] = IF u = t THEN l ELSE pc[u]
  BY DEF Goto, TypeOK
<1>2. Receiver \in Threads
  BY DEF Threads
<1> QED
  BY <1>1, <1>2, LifeUndisturbed

\* And for one that is not the receiver.
LEMMA UserGoesOn ==
  ASSUME TypeOK, UNCHANGED busRefs,
         NEW t \in Users, NEW l \in PC \ Destructing, Goto(t, l),
         pc[t] \notin Destructing
  PROVE  UNCHANGED lifeVars
BY LifeGoesOn, ThreadAssumption DEF Threads

\* Each step of a thread is a step in the life of the bus, or none.
LEMMA LifeStep == IInv /\ [Next]_vars => [Life!Next]_lifeVars
<1> SUFFICES ASSUME IInv, [Next]_vars PROVE [Life!Next]_lifeVars
  OBVIOUS
<1> USE ThreadAssumption DEF At
<1>0. TypeOK /\ Connectors \subseteq Users /\ Publishers \subseteq Users
      /\ Users \subseteq Threads /\ Receiver \in Threads \ Users
  BY DEF IInv, Users, Threads
<1>1. ASSUME NEW c \in Connectors,
             LockAndJoin(c) \/ Register(c) \/ LockAndUnregister(c) \/ LeaveReturns(c)
               \/ LeaveThrown(c)
      PROVE  UNCHANGED lifeVars
  BY <1>0, <1>1, UserGoesOn
  DEF LockAndJoin, Register, LockAndUnregister, LeaveReturns, LeaveThrown, PC,
      Adding, Removing, Destructing
<1>2. ASSUME NEW c \in Connectors, LeaveAsserted(c) PROVE UNCHANGED lifeVars
  BY <1>0, <1>2, LifeUndisturbed DEF LeaveAsserted
<1>3. ASSUME NEW t \in Users, ReleaseBus(t) PROVE Life!Next
  <2>1. t \in busRefs /\ LifeState = "active" /\ LifeReceiver' = LifeReceiver
    BY <1>0, <1>3
    DEF ReleaseBus, IInv, References, LifeState, Live, LifeReceiver, Goto, TypeOK
  <2>2. busRefs' = busRefs \ {t}
    BY <1>3 DEF ReleaseBus
  <2>3. LifeState' = IF busRefs = {t} THEN "closing" ELSE LifeState
    <3>1. CASE busRefs = {t}
      <4>1. pc'[t] = "canceling" /\ ~Live'
        BY <1>0, <1>3, <2>2, <3>1 DEF ReleaseBus, Goto, TypeOK, Live
      <4> QED
        BY <1>0, <3>1, <4>1 DEF LifeState, Destructing
    <3>2. CASE busRefs # {t}
      BY <2>1, <2>2, <3>2 DEF LifeState, Live
    <3> QED
      BY <3>1, <3>2
  <2>4. Life!Release(t)
    BY <2>1, <2>2, <2>3 DEF Life!Release, Life!LetGo
  <2> QED
    BY <2>4 DEF Life!Next
<1>4. ASSUME NEW t \in Threads, Cancel(t) \/ Interrupting(t) \/ WaitDone(t)
      PROVE  UNCHANGED lifeVars
  BY <1>0, <1>4, LifeGoesOn
  DEF Cancel, Interrupting, WaitDone, ReceiverAt, PC, Destructing, Dispatching
<1>5. ASSUME NEW t \in Threads, Disconnecting(t) PROVE Life!Next
  <2>1. pc[t] = "disconnecting" /\ pc[Receiver] = "done"
    BY <1>5 DEF Disconnecting, IInv, Closing
  <2>2. busRefs = {} /\ \A u \in Threads \ {t} : pc[u] \notin Destructing
    BY <2>1 DEF IInv, References, Destructing
  <2>3. UNCHANGED busRefs /\ \A u \in Threads : pc'[u] = IF u = t THEN "gone" ELSE pc[u]
    BY <1>0, <1>5 DEF Disconnecting, Goto, TypeOK
  <2>4. LifeState = "closing" /\ LifeState' = "gone"
    BY <2>1, <2>2, <2>3 DEF LifeState, Live, Destructing
  <2>5. LifeReceiver = "stopped" /\ LifeReceiver' = LifeReceiver
    BY <1>0, <2>1, <2>3 DEF LifeReceiver, ReceiverAt, Dispatching, Destructing
  <2>6. Life!Close
    BY <2>3, <2>4, <2>5 DEF Life!Close
  <2> QED
    BY <2>6 DEF Life!Next
<1>6. CASE Loop
  <2>1. CASE cancelled
    <3>1. pc[Receiver] = "loop" /\ UNCHANGED busRefs
          /\ \A u \in Threads : pc'[u] = IF u = Receiver THEN "done" ELSE pc[u]
      BY <1>0, <1>6, <2>1 DEF Loop, Goto, TypeOK
    <3>2. LifeState' = LifeState
      BY <1>0, <3>1 DEF LifeState, Live, Destructing
    <3>3. LifeReceiver = "running" /\ LifeReceiver' = "stopped"
      BY <1>0, <3>1 DEF LifeReceiver, ReceiverAt, Dispatching, Destructing
    <3>4. Life!ReceiverEnds
      BY <3>1, <3>2, <3>3 DEF Life!ReceiverEnds
    <3> QED
      BY <3>4 DEF Life!Next
  <2>2. CASE ~cancelled
    BY <1>0, <1>6, <2>2, LifeGoesOn
    DEF Loop, ReceiverAt, PC, Destructing, Dispatching
  <2> QED
    BY <2>1, <2>2
<1>7. CASE Receive
  BY <1>0, <1>7, LifeGoesOn DEF Receive, ReceiverAt, PC, Destructing, Dispatching
<1>8. CASE Pin
  <2>1. CASE busRefs = {}
    BY <1>0, <1>8, <2>1, LifeGoesOn DEF Pin, ReceiverAt, PC, Destructing, Dispatching
  <2>2. CASE busRefs # {}
    <3>1. /\ pc[Receiver] = "pinning" /\ busRefs' = busRefs \cup {Receiver}
          /\ pc'[Receiver] = "locking"
      BY <1>0, <1>8, <2>2 DEF Pin, Goto, TypeOK
    <3>2. LifeState' = LifeState
      BY <2>2, <3>1 DEF LifeState, Live
    <3>3. LifeReceiver = "running" /\ LifeReceiver' = "dispatching"
      BY <3>1 DEF LifeReceiver, ReceiverAt, Dispatching, Destructing
    <3>4. Life!Pin
      BY <2>2, <3>1, <3>2, <3>3 DEF Life!Pin
    <3> QED
      BY <3>4 DEF Life!Next
  <2> QED
    BY <2>1, <2>2
<1>9. CASE Unpin
  <2>1. /\ pc[Receiver] = "unpinning" /\ Receiver \in busRefs
        /\ busRefs' = busRefs \ {Receiver}
        /\ pc'[Receiver] = IF busRefs = {Receiver} THEN "canceling" ELSE "loop"
    BY <1>0, <1>9 DEF Unpin, Goto, TypeOK, IInv, References, Dispatching
  <2>2. LifeReceiver = "dispatching" /\ LifeState = "active"
    <3>1. LifeReceiver = "dispatching"
      BY <2>1 DEF LifeReceiver, ReceiverAt, Dispatching, Destructing
    <3>2. LifeState = "active"
      BY <2>1 DEF LifeState, Live
    <3> QED
      BY <3>1, <3>2
  <2>3. LifeReceiver' = IF busRefs = {Receiver} THEN "stuck" ELSE "running"
    BY <2>1 DEF LifeReceiver, ReceiverAt, Dispatching, Destructing
  <2>4. LifeState' = IF busRefs = {Receiver} THEN "closing" ELSE LifeState
    <3>1. CASE busRefs = {Receiver}
      BY <1>0, <2>1, <3>1 DEF LifeState, Live, Destructing
    <3>2. CASE busRefs # {Receiver}
      BY <2>1, <2>2, <3>2 DEF LifeState, Live
    <3> QED
      BY <3>1, <3>2
  <2>5. Life!Unpin
    BY <2>1, <2>2, <2>3, <2>4 DEF Life!Unpin, Life!LetGo
  <2> QED
    BY <2>5 DEF Life!Next
<1>10. ASSUME NEW d \in Publishers, Dispatch(d) PROVE UNCHANGED lifeVars
  <2>1. ASSUME PickSink(d) PROVE UNCHANGED lifeVars
    BY <1>0, <2>1, LifeUndisturbed DEF PickSink
  <2>2. ASSUME LockAndMap(d) \/ FinishSink(d) \/ Unlock(d) PROVE UNCHANGED lifeVars
    BY <1>0, <2>2, UserGoesOn, LifeUndisturbed
    DEF LockAndMap, FinishSink, Unlock, PC, Dispatching, Destructing
  <2> QED
    BY <1>10, <2>1, <2>2 DEF Dispatch
<1>11. CASE Dispatch(Receiver)
  <2>1. ASSUME PickSink(Receiver) PROVE UNCHANGED lifeVars
    BY <1>0, <2>1, LifeUndisturbed DEF PickSink
  <2>2. ASSUME LockAndMap(Receiver) \/ FinishSink(Receiver) \/ Unlock(Receiver)
        PROVE  UNCHANGED lifeVars
    BY <1>0, <2>2, LifeGoesOn, LifeUndisturbed
    DEF LockAndMap, FinishSink, Unlock, PC, Dispatching, Destructing, ReceiverAt
  <2> QED
    BY <1>11, <2>1, <2>2 DEF Dispatch
<1>12. CASE UserCall
  BY <1>0, <1>12, UserGoesOn
  DEF UserCall, Activate, Deactivate, DropConnector, Publish, DropPublisher, PC,
      Adding, Removing, Dispatching, Destructing
<1>13. CASE RemoteSends \/ SessionLost
  BY <1>0, <1>13, LifeUndisturbed DEF RemoteSends, SessionLost, busVars
<1>14. CASE UNCHANGED vars
  BY <1>0, <1>14, LifeUndisturbed DEF vars, busVars
<1> QED
  BY <1>0, <1>1, <1>2, <1>3, <1>4, <1>5, <1>6, <1>7, <1>8, <1>9, <1>10, <1>11,
     <1>12, <1>13, <1>14
  DEF Next, ConnectorStep, PublisherStep, ReceiverStep, DestructBus

\* An activated bus leads the life of BusLife.
THEOREM Implements == Spec => ImplementsBusLife
<1>1. Init => Life!Activated
  <2> SUFFICES ASSUME Init PROVE Life!Activated
    OBVIOUS
  <2>1. LifeReceiver = "running"
    BY DEF Init, LifeReceiver, ReceiverAt, Dispatching, Destructing, Threads
  <2> QED
    BY <2>1, ThreadAssumption DEF Init, Life!Activated, LifeState, Live
<1>2. IInv /\ [Next]_vars => [Life!Next]_(Life!vars)
  BY LifeStep DEF lifeVars, Life!vars
<1> QED
  BY <1>1, <1>2, Invariance, PTL DEF Spec, ImplementsBusLife, Life!FromActivation

\* OwnedOrOver, with the receiver's reference and what holds before there is a
\* receiver.
Owned ==
  /\ Life!OwnedOrOver
  /\ Receiver \in busRefs <=> LifeReceiver = "dispatching"
  /\ LifeState \in {"none", "created"} => LifeReceiver = "none"

\* It is a consequence of the life alone.
LEMMA LifeIsOwned == Owned /\ [Life!Next]_lifeVars => Owned'
<1> SUFFICES ASSUME Owned, [Life!Next]_lifeVars PROVE Owned'
  OBVIOUS
<1> USE ThreadAssumption DEF Owned, Life!OwnedOrOver
<1>1. CASE Life!Next
  BY <1>1
  DEF Life!Next, Life!Create, Life!Share, Life!Release, Life!LetGo, Life!Activate,
      Life!ActivateThrows, Life!Pin, Life!Unpin, Life!ReceiverEnds, Life!Close
<1>2. CASE UNCHANGED lifeVars
  BY <1>2 DEF lifeVars
<1> QED
  BY <1>1, <1>2

\* A bus that is closed has no receiver that still runs, is dispatching or
\* waits for itself, and a bus that anyone can reach is not being closed.
THEOREM OverIsOver == Spec => []Life!OwnedOrOver
<1>1. Init => Owned
  <2> SUFFICES ASSUME Init PROVE Owned
    OBVIOUS
  <2>1. LifeState = "active" /\ busRefs # {} /\ Receiver \notin busRefs
    BY ThreadAssumption DEF Init, LifeState, Live
  <2>2. LifeReceiver = "running"
    BY DEF Init, LifeReceiver, ReceiverAt, Dispatching, Destructing, Threads
  <2> QED
    BY <2>1, <2>2 DEF Owned, Life!OwnedOrOver
<1>2. IInv /\ Owned /\ [Next]_vars => Owned'
  BY LifeStep, LifeIsOwned
<1>3. Owned => Life!OwnedOrOver
  BY DEF Owned
<1> QED
  BY <1>1, <1>2, <1>3, Invariance, PTL DEF Spec
============================================================================
