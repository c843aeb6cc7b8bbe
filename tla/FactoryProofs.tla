---------------------------- MODULE FactoryProofs ----------------------------
(***************************************************************************)
(* Proofs about Factory for any clients, daemons and number of buses.      *)
(***************************************************************************)
EXTENDS Factory, TLAPS

Inside(c) == pc[c] \in {"connecting", "storing"}

\* busesLock is held by whoever is between Create and the end of obtainBus.
LockIsHeld == \A c \in Clients : Inside(c) <=> busesLock = c

\* What has not been created is not used.
Numbering ==
  /\ \A b \in Buses : b > created =>
       refs[b] = {} /\ state[b] = "none" /\ receiver[b] = "none" /\ b \notin sessions
  /\ \A c \in Clients : pc[c] \in Busy => mine[c] <= created

\* Who has a reference: clients from Create or Share to Release, and the
\* receiver while it dispatches.
References ==
  \A b \in Buses :
    /\ \A c \in Clients :
         c \in refs[b] <=> (Inside(c) \/ pc[c] = "using") /\ mine[c] = b
    /\ Receiver \in refs[b] <=> receiver[b] = "dispatching"

\* A new bus is its creator's alone, and the map has no other for the daemon.
NewBus ==
  \A c \in Clients : Inside(c) =>
    /\ buses[wanted[c]] = NoBus
    /\ daemonOf[mine[c]] = wanted[c]
    /\ refs[mine[c]] \subseteq {c, Receiver}
    /\ state[mine[c]] = IF pc[c] = "connecting" THEN "created" ELSE "active"
    /\ pc[c] = "connecting" => mine[c] \notin sessions
    /\ pc[c] = "connecting" => receiver[mine[c]] = "none"

\* The entries are right, and a live bus is entered or new.
MapIsRight ==
  /\ \A d \in Daemons : buses[d] # NoBus => daemonOf[buses[d]] = d /\ buses[d] <= created
  /\ \A b \in Buses : Live(b) =>
       \/ buses[daemonOf[b]] = b
       \/ \E c \in Clients : Inside(c) /\ mine[c] = b

\* How the state of a bus follows its references.
States ==
  /\ \A b \in Buses :
       /\ Live(b) => state[b] \in {"created", "active"}
       /\ state[b] = "created" =>
            \E c \in Clients : pc[c] = "connecting" /\ mine[c] = b
       /\ state[b] = "active" => Live(b)
       /\ state[b] = "closing" => Closing(b)
       /\ b \in sessions => state[b] \in {"active", "closing"}
  /\ \A c \in Clients : pc[c] = "closing" => state[mine[c]] = "closing"
  /\ \A c, x \in Clients :
       pc[c] = "closing" /\ pc[x] = "closing" /\ mine[c] = mine[x] => c = x

IInv ==
  /\ TypeOK
  /\ LockIsHeld
  /\ Numbering
  /\ References
  /\ NewBus
  /\ MapIsRight
  /\ States

---------------------------------------------------------------------------

\* The placeholder is a daemon.
LEMMA AnyDaemonType == AnyDaemon \in Daemons
BY FactoryAssumption DEF AnyDaemon

\* What Create does, with a name for the new bus.
Creation(c, b) ==
  /\ b > created /\ created' = b
  /\ \A x \in Buses : x <= b => x <= created \/ x = b
  /\ pc[c] = "obtaining" /\ busesLock = NoClient
  /\ pc' = [pc EXCEPT ![c] = "connecting"]
  /\ mine' = [mine EXCEPT ![c] = b]
  /\ refs' = [refs EXCEPT ![b] = {c}]
  /\ daemonOf' = [daemonOf EXCEPT ![b] = wanted[c]]
  /\ state' = [state EXCEPT ![b] = "created"]
  /\ busesLock' = c
  /\ buses' = [buses EXCEPT ![wanted[c]] = NoBus]
  /\ UNCHANGED <<wanted, receiver, up, sessions>>

\* Create is a Creation of some bus.
LEMMA CreateEffect ==
  ASSUME TypeOK, NEW c \in Clients, Create(c)
  PROVE  \E b \in Buses : Creation(c, b)
<1> DEFINE b == created + 1
<1>1. b \in Buses /\ created \in Nat
  BY DEF TypeOK, Create, Buses
<1>2. b > created /\ \A x \in Buses : x <= b => x <= created \/ x = b
  BY <1>1 DEF Buses
<1> QED
  BY <1>1, <1>2 DEF Create, Goto, Creation

\* The types are kept.
LEMMA TypeStep == IInv /\ [Next]_vars => TypeOK'
<1> SUFFICES ASSUME IInv, [Next]_vars PROVE TypeOK'
  OBVIOUS
<1>1. ASSUME NEW c \in Clients, NEW d \in Daemons, Request(c, d) PROVE TypeOK'
  BY <1>1 DEF IInv, TypeOK, Busy, Request, Goto, busVars
<1>2. ASSUME NEW c \in Clients, Share(c) PROVE TypeOK'
  BY <1>2, AnyDaemonType DEF IInv, TypeOK, Busy, Share, Alive, ReturnFrom, Goto
<1>3. ASSUME NEW c \in Clients, Create(c) PROVE TypeOK'
  <2> PICK b \in Buses : Creation(c, b)
    BY <1>3, CreateEffect DEF IInv
  <2>1. b \in 0..MaxBuses
    BY DEF Buses
  <2> QED
    BY <2>1 DEF Creation, IInv, TypeOK, Busy
<1>4. ASSUME NEW c \in Clients, Connect(c) PROVE TypeOK'
  BY <1>4 DEF IInv, TypeOK, Busy, Connect, Goto
<1>5. ASSUME NEW c \in Clients, ConnectThrows(c) PROVE TypeOK'
  BY <1>5, AnyDaemonType DEF IInv, TypeOK, Busy, ConnectThrows, ReturnFrom, Goto
<1>6. ASSUME NEW c \in Clients, Store(c) PROVE TypeOK'
  BY <1>6, AnyDaemonType DEF IInv, TypeOK, Busy, Store, ReturnFrom, Goto, busVars
<1>7. ASSUME NEW c \in Clients, Close(c) PROVE TypeOK'
  BY <1>7, AnyDaemonType, FactoryAssumption
  DEF IInv, TypeOK, Busy, Close, Goto, clientVars, busVars
<1>8. ASSUME NEW c \in Clients, Release(c) PROVE TypeOK'
  BY <1>8 DEF IInv, TypeOK, Busy, Release, Goto
<1>9. ASSUME NEW b \in Buses, Unpin(b) PROVE TypeOK'
  BY <1>9, AnyDaemonType, FactoryAssumption
  DEF IInv, TypeOK, Busy, Unpin, clientVars, busVars
<1>10. ASSUME NEW b \in Buses, ReceiverEnds(b) PROVE TypeOK'
  BY <1>10 DEF IInv, TypeOK, ReceiverEnds, clientVars
<1>11. ASSUME NEW b \in Buses, Pin(b) PROVE TypeOK'
  BY <1>11, AnyDaemonType, FactoryAssumption
  DEF IInv, TypeOK, Busy, Pin, clientVars, busVars
<1>12. ASSUME NEW b \in Buses, ReceiverFails(b) PROVE TypeOK'
  BY <1>12 DEF IInv, TypeOK, ReceiverFails, clientVars
<1>13. ASSUME NEW d \in Daemons, DaemonStops(d) PROVE TypeOK'
  BY <1>13 DEF IInv, TypeOK, DaemonStops, clientVars, busVars
<1>14. ASSUME NEW d \in Daemons, DaemonStarts(d) PROVE TypeOK'
  BY <1>14 DEF IInv, TypeOK, DaemonStarts, clientVars, busVars
<1>15. CASE UNCHANGED vars
  BY <1>15 DEF IInv, TypeOK, Busy, vars, clientVars, busVars
<1> QED
  BY <1>1, <1>2, <1>3, <1>4, <1>5, <1>6, <1>7, <1>8, <1>9, <1>10, <1>11, <1>12,
     <1>13, <1>14, <1>15
  DEF Next, ClientStep, ReceiverStep

\* Nobody is inside without the lock.
LEMMA LockStep == IInv /\ [Next]_vars => LockIsHeld'
<1> SUFFICES ASSUME IInv, [Next]_vars PROVE LockIsHeld'
  OBVIOUS
<1>1. ASSUME NEW c \in Clients, NEW d \in Daemons, Request(c, d) PROVE LockIsHeld'
  BY <1>1 DEF IInv, LockIsHeld, Inside, Request, Goto
<1>2. ASSUME NEW c \in Clients, Share(c) PROVE LockIsHeld'
  BY <1>2 DEF IInv, LockIsHeld, Inside, Share, ReturnFrom, Goto
<1>3. ASSUME NEW c \in Clients, Create(c) PROVE LockIsHeld'
  BY <1>3, FactoryAssumption DEF IInv, LockIsHeld, Inside, TypeOK, Create, Goto
<1>4. ASSUME NEW c \in Clients, Connect(c) PROVE LockIsHeld'
  BY <1>4 DEF IInv, LockIsHeld, Inside, Connect, Goto
<1>5. ASSUME NEW c \in Clients, ConnectThrows(c) PROVE LockIsHeld'
  BY <1>5, FactoryAssumption
  DEF IInv, LockIsHeld, Inside, TypeOK, ConnectThrows, ReturnFrom, Goto
<1>6. ASSUME NEW c \in Clients, Store(c) PROVE LockIsHeld'
  BY <1>6, FactoryAssumption DEF IInv, LockIsHeld, Inside, TypeOK, Store, ReturnFrom, Goto
<1>7. ASSUME NEW c \in Clients, Close(c) PROVE LockIsHeld'
  BY <1>7, FactoryAssumption
  DEF IInv, LockIsHeld, Inside, TypeOK, Close, Goto, clientVars, busVars
<1>8. ASSUME NEW c \in Clients, Release(c) PROVE LockIsHeld'
  BY <1>8 DEF IInv, LockIsHeld, Inside, TypeOK, Release, Goto
<1>9. ASSUME NEW b \in Buses, Unpin(b) PROVE LockIsHeld'
  BY <1>9, FactoryAssumption
  DEF IInv, LockIsHeld, Inside, TypeOK, Unpin, clientVars, busVars
<1>10. ASSUME NEW b \in Buses, ReceiverEnds(b) PROVE LockIsHeld'
  BY <1>10 DEF IInv, LockIsHeld, Inside, ReceiverEnds, clientVars
<1>11. ASSUME NEW b \in Buses, Pin(b) PROVE LockIsHeld'
  BY <1>11, FactoryAssumption
  DEF IInv, LockIsHeld, Inside, TypeOK, Pin, clientVars, busVars
<1>12. ASSUME NEW b \in Buses, ReceiverFails(b) PROVE LockIsHeld'
  BY <1>12 DEF IInv, LockIsHeld, Inside, ReceiverFails, clientVars
<1>13. ASSUME NEW d \in Daemons, DaemonStops(d) PROVE LockIsHeld'
  BY <1>13, FactoryAssumption
  DEF IInv, LockIsHeld, Inside, TypeOK, DaemonStops, clientVars, busVars
<1>14. ASSUME NEW d \in Daemons, DaemonStarts(d) PROVE LockIsHeld'
  BY <1>14 DEF IInv, LockIsHeld, Inside, DaemonStarts, clientVars
<1>15. CASE UNCHANGED vars
  BY <1>15 DEF IInv, LockIsHeld, Inside, TypeOK, vars, clientVars, busVars
<1> QED
  BY <1>1, <1>2, <1>3, <1>4, <1>5, <1>6, <1>7, <1>8, <1>9, <1>10, <1>11, <1>12,
     <1>13, <1>14, <1>15
  DEF Next, ClientStep, ReceiverStep

\* Numbers go up.
LEMMA NumberStep == IInv /\ [Next]_vars => Numbering'
<1> SUFFICES ASSUME IInv, [Next]_vars PROVE Numbering'
  OBVIOUS
<1>1. ASSUME NEW c \in Clients, NEW d \in Daemons, Request(c, d) PROVE Numbering'
  BY <1>1 DEF IInv, Numbering, Busy, Request, Goto, busVars
<1>2. ASSUME NEW c \in Clients, Share(c) PROVE Numbering'
  BY <1>2 DEF IInv, Numbering, TypeOK, Buses, Share, Alive, ReturnFrom, Goto
<1>3. ASSUME NEW c \in Clients, Create(c) PROVE Numbering'
  BY <1>3 DEF IInv, Numbering, TypeOK, Buses, Create, Goto
<1>4. ASSUME NEW c \in Clients, Connect(c) PROVE Numbering'
  BY <1>4 DEF IInv, Numbering, TypeOK, Buses, Connect, Goto
<1>5. ASSUME NEW c \in Clients, ConnectThrows(c) PROVE Numbering'
  <2>1. mine[c] \in Buses /\ mine[c] <= created
    BY <1>5 DEF IInv, Numbering, TypeOK, Busy, ConnectThrows
  <2>2. \A b \in Buses : b > created => b # mine[c]
    BY <2>1 DEF IInv, TypeOK, Buses
  <2> QED
    BY <1>5, <2>2 DEF IInv, Numbering, TypeOK, Busy, ConnectThrows, ReturnFrom, Goto
<1>6. ASSUME NEW c \in Clients, Store(c) PROVE Numbering'
  BY <1>6 DEF IInv, Numbering, Busy, Store, ReturnFrom, Goto, busVars
<1>7. ASSUME NEW c \in Clients, Close(c) PROVE Numbering'
  BY <1>7 DEF IInv, Numbering, TypeOK, Busy, Close, Goto
<1>8. ASSUME NEW c \in Clients, Release(c) PROVE Numbering'
  BY <1>8, FactoryAssumption
  DEF IInv, Numbering, TypeOK, Busy, Buses, Release, Goto, clientVars, busVars
<1>9. ASSUME NEW b \in Buses, Unpin(b) PROVE Numbering'
  BY <1>9, FactoryAssumption
  DEF IInv, Numbering, TypeOK, Busy, Buses, Unpin, clientVars, busVars
<1>10. ASSUME NEW b \in Buses, ReceiverEnds(b) PROVE Numbering'
  BY <1>10 DEF IInv, Numbering, ReceiverEnds, clientVars
<1>11. ASSUME NEW b \in Buses, Pin(b) PROVE Numbering'
  BY <1>11, FactoryAssumption
  DEF IInv, Numbering, TypeOK, Busy, Buses, Pin, clientVars, busVars
<1>12. ASSUME NEW b \in Buses, ReceiverFails(b) PROVE Numbering'
  BY <1>12 DEF IInv, Numbering, ReceiverFails, clientVars
<1>13. ASSUME NEW d \in Daemons, DaemonStops(d) PROVE Numbering'
  BY <1>13 DEF IInv, Numbering, DaemonStops, clientVars, busVars
<1>14. ASSUME NEW d \in Daemons, DaemonStarts(d) PROVE Numbering'
  BY <1>14 DEF IInv, Numbering, DaemonStarts, clientVars, busVars
<1>15. CASE UNCHANGED vars
  BY <1>15 DEF IInv, Numbering, TypeOK, Busy, Buses, vars, clientVars, busVars
<1> QED
  BY <1>1, <1>2, <1>3, <1>4, <1>5, <1>6, <1>7, <1>8, <1>9, <1>10, <1>11, <1>12,
     <1>13, <1>14, <1>15
  DEF Next, ClientStep, ReceiverStep

\* References are taken and dropped with pc and receiver.
LEMMA ReferenceStep == IInv /\ [Next]_vars => References'
<1> SUFFICES ASSUME IInv, [Next]_vars PROVE References'
  OBVIOUS
<1>1. ASSUME NEW c \in Clients, NEW d \in Daemons, Request(c, d) PROVE References'
  BY <1>1 DEF IInv, References, Inside, Request, Goto, busVars
<1>2. ASSUME NEW c \in Clients, Share(c) PROVE References'
  BY <1>2, FactoryAssumption
  DEF IInv, References, TypeOK, Inside, Busy, Share, ReturnFrom, Goto
<1>3. ASSUME NEW c \in Clients, Create(c) PROVE References'
  <2> PICK new \in Buses : Creation(c, new)
    BY <1>3, CreateEffect DEF IInv
  <2>1. refs[new] = {} /\ receiver[new] # "dispatching"
    BY DEF IInv, Numbering, Creation
  <2>2. \A x \in Clients : pc[x] \in Busy => mine[x] # new
    BY DEF IInv, Numbering, TypeOK, Buses, Creation
  <2>3. ASSUME NEW b \in Buses, NEW x \in Clients
        PROVE  x \in refs'[b] <=> (Inside(x)' \/ pc'[x] = "using") /\ mine'[x] = b
    <3>1. x \in refs[b] <=> (Inside(x) \/ pc[x] = "using") /\ mine[x] = b
      BY DEF IInv, References
    <3>2. CASE x = c
      BY <2>1, <3>1, <3>2 DEF Creation, Inside, IInv, TypeOK
    <3>3. CASE x # c
      BY <2>1, <2>2, <3>1, <3>3 DEF Creation, Inside, Busy, IInv, TypeOK
    <3> QED
      BY <3>2, <3>3
  <2>4. ASSUME NEW b \in Buses
        PROVE  Receiver \in refs'[b] <=> receiver'[b] = "dispatching"
    BY <2>1, FactoryAssumption DEF Creation, IInv, References, TypeOK
  <2> QED
    BY <2>3, <2>4 DEF References, Inside
<1>4. ASSUME NEW c \in Clients, Connect(c) PROVE References'
  BY <1>4 DEF IInv, References, NewBus, Inside, Connect, Goto
<1>5. ASSUME NEW c \in Clients, ConnectThrows(c) PROVE References'
  BY <1>5 DEF IInv, References, NewBus, TypeOK, Inside, ConnectThrows, ReturnFrom, Goto
<1>6. ASSUME NEW c \in Clients, Store(c) PROVE References'
  BY <1>6 DEF IInv, References, Inside, Store, ReturnFrom, Goto, busVars
<1>7. ASSUME NEW c \in Clients, Close(c) PROVE References'
  BY <1>7 DEF IInv, References, Inside, Close, Goto
<1>8. ASSUME NEW c \in Clients, Release(c) PROVE References'
  BY <1>8, FactoryAssumption DEF IInv, References, TypeOK, Inside, Release, Goto
<1>9. ASSUME NEW b \in Buses, Unpin(b) PROVE References'
  BY <1>9, FactoryAssumption DEF IInv, References, TypeOK, Inside, Unpin, clientVars
<1>10. ASSUME NEW b \in Buses, ReceiverEnds(b) PROVE References'
  BY <1>10 DEF IInv, References, Inside, ReceiverEnds, clientVars
<1>11. ASSUME NEW b \in Buses, Pin(b) PROVE References'
  BY <1>11, FactoryAssumption DEF IInv, References, TypeOK, Inside, Pin, clientVars
<1>12. ASSUME NEW b \in Buses, ReceiverFails(b) PROVE References'
  BY <1>12 DEF IInv, References, Inside, ReceiverFails, clientVars
<1>13. ASSUME NEW d \in Daemons, DaemonStops(d) PROVE References'
  BY <1>13 DEF IInv, References, Inside, DaemonStops, clientVars, busVars
<1>14. ASSUME NEW d \in Daemons, DaemonStarts(d) PROVE References'
  BY <1>14 DEF IInv, References, Inside, DaemonStarts, clientVars, busVars
<1>15. CASE UNCHANGED vars
  BY <1>15 DEF IInv, References, Inside, vars, clientVars, busVars
<1> QED
  BY <1>1, <1>2, <1>3, <1>4, <1>5, <1>6, <1>7, <1>8, <1>9, <1>10, <1>11, <1>12,
     <1>13, <1>14, <1>15
  DEF Next, ClientStep, ReceiverStep

\* A new bus stays its creator's.
LEMMA NewBusStep == IInv /\ [Next]_vars => NewBus'
<1> SUFFICES ASSUME IInv, [Next]_vars PROVE NewBus'
  OBVIOUS
<1>1. ASSUME NEW c \in Clients, NEW d \in Daemons, Request(c, d) PROVE NewBus'
  BY <1>1 DEF IInv, NewBus, Inside, Request, Goto, busVars
<1>2. ASSUME NEW c \in Clients, Share(c) PROVE NewBus'
  BY <1>2, FactoryAssumption DEF IInv, NewBus, LockIsHeld, Inside, Share, ReturnFrom, Goto
<1>3. ASSUME NEW c \in Clients, Create(c) PROVE NewBus'
  <2> PICK new \in Buses : Creation(c, new)
    BY <1>3, CreateEffect DEF IInv
  <2>1. new \notin sessions /\ receiver[new] = "none"
    BY DEF IInv, Numbering, Creation
  <2>2. \A x \in Clients : Inside(x)' => x = c
    BY FactoryAssumption DEF Creation, IInv, LockIsHeld, Inside, TypeOK
  <2> QED
    BY <2>1, <2>2 DEF Creation, NewBus, Inside, IInv, TypeOK
<1>4. ASSUME NEW c \in Clients, Connect(c) PROVE NewBus'
  BY <1>4 DEF IInv, NewBus, LockIsHeld, TypeOK, Inside, Busy, Connect, Goto
<1>5. ASSUME NEW c \in Clients, ConnectThrows(c) PROVE NewBus'
  BY <1>5 DEF IInv, NewBus, LockIsHeld, TypeOK, Inside, ConnectThrows, ReturnFrom, Goto
<1>6. ASSUME NEW c \in Clients, Store(c) PROVE NewBus'
  BY <1>6 DEF IInv, NewBus, LockIsHeld, TypeOK, Inside, Store, ReturnFrom, Goto
<1>7. ASSUME NEW c \in Clients, Close(c) PROVE NewBus'
  BY <1>7 DEF IInv, States, NewBus, TypeOK, Inside, Close, Goto
<1>8. ASSUME NEW c \in Clients, Release(c) PROVE NewBus'
  BY <1>8 DEF IInv, NewBus, References, TypeOK, Inside, Release, Goto
<1>9. ASSUME NEW b \in Buses, Unpin(b) PROVE NewBus'
  BY <1>9, FactoryAssumption DEF IInv, NewBus, References, Inside, Unpin, clientVars
<1>10. ASSUME NEW b \in Buses, ReceiverEnds(b) PROVE NewBus'
  BY <1>10 DEF IInv, NewBus, Inside, ReceiverEnds, clientVars
<1>11. ASSUME NEW b \in Buses, Pin(b) PROVE NewBus'
  BY <1>11 DEF IInv, NewBus, Inside, Pin, clientVars
<1>12. ASSUME NEW b \in Buses, ReceiverFails(b) PROVE NewBus'
  BY <1>12 DEF IInv, NewBus, Inside, ReceiverFails, clientVars
<1>13. ASSUME NEW d \in Daemons, DaemonStops(d) PROVE NewBus'
  BY <1>13 DEF IInv, NewBus, Inside, DaemonStops, clientVars, busVars
<1>14. ASSUME NEW d \in Daemons, DaemonStarts(d) PROVE NewBus'
  BY <1>14 DEF IInv, NewBus, Inside, DaemonStarts, clientVars, busVars
<1>15. CASE UNCHANGED vars
  BY <1>15 DEF IInv, NewBus, Inside, vars, clientVars, busVars
<1> QED
  BY <1>1, <1>2, <1>3, <1>4, <1>5, <1>6, <1>7, <1>8, <1>9, <1>10, <1>11, <1>12,
     <1>13, <1>14, <1>15
  DEF Next, ClientStep, ReceiverStep

\* The map follows the buses.
LEMMA MapStep == IInv /\ [Next]_vars => MapIsRight'
<1> SUFFICES ASSUME IInv, [Next]_vars PROVE MapIsRight'
  OBVIOUS
<1>1. ASSUME NEW c \in Clients, NEW d \in Daemons, Request(c, d) PROVE MapIsRight'
  BY <1>1 DEF IInv, MapIsRight, Live, Inside, Request, Goto, busVars
<1>2. ASSUME NEW c \in Clients, Share(c) PROVE MapIsRight'
  <2>1. /\ UNCHANGED <<buses, daemonOf, created>>
        /\ refs' = [refs EXCEPT ![buses[wanted[c]]] = @ \cup {c}]
        /\ Alive(buses[wanted[c]])
    BY <1>2 DEF Share
  <2>2. \A x \in Clients : Inside(x) => Inside(x)' /\ mine'[x] = mine[x]
    BY <1>2 DEF Share, ReturnFrom, Goto, Inside, IInv, TypeOK
  <2>3. \A b \in Buses : Live(b)' => Live(b)
    BY <2>1 DEF Live, Alive, IInv, TypeOK
  <2> QED
    BY <2>1, <2>2, <2>3 DEF IInv, MapIsRight
<1>3. ASSUME NEW c \in Clients, Create(c) PROVE MapIsRight'
  <2> PICK new \in Buses : Creation(c, new)
    BY <1>3, CreateEffect DEF IInv
  <2>1. ~Alive(buses[wanted[c]])
    BY <1>3 DEF Create
  <2>2. \A x \in Clients : ~Inside(x)
    BY FactoryAssumption DEF Creation, IInv, LockIsHeld
  <2>3. Inside(c)' /\ mine'[c] = new
    BY DEF Creation, Inside, IInv, TypeOK
  <2>4. ASSUME NEW d \in Daemons, buses'[d] # NoBus
        PROVE  daemonOf'[buses'[d]] = d /\ buses'[d] <= created'
    <3>1. d # wanted[c] /\ buses'[d] = buses[d]
      BY <2>4 DEF Creation, IInv, TypeOK
    <3>2. /\ buses[d] \in Buses /\ daemonOf[buses[d]] = d /\ buses[d] <= created
      BY <2>4, <3>1 DEF IInv, TypeOK, MapIsRight
    <3> QED
      BY <3>1, <3>2 DEF Creation, IInv, TypeOK, Buses
  <2>5. ASSUME NEW b \in Buses, b # new, Live(b)'
        PROVE  buses'[daemonOf'[b]] = b
    <3>1. Live(b) /\ daemonOf'[b] = daemonOf[b]
      BY <2>5 DEF Creation, Live, IInv, TypeOK
    <3>2. buses[daemonOf[b]] = b
      BY <2>2, <3>1 DEF IInv, MapIsRight
    <3>3. daemonOf[b] # wanted[c]
      BY <2>1, <3>1, <3>2, FactoryAssumption DEF Alive, Live
    <3> QED
      BY <3>1, <3>2, <3>3 DEF Creation, IInv, TypeOK
  <2> QED
    BY <2>3, <2>4, <2>5 DEF MapIsRight
<1>4. ASSUME NEW c \in Clients, Connect(c) PROVE MapIsRight'
  <2>1. \A x \in Clients : Inside(x) => Inside(x)' /\ mine'[x] = mine[x]
    BY <1>4 DEF Connect, Goto, Inside, IInv, TypeOK, Busy
  <2>2. UNCHANGED <<buses, daemonOf, refs, created>>
    BY <1>4 DEF Connect
  <2> QED
    BY <2>1, <2>2 DEF IInv, MapIsRight, Live
<1>5. ASSUME NEW c \in Clients, ConnectThrows(c) PROVE MapIsRight'
  <2>1. UNCHANGED <<buses, daemonOf, created>> /\ refs' = [refs EXCEPT ![mine[c]] = {}]
    BY <1>5 DEF ConnectThrows
  <2>2. Inside(c) /\ \A x \in Clients : Inside(x) => x = c
    BY <1>5, FactoryAssumption DEF ConnectThrows, IInv, LockIsHeld, Inside, TypeOK
  <2>3. ASSUME NEW b \in Buses, Live(b)' PROVE buses[daemonOf[b]] = b
    <3>1. b # mine[c] /\ Live(b)
      BY <2>1, <2>3 DEF Live, IInv, TypeOK
    <3> QED
      BY <2>2, <3>1 DEF IInv, MapIsRight
  <2> QED
    BY <2>1, <2>3 DEF IInv, MapIsRight
<1>6. ASSUME NEW c \in Clients, Store(c) PROVE MapIsRight'
  <2> DEFINE new == mine[c]
  <2>1. /\ UNCHANGED <<daemonOf, refs, created>>
        /\ buses' = [buses EXCEPT ![wanted[c]] = new]
    BY <1>6 DEF Store, busVars
  <2>2. Inside(c) /\ \A x \in Clients : Inside(x) => x = c
    BY <1>6, FactoryAssumption DEF Store, IInv, LockIsHeld, Inside
  <2>3. /\ new \in Buses /\ new <= created
        /\ wanted[c] \in Daemons /\ daemonOf[new] = wanted[c] /\ buses[wanted[c]] = NoBus
    BY <1>6, <2>2 DEF Store, IInv, TypeOK, Busy, Numbering, NewBus
  <2>4. \A d \in Daemons : buses'[d] # NoBus =>
          daemonOf'[buses'[d]] = d /\ buses'[d] <= created'
    BY <2>1, <2>3 DEF IInv, TypeOK, MapIsRight
  <2>5. ASSUME NEW b \in Buses, Live(b)' PROVE buses'[daemonOf'[b]] = b
    <3>1. Live(b)
      BY <2>1, <2>5 DEF Live
    <3>2. CASE b = new
      BY <2>1, <2>3, <3>2 DEF IInv, TypeOK
    <3>3. CASE b # new
      <4>1. buses[daemonOf[b]] = b /\ b # NoBus
        BY <2>2, <3>1, <3>3, FactoryAssumption DEF IInv, MapIsRight
      <4> QED
        BY <2>1, <2>3, <4>1 DEF IInv, TypeOK
    <3> QED
      BY <3>2, <3>3
  <2> QED
    BY <2>4, <2>5 DEF MapIsRight
<1>7. ASSUME NEW c \in Clients, Close(c) PROVE MapIsRight'
  BY <1>7 DEF IInv, MapIsRight, Live, Inside, Close, Goto
<1>8. ASSUME NEW c \in Clients, Release(c) PROVE MapIsRight'
  BY <1>8
  DEF IInv, MapIsRight, Live, NewBus, Numbering, LockIsHeld, TypeOK, Inside, Busy,
      Release, Goto
<1>9. ASSUME NEW b \in Buses, Unpin(b) PROVE MapIsRight'
  BY <1>9 DEF IInv, MapIsRight, Live, Inside, Unpin, clientVars
<1>10. ASSUME NEW b \in Buses, ReceiverEnds(b) PROVE MapIsRight'
  BY <1>10 DEF IInv, MapIsRight, Live, Inside, ReceiverEnds, clientVars
<1>11. ASSUME NEW b \in Buses, Pin(b) PROVE MapIsRight'
  <2>1. /\ UNCHANGED <<buses, daemonOf, created, pc, mine>>
        /\ \A x \in Buses : Live(x)' => Live(x)
    BY <1>11 DEF Pin, clientVars, Live, IInv, TypeOK
  <2> QED
    BY <2>1 DEF IInv, MapIsRight, Inside
<1>12. ASSUME NEW b \in Buses, ReceiverFails(b) PROVE MapIsRight'
  BY <1>12 DEF IInv, MapIsRight, Live, Inside, ReceiverFails, clientVars
<1>13. ASSUME NEW d \in Daemons, DaemonStops(d) PROVE MapIsRight'
  <2>1. UNCHANGED <<buses, pc, mine, created, daemonOf, refs>>
    BY <1>13 DEF DaemonStops, clientVars, busVars
  <2> QED
    BY <2>1 DEF IInv, MapIsRight, Live, Inside
<1>14. ASSUME NEW d \in Daemons, DaemonStarts(d) PROVE MapIsRight'
  BY <1>14 DEF IInv, MapIsRight, Live, Inside, DaemonStarts, clientVars, busVars
<1>15. CASE UNCHANGED vars
  BY <1>15 DEF IInv, MapIsRight, Live, Inside, vars, clientVars, busVars
<1> QED
  BY <1>1, <1>2, <1>3, <1>4, <1>5, <1>6, <1>7, <1>8, <1>9, <1>10, <1>11, <1>12,
     <1>13, <1>14, <1>15
  DEF Next, ClientStep, ReceiverStep

\* States follow the references.
LEMMA StateStep == IInv /\ [Next]_vars => States'
<1> SUFFICES ASSUME IInv, [Next]_vars PROVE States'
  OBVIOUS
<1>1. ASSUME NEW c \in Clients, NEW d \in Daemons, Request(c, d) PROVE States'
  BY <1>1 DEF IInv, States, Closing, Live, Request, Goto, busVars
<1>2. ASSUME NEW c \in Clients, Share(c) PROVE States'
  BY <1>2 DEF IInv, States, Closing, Live, Share, Alive, ReturnFrom, Goto
<1>3. ASSUME NEW c \in Clients, Create(c) PROVE States'
  BY <1>3 DEF IInv, States, Closing, Live, Numbering, TypeOK, Create, Goto
<1>4. ASSUME NEW c \in Clients, Connect(c) PROVE States'
  <2>1. /\ mine[c] \in Buses /\ c \in refs[mine[c]] /\ state[mine[c]] = "created"
        /\ \A x \in Clients : Inside(x) => x = c
    BY <1>4 DEF Connect, IInv, TypeOK, Busy, References, NewBus, LockIsHeld, Inside
  <2>2. \A b \in Buses \ {mine[c]} : state'[b] = state[b] /\ receiver'[b] = receiver[b]
    BY <1>4 DEF Connect, IInv, TypeOK
  <2>3. \A x \in Clients \ {c} : pc'[x] = pc[x] /\ mine'[x] = mine[x]
    BY <1>4 DEF Connect, Goto, IInv, TypeOK
  <2> QED
    BY <1>4, <2>1, <2>2, <2>3
    DEF IInv, States, Closing, Live, TypeOK, Inside, Connect, Goto
<1>5. ASSUME NEW c \in Clients, ConnectThrows(c) PROVE States'
  BY <1>5
  DEF IInv, States, Closing, Live, NewBus, TypeOK, Inside, ConnectThrows,
      ReturnFrom, Goto
<1>6. ASSUME NEW c \in Clients, Store(c) PROVE States'
  BY <1>6 DEF IInv, States, Closing, Live, Store, ReturnFrom, Goto, busVars
<1>7. ASSUME NEW c \in Clients, Close(c) PROVE States'
  BY <1>7 DEF IInv, States, Closing, Live, TypeOK, Close, Goto
<1>8. ASSUME NEW c \in Clients, Release(c) PROVE States'
  <2> DEFINE b == mine[c]
  <2>1. /\ pc[c] = "using" /\ b \in Buses /\ c \in refs[b] /\ state[b] = "active"
        /\ \A x \in Clients : Inside(x) => mine[x] # b
    BY <1>8, FactoryAssumption
    DEF Release, IInv, TypeOK, References, States, Live, NewBus, Inside
  <2>2. UNCHANGED <<receiver, sessions>> /\ refs' = [refs EXCEPT ![b] = @ \ {c}]
    BY <1>8 DEF Release
  <2>3. \A x \in Clients : x # c => pc'[x] = pc[x] /\ mine'[x] = mine[x]
    BY <1>8 DEF Release, Goto, IInv, TypeOK
  <2>4. CASE refs[b] = {c}
    <3>1. /\ pc'[c] = "closing" /\ mine'[c] = b
          /\ state' = [state EXCEPT ![b] = "closing"] /\ refs'[b] = {}
      BY <1>8, <2>2, <2>4 DEF Release, Goto, IInv, TypeOK
    <3> QED
      BY <2>1, <2>2, <2>3, <3>1 DEF States, Closing, Live, Inside, IInv, TypeOK
  <2>5. CASE refs[b] # {c}
    <3>1. /\ pc'[c] = "idle" /\ state' = state /\ refs'[b] # {}
      BY <1>8, <2>1, <2>2, <2>5 DEF Release, Goto, IInv, TypeOK
    <3> QED
      BY <2>1, <2>2, <2>3, <3>1 DEF States, Closing, Live, Inside, IInv, TypeOK
  <2> QED
    BY <2>4, <2>5
<1>9. ASSUME NEW b \in Buses, Unpin(b) PROVE States'
  BY <1>9 DEF IInv, States, Closing, Live, TypeOK, Unpin, clientVars
<1>10. ASSUME NEW b \in Buses, ReceiverEnds(b) PROVE States'
  BY <1>10 DEF IInv, States, Closing, Live, ReceiverEnds, clientVars
<1>11. ASSUME NEW b \in Buses, Pin(b) PROVE States'
  BY <1>11 DEF IInv, States, Closing, Live, Pin, clientVars
<1>12. ASSUME NEW b \in Buses, ReceiverFails(b) PROVE States'
  BY <1>12 DEF IInv, States, Closing, Live, ReceiverFails, clientVars
<1>13. ASSUME NEW d \in Daemons, DaemonStops(d) PROVE States'
  BY <1>13 DEF IInv, States, Closing, Live, DaemonStops, clientVars, busVars
<1>14. ASSUME NEW d \in Daemons, DaemonStarts(d) PROVE States'
  BY <1>14 DEF IInv, States, Closing, Live, DaemonStarts, clientVars, busVars
<1>15. CASE UNCHANGED vars
  BY <1>15 DEF IInv, States, Closing, Live, vars, clientVars, busVars
<1> QED
  BY <1>1, <1>2, <1>3, <1>4, <1>5, <1>6, <1>7, <1>8, <1>9, <1>10, <1>11, <1>12,
     <1>13, <1>14, <1>15
  DEF Next, ClientStep, ReceiverStep

---------------------------------------------------------------------------

\* The invariant holds at first.
LEMMA InitHolds == Init => IInv
BY FactoryAssumption, AnyDaemonType
DEF Init, IInv, TypeOK, Busy, LockIsHeld, Inside, Numbering, References, NewBus,
    MapIsRight, States, Closing, Live

\* The invariant holds always: one lemma for each of its parts.
LEMMA Invariance == Spec => []IInv
<1>1. IInv /\ [Next]_vars => IInv'
  BY TypeStep, LockStep, NumberStep, ReferenceStep, NewBusStep, MapStep, StateStep
  DEF IInv
<1> QED
  BY InitHolds, <1>1, PTL DEF Spec

\* The variables of the factory and its buses have their types; in particular
\* obtainBus never returns a null pointer.
THEOREM TypeCorrect == Spec => []TypeOK
<1>1. IInv => TypeOK
  BY DEF IInv
<1> QED
  BY <1>1, Invariance, PTL

\* obtainBus never leaves two live buses for one daemon.
THEOREM OneBus == Spec => []OneBusPerDaemon
<1>1. ASSUME IInv, NEW a \in Buses, NEW b \in Buses,
             Live(a), Live(b), daemonOf[a] = daemonOf[b]
      PROVE  a = b
  <2>1. daemonOf[a] \in Daemons /\ buses[daemonOf[a]] \in Buses \cup {NoBus}
    BY <1>1 DEF IInv, TypeOK
  <2>2. \A x, y \in Clients : Inside(x) /\ Inside(y) => x = y
    BY <1>1 DEF IInv, LockIsHeld
  <2>3. \A x \in Clients : Inside(x) => buses[daemonOf[mine[x]]] = NoBus
    BY <1>1 DEF IInv, NewBus
  <2> QED
    BY <1>1, <2>1, <2>2, <2>3, FactoryAssumption DEF IInv, MapIsRight
<1>2. IInv => OneBusPerDaemon
  BY <1>1 DEF OneBusPerDaemon
<1> QED
  BY <1>2, Invariance, PTL

\* Whoever has a connector has the active bus that the map knows.
THEOREM Sharing == Spec => []UsersShare
<1>1. ASSUME IInv, NEW c \in Clients, pc[c] = "using"
      PROVE  /\ state[mine[c]] = "active"
             /\ c \in refs[mine[c]]
             /\ buses[daemonOf[mine[c]]] = mine[c]
  <2>1. mine[c] \in Buses /\ c \in refs[mine[c]]
    BY <1>1 DEF IInv, TypeOK, Busy, References
  <2>2. \A x \in Clients : Inside(x) => mine[x] # mine[c]
    BY <1>1, <2>1, FactoryAssumption DEF IInv, NewBus, Inside
  <2> QED
    BY <1>1, <2>1, <2>2 DEF IInv, MapIsRight, States, Live, Inside
<1>2. IInv => UsersShare
  BY <1>1 DEF UsersShare
<1> QED
  BY <1>2, Invariance, PTL

\* Every session of the process has an owner or somebody who is closing it.
THEOREM Ownership == Spec => []SessionsAreOwned
<1>1. IInv => SessionsAreOwned
  BY DEF IInv, SessionsAreOwned, States, Closing, Live, TypeOK
<1> QED
  BY <1>1, Invariance, PTL

---------------------------------------------------------------------------
(* Every bus leads the life that Bus shows of one. *)

lifeOf(b) == <<state[b], refs[b], receiver[b]>>

\* A step of a client is a step in the life of its bus, and of no other.
LEMMA ClientLives ==
  ASSUME IInv, NEW c \in Clients, ClientStep(c) \/ Release(c), NEW b \in Buses
  PROVE  [Life(b)!Next]_(lifeOf(b))
<1>1. CASE Share(c)
  <2> DEFINE own == buses[wanted[c]]
  <2>1. /\ own \in Buses /\ refs[own] # {}
        /\ refs' = [refs EXCEPT ![own] = @ \cup {c}]
        /\ UNCHANGED <<state, receiver>>
    BY <1>1 DEF Share, Alive, IInv, TypeOK
  <2>2. state[own] = "active"
    <3>1. \A x \in Clients : ~Inside(x)
      BY <1>1, FactoryAssumption DEF Share, IInv, LockIsHeld
    <3> QED
      BY <2>1, <3>1 DEF IInv, States, Live, Inside
  <2>3. CASE b = own
    <3>1. Life(b)!Share(c)
      BY <2>1, <2>2, <2>3 DEF Life!Share, IInv, TypeOK
    <3> QED
      BY <3>1 DEF Life!Next
  <2>4. CASE b # own
    BY <2>1, <2>4 DEF lifeOf, IInv, TypeOK
  <2> QED
    BY <2>3, <2>4
<1>2. CASE Create(c)
  <2> PICK new \in Buses : Creation(c, new)
    BY <1>2, CreateEffect DEF IInv
  <2>1. state[new] = "none"
    BY DEF IInv, Numbering, Creation
  <2>2. CASE b = new
    <3>1. Life(b)!Create(c)
      BY <2>1, <2>2 DEF Life!Create, Creation, IInv, TypeOK
    <3> QED
      BY <3>1 DEF Life!Next
  <2>3. CASE b # new
    BY <2>3 DEF lifeOf, Creation, IInv, TypeOK
  <2> QED
    BY <2>2, <2>3
<1>3. CASE Connect(c)
  <2>1. CASE b = mine[c]
    <3>1. state[b] = "created"
      BY <1>3, <2>1 DEF Connect, IInv, NewBus, Inside
    <3>2. Life(b)!Activate
      BY <1>3, <2>1, <3>1 DEF Life!Activate, Connect, IInv, TypeOK
    <3> QED
      BY <3>2 DEF Life!Next
  <2>2. CASE b # mine[c]
    BY <1>3, <2>2 DEF lifeOf, Connect, IInv, TypeOK
  <2> QED
    BY <2>1, <2>2
<1>4. CASE ConnectThrows(c)
  <2>1. CASE b = mine[c]
    <3>1. state[b] = "created"
      BY <1>4, <2>1 DEF ConnectThrows, IInv, NewBus, Inside
    <3>2. Life(b)!ActivateThrows
      BY <1>4, <2>1, <3>1 DEF Life!ActivateThrows, ConnectThrows, IInv, TypeOK
    <3> QED
      BY <3>2 DEF Life!Next
  <2>2. CASE b # mine[c]
    BY <1>4, <2>2 DEF lifeOf, ConnectThrows, IInv, TypeOK
  <2> QED
    BY <2>1, <2>2
<1>5. CASE Store(c)
  BY <1>5 DEF lifeOf, Store, busVars
<1>6. CASE Close(c)
  <2>1. CASE b = mine[c]
    <3>1. Life(b)!Close
      BY <1>6, <2>1 DEF Life!Close, Close, IInv, TypeOK, States
    <3> QED
      BY <3>1 DEF Life!Next
  <2>2. CASE b # mine[c]
    BY <1>6, <2>2 DEF lifeOf, Close, IInv, TypeOK
  <2> QED
    BY <2>1, <2>2
<1>7. CASE Release(c)
  <2>1. CASE b = mine[c]
    <3>1. /\ pc[c] = "using" /\ c \in refs[b] /\ UNCHANGED receiver
          /\ refs'[b] = refs[b] \ {c}
          /\ state'[b] = IF refs[b] = {c} THEN "closing" ELSE state[b]
      BY <1>7, <2>1 DEF Release, IInv, TypeOK, References
    <3>2. state[b] = "active"
      <4>1. \A x \in Clients : Inside(x) => mine[x] # b
        BY <3>1, <2>1, FactoryAssumption DEF IInv, NewBus, Inside
      <4> QED
        BY <3>1, <4>1 DEF IInv, States, Live, Inside
    <3>3. Life(b)!Release(c)
      BY <3>1, <3>2 DEF Life!Release, Life!LetGo
    <3> QED
      BY <3>3 DEF Life!Next
  <2>2. CASE b # mine[c]
    BY <1>7, <2>2 DEF lifeOf, Release, IInv, TypeOK
  <2> QED
    BY <2>1, <2>2
<1> QED
  BY <1>1, <1>2, <1>3, <1>4, <1>5, <1>6, <1>7 DEF ClientStep

\* Likewise a step of a receiver.
LEMMA ReceiverLives ==
  ASSUME IInv, NEW a \in Buses, ReceiverStep(a) \/ Pin(a) \/ ReceiverFails(a),
         NEW b \in Buses
  PROVE  [Life(b)!Next]_(lifeOf(b))
<1>1. CASE b # a
  BY <1>1 DEF ReceiverStep, Unpin, ReceiverEnds, Pin, ReceiverFails, lifeOf, IInv, TypeOK
<1>2. CASE b = a /\ Unpin(a)
  <2>1. Receiver \in refs[b]
    BY <1>2 DEF Unpin, IInv, References
  <2>2. Life(b)!Unpin
    BY <1>2, <2>1 DEF Unpin, Life!Unpin, Life!LetGo, IInv, TypeOK
  <2> QED
    BY <2>2 DEF Life!Next
<1>3. CASE b = a /\ Pin(a)
  <2>1. Life(b)!Pin
    BY <1>3 DEF Pin, Life!Pin, IInv, TypeOK
  <2> QED
    BY <2>1 DEF Life!Next
<1>4. CASE b = a /\ (ReceiverEnds(a) \/ ReceiverFails(a))
  <2>1. Life(b)!ReceiverEnds
    BY <1>4 DEF ReceiverEnds, ReceiverFails, Life!ReceiverEnds, IInv, TypeOK
  <2> QED
    BY <2>1 DEF Life!Next
<1> QED
  BY <1>1, <1>2, <1>3, <1>4 DEF ReceiverStep

\* What no client and no receiver does leaves every bus alone.
LEMMA LifeStep ==
  ASSUME IInv, [Next]_vars, NEW b \in Buses
  PROVE  [Life(b)!Next]_<<state[b], refs[b], receiver[b]>>
<1>1. ASSUME NEW c \in Clients, NEW d \in Daemons, Request(c, d)
      PROVE  [Life(b)!Next]_(lifeOf(b))
  BY <1>1 DEF Request, busVars, lifeOf
<1>2. ASSUME NEW d \in Daemons, DaemonStops(d) \/ DaemonStarts(d)
      PROVE  [Life(b)!Next]_(lifeOf(b))
  BY <1>2 DEF DaemonStops, DaemonStarts, busVars, lifeOf
<1>3. ASSUME UNCHANGED vars PROVE [Life(b)!Next]_(lifeOf(b))
  BY <1>3 DEF vars, busVars, lifeOf
<1>4. ASSUME NEW c \in Clients, ClientStep(c) \/ Release(c)
      PROVE  [Life(b)!Next]_(lifeOf(b))
  BY <1>4, ClientLives
<1>5. ASSUME NEW a \in Buses, ReceiverStep(a) \/ Pin(a) \/ ReceiverFails(a)
      PROVE  [Life(b)!Next]_(lifeOf(b))
  BY <1>5, ReceiverLives
<1>6. [Life(b)!Next]_(lifeOf(b))
  BY <1>1, <1>2, <1>3, <1>4, <1>5 DEF Next
<1> QED
  BY <1>6 DEF lifeOf

\* Buses are created, shared and given up by any clients in any order, and yet
\* each of them leads the life of BusLife.
THEOREM Implements == Spec => ImplementsBusLife
<1>1. Init => \A b \in Buses : Life(b)!Init
  BY DEF Init, Life!Init
<1>2. IInv /\ [Next]_vars =>
        \A b \in Buses : [Life(b)!Next]_<<state[b], refs[b], receiver[b]>>
  BY LifeStep
<1> QED
  BY <1>1, <1>2, Invariance, PTL DEF Spec, ImplementsBusLife

\* OwnedOrOver of every bus, with the receiver's reference and what holds
\* before there is a receiver.
Owned ==
  \A b \in Buses :
    /\ Life(b)!OwnedOrOver
    /\ Receiver \in refs[b] <=> receiver[b] = "dispatching"
    /\ state[b] \in {"none", "created"} => receiver[b] = "none"

\* The life keeps it.
LEMMA OwnedAlways == Spec => []Owned
<1>1. Init => Owned
  BY DEF Init, Owned, Life!OwnedOrOver
<1>2. ASSUME IInv, Owned, [Next]_vars, NEW b \in Buses
      PROVE  /\ Life(b)!OwnedOrOver'
             /\ Receiver \in refs'[b] <=> receiver'[b] = "dispatching"
             /\ state'[b] \in {"none", "created"} => receiver'[b] = "none"
  <2> USE FactoryAssumption DEF Owned, Life!OwnedOrOver
  <2>1. CASE Life(b)!Next
    BY <1>2, <2>1
    DEF Life!Next, Life!Create, Life!Share, Life!Release, Life!LetGo, Life!Activate,
        Life!ActivateThrows, Life!Pin, Life!Unpin, Life!ReceiverEnds, Life!Close
  <2>2. CASE UNCHANGED <<state[b], refs[b], receiver[b]>>
    BY <1>2, <2>2
  <2> QED
    BY <1>2, <2>1, <2>2, LifeStep
<1>3. IInv /\ Owned /\ [Next]_vars => Owned'
  BY <1>2 DEF Owned
<1> QED
  BY <1>1, <1>3, Invariance, PTL DEF Spec

\* A bus that is closed has no receiver that still runs, and a bus that any
\* client can reach is not being closed.
THEOREM OverIsOver == Spec => [](\A b \in Buses : Life(b)!OwnedOrOver)
<1>1. Owned => \A b \in Buses : Life(b)!OwnedOrOver
  BY DEF Owned
<1> QED
  BY <1>1, OwnedAlways, PTL

\* A client in ~BusImpl waits for a receiver that is done, or has only to see
\* that it is cancelled.
ClosersAreServed ==
  \A c \in Clients : pc[c] = "closing" => receiver[mine[c]] \in {"running", "stopped"}

\* A client is closing a bus since it has released it.
LEMMA SinceRelease ==
  ASSUME IInv, [Next]_vars, NEW c \in Clients, pc'[c] = "closing"
  PROVE  Release(c) \/ (pc[c] = "closing" /\ mine'[c] = mine[c])
<1>1. ASSUME NEW x \in Clients, x # c,
             (\E d \in Daemons : Request(x, d)) \/ ClientStep(x) \/ Release(x)
      PROVE  pc'[c] = pc[c] /\ mine'[c] = mine[c]
  BY <1>1
  DEF ClientStep, Request, Share, Create, Connect, ConnectThrows, Store, Close,
      Release, ReturnFrom, Goto, IInv, TypeOK
<1>2. ASSUME NEW x \in Clients, x = c,
             (\E d \in Daemons : Request(x, d)) \/ ClientStep(x)
      PROVE  FALSE
  BY <1>2
  DEF ClientStep, Request, Share, Create, Connect, ConnectThrows, Store, Close,
      ReturnFrom, Goto, IInv, TypeOK
<1>3. CASE UNCHANGED clientVars
  BY <1>3 DEF clientVars
<1>4. ASSUME \/ \E b \in Buses : ReceiverStep(b) \/ Pin(b) \/ ReceiverFails(b)
             \/ \E d \in Daemons : DaemonStops(d) \/ DaemonStarts(d)
             \/ UNCHANGED vars
      PROVE  UNCHANGED clientVars
  BY <1>4
  DEF ReceiverStep, Unpin, ReceiverEnds, Pin, ReceiverFails, DaemonStops,
      DaemonStarts, vars, clientVars
<1>5. \/ \E x \in Clients : (\E d \in Daemons : Request(x, d)) \/ ClientStep(x) \/ Release(x)
      \/ UNCHANGED clientVars
  BY <1>4 DEF Next
<1>6. CASE \E x \in Clients :
             (\E d \in Daemons : Request(x, d)) \/ ClientStep(x) \/ Release(x)
  <2> PICK x \in Clients :
             (\E d \in Daemons : Request(x, d)) \/ ClientStep(x) \/ Release(x)
    BY <1>6
  <2>1. CASE x = c
    <3>1. Release(x)
      BY <1>2, <2>1
    <3> QED
      BY <2>1, <3>1
  <2>2. CASE x # c
    BY <1>1, <2>2
  <2> QED
    BY <2>1, <2>2
<1> QED
  BY <1>3, <1>5, <1>6

\* No other client, and no dispatch, can take the receiver away from it.
LEMMA ServedStep ==
  IInv /\ Owned /\ ClosersAreServed /\ [Next]_vars => ClosersAreServed'
<1> SUFFICES ASSUME IInv, Owned, ClosersAreServed, [Next]_vars,
                    NEW c \in Clients, pc'[c] = "closing"
             PROVE  receiver'[mine'[c]] \in {"running", "stopped"}
  BY DEF ClosersAreServed
<1>1. CASE pc[c] = "closing" /\ mine'[c] = mine[c]
  <2> PICK b \in Buses : b = mine[c]
    BY <1>1 DEF IInv, TypeOK, Busy
  <2>1. /\ state[b] = "closing" /\ refs[b] = {}
        /\ receiver[b] \in {"running", "stopped"}
    BY <1>1 DEF IInv, States, Owned, Life!OwnedOrOver, ClosersAreServed
  <2>2. [Life(b)!Next]_<<state[b], refs[b], receiver[b]>>
    BY LifeStep
  <2>3. receiver'[b] \in {"running", "stopped"}
    <3>1. CASE Life(b)!Next
      BY <2>1, <3>1
      DEF Life!Next, Life!Create, Life!Share, Life!Release, Life!LetGo, Life!Activate,
          Life!ActivateThrows, Life!Pin, Life!Unpin, Life!ReceiverEnds, Life!Close
    <3>2. CASE UNCHANGED <<state[b], refs[b], receiver[b]>>
      BY <2>1, <3>2
    <3> QED
      BY <2>2, <3>1, <3>2
  <2> QED
    BY <1>1, <2>3
<1>2. CASE Release(c)
  <2> PICK b \in Buses : b = mine[c]
    BY <1>2 DEF Release, IInv, TypeOK, Busy
  <2>1. pc[c] = "using" /\ refs[b] = {c} /\ mine'[c] = b /\ UNCHANGED receiver
    BY <1>2 DEF Release, Goto, IInv, TypeOK
  <2>2. state[b] = "active"
    <3>1. \A x \in Clients : Inside(x) => mine[x] # b
      BY <2>1, FactoryAssumption DEF IInv, NewBus, Inside
    <3> QED
      BY <2>1, <3>1 DEF IInv, States, Live, Inside
  <2>3. receiver[b] # "dispatching"
    BY <2>1, FactoryAssumption DEF Owned
  <2> QED
    BY <2>1, <2>2, <2>3 DEF Owned, Life!OwnedOrOver
<1> QED
  BY <1>1, <1>2, SinceRelease

\* ~BusImpl on a client never waits for a receiver that waits for itself.
THEOREM ClosingEnds == Spec => []ClosersAreServed
<1>1. Init => ClosersAreServed
  BY DEF Init, ClosersAreServed
<1> QED
  BY <1>1, ServedStep, OwnedAlways, Invariance, PTL DEF Spec
=============================================================================
