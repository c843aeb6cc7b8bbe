------------------------------- MODULE Factory -------------------------------
(***************************************************************************)
(* The buses of a process (Factory.cpp): connectors to one daemon share a  *)
(* bus, which the factory knows through a weak pointer and which lives as  *)
(* long as somebody owns it.  A client is a thread that has a connector    *)
(* made and destroys it again; the daemons may stop and come back.  What   *)
(* goes on within a bus is in Bus; here it has a receiver, which pins it   *)
(* now and then, and a destructor, which waits for the receiver.           *)
(***************************************************************************)
EXTENDS Naturals, FiniteSets

CONSTANTS
  Clients, NoClient,
  Daemons,    \* host and port
  NoBus,
  Receiver,   \* the reference a bus' own receiver thread takes
  MaxBuses    \* bound: buses created

Buses == 1..MaxBuses

ASSUME FactoryAssumption ==
  /\ Daemons # {}
  /\ NoClient \notin Clients
  /\ Receiver \notin Clients
  /\ NoBus \notin Buses
  /\ MaxBuses \in Nat
  /\ IsFiniteSet(Clients)

VARIABLES
  buses,      \* Factory::buses: the bus a daemon's entry points to, or NoBus
  busesLock,  \* the client that holds it, or NoClient
  pc, mine,   \* where each client is, and the bus it is busy with
  wanted,     \* the daemon it asks for
  created,    \* how many buses have been created; they are numbered
  daemonOf,   \* the daemon of each bus
  state,      \* of each bus
  refs,       \* who has a shared_ptr to it
  receiver,   \* the thread of its ReceiverTask
  up,         \* the daemons that accept connections
  sessions    \* the buses that a daemon has a session for

clientVars == <<pc, mine, wanted>>
busVars == <<created, daemonOf, state, refs, receiver>>
vars == <<buses, busesLock, clientVars, busVars, up, sessions>>

Busy == {"connecting", "storing", "using", "closing"}

TypeOK ==
  /\ buses \in [Daemons -> Buses \cup {NoBus}]
  /\ busesLock \in Clients \cup {NoClient}
  /\ pc \in [Clients -> {"idle", "obtaining"} \cup Busy]
  /\ mine \in [Clients -> Buses \cup {NoBus}]
  /\ \A c \in Clients : pc[c] \in Busy => mine[c] \in Buses
  /\ wanted \in [Clients -> Daemons]
  /\ created \in 0..MaxBuses
  /\ daemonOf \in [Buses -> Daemons]
  /\ state \in [Buses -> {"none", "created", "active", "closing", "gone"}]
  /\ refs \in [Buses -> SUBSET (Clients \cup {Receiver})]
  /\ receiver \in [Buses -> {"none", "running", "dispatching", "stopped", "stuck"}]
  /\ up \subseteq Daemons
  /\ sessions \subseteq Buses

\* For what has not been asked for or created yet.
AnyDaemon == CHOOSE d \in Daemons : TRUE

Init ==
  /\ buses = [d \in Daemons |-> NoBus]
  /\ busesLock = NoClient
  /\ pc = [c \in Clients |-> "idle"]
  /\ mine = [c \in Clients |-> NoBus]
  /\ wanted = [c \in Clients |-> AnyDaemon]
  /\ created = 0
  /\ daemonOf = [b \in Buses |-> AnyDaemon]
  /\ state = [b \in Buses |-> "none"]
  /\ refs = [b \in Buses |-> {}]
  /\ receiver = [b \in Buses |-> "none"]
  /\ up = Daemons
  /\ sessions = {}

Goto(c, label, b) ==
  /\ pc' = [pc EXCEPT ![c] = label]
  /\ mine' = [mine EXCEPT ![c] = b]

\* The end of obtainBus, whose parameter is gone with it.
ReturnFrom(c, label, b) ==
  /\ Goto(c, label, b)
  /\ wanted' = [wanted EXCEPT ![c] = AnyDaemon]

---------------------------------------------------------------------------
(* Factory::createInConnector, createOutConnector and obtainBus. *)

\* Mutant: a bus that does not receive any more is not used again.
AliveAndWell(b) == b # NoBus /\ refs[b] # {} /\ receiver[b] # "stopped"

\* Mutant: an entry is taken for a bus.
AliveByEntry(b) == b # NoBus

\* weak_ptr::lock gives the bus back.
Alive(b) == b # NoBus /\ refs[b] # {}

Request(c, d) ==
  /\ pc[c] = "idle"
  /\ created + Cardinality({x \in Clients : pc[x] = "obtaining"}) < MaxBuses
  /\ Goto(c, "obtaining", NoBus)
  /\ wanted' = [wanted EXCEPT ![c] = d]
  /\ UNCHANGED <<buses, busesLock, busVars, up, sessions>>

\* The entry's bus is alive: found, pinned and returned under the lock.
Share(c) ==
  LET b == buses[wanted[c]]
  IN /\ pc[c] = "obtaining"
     /\ busesLock = NoClient
     /\ Alive(b)
     /\ refs' = [refs EXCEPT ![b] = @ \cup {c}]
     /\ ReturnFrom(c, "using", b)
     /\ UNCHANGED <<buses, busesLock, created, daemonOf, state, receiver,
                    up, sessions>>

\* There is no entry, or it is erased; the lock is kept for a new bus.
Create(c) ==
  LET b == created + 1
  IN /\ pc[c] = "obtaining"
     /\ busesLock = NoClient
     /\ ~Alive(buses[wanted[c]])
     /\ b \in Buses
     /\ busesLock' = c
     /\ buses' = [buses EXCEPT ![wanted[c]] = NoBus]
     /\ created' = b
     /\ daemonOf' = [daemonOf EXCEPT ![b] = wanted[c]]
     /\ state' = [state EXCEPT ![b] = "created"]
     /\ refs' = [refs EXCEPT ![b] = {c}]
     /\ Goto(c, "connecting", b)
     /\ UNCHANGED <<wanted, receiver, up, sessions>>

\* BusImpl::activate: the session is there and the receiver runs.
Connect(c) ==
  LET b == mine[c]
  IN /\ pc[c] = "connecting"
     /\ daemonOf[b] \in up
     /\ sessions' = sessions \cup {b}
     /\ state' = [state EXCEPT ![b] = "active"]
     /\ receiver' = [receiver EXCEPT ![b] = "running"]
     /\ Goto(c, "storing", b)
     /\ UNCHANGED <<buses, busesLock, wanted, created, daemonOf, refs, up>>

\* Mutant: the lock is not released when activate throws.
ConnectThrowsLocked(c) ==
  LET b == mine[c]
  IN /\ pc[c] = "connecting"
     /\ refs' = [refs EXCEPT ![b] = {}]
     /\ state' = [state EXCEPT ![b] = "gone"]
     /\ ReturnFrom(c, "idle", NoBus)
     /\ UNCHANGED <<buses, busesLock, created, daemonOf, receiver, up, sessions>>

\* Mutant: the failure is swallowed, and a null pointer returned.
ConnectThrowsNull(c) ==
  LET b == mine[c]
  IN /\ pc[c] = "connecting"
     /\ refs' = [refs EXCEPT ![b] = {}]
     /\ state' = [state EXCEPT ![b] = "gone"]
     /\ busesLock' = NoClient
     /\ ReturnFrom(c, "using", NoBus)
     /\ UNCHANGED <<buses, created, daemonOf, receiver, up, sessions>>

\* The daemon does not answer, or refuses: CommException.  The bus is released
\* and, not being active, destroyed without further ado.
ConnectThrows(c) ==
  LET b == mine[c]
  IN /\ pc[c] = "connecting"
     /\ refs' = [refs EXCEPT ![b] = {}]
     /\ state' = [state EXCEPT ![b] = "gone"]
     /\ busesLock' = NoClient
     /\ ReturnFrom(c, "idle", NoBus)
     /\ UNCHANGED <<buses, created, daemonOf, receiver, up, sessions>>

\* Mutant: the new bus is not entered.
StoreNothing(c) ==
  /\ pc[c] = "storing"
  /\ busesLock' = NoClient
  /\ ReturnFrom(c, "using", mine[c])
  /\ UNCHANGED <<buses, busVars, up, sessions>>

Store(c) ==
  /\ pc[c] = "storing"
  /\ buses' = [buses EXCEPT ![wanted[c]] = mine[c]]
  /\ busesLock' = NoClient
  /\ ReturnFrom(c, "using", mine[c])
  /\ UNCHANGED <<busVars, up, sessions>>

---------------------------------------------------------------------------
(* The end of a bus: ~ConnectorBase and ~BusImpl, without busesLock. *)

\* The client destroys its connector, or args.get threw and there never was
\* one.  The last reference takes the bus along: its receiver is cancelled and
\* interrupted.
Release(c) ==
  LET b == mine[c]
      last == refs[b] = {c}
  IN /\ pc[c] = "using"
     /\ refs' = [refs EXCEPT ![b] = @ \ {c}]
     /\ state' = IF last THEN [state EXCEPT ![b] = "closing"] ELSE state
     /\ IF last THEN Goto(c, "closing", b) ELSE Goto(c, "idle", NoBus)
     /\ UNCHANGED <<buses, busesLock, wanted, created, daemonOf, receiver, up, sessions>>

\* Mutant: no SP_disconnect.
CloseSilently(c) ==
  LET b == mine[c]
  IN /\ pc[c] = "closing"
     /\ receiver[b] = "stopped"
     /\ state' = [state EXCEPT ![b] = "gone"]
     /\ Goto(c, "idle", NoBus)
     /\ UNCHANGED <<buses, busesLock, wanted, created, daemonOf, refs, receiver, up,
                    sessions>>

\* waitDone returns, the connection is closed.
Close(c) ==
  LET b == mine[c]
  IN /\ pc[c] = "closing"
     /\ receiver[b] = "stopped"
     /\ sessions' = sessions \ {b}
     /\ state' = [state EXCEPT ![b] = "gone"]
     /\ Goto(c, "idle", NoBus)
     /\ UNCHANGED <<buses, busesLock, wanted, created, daemonOf, refs, receiver, up>>

---------------------------------------------------------------------------
(* The receiver of a bus. *)

Pin(b) ==
  /\ receiver[b] = "running"
  /\ refs[b] # {}
  /\ refs' = [refs EXCEPT ![b] = @ \cup {Receiver}]
  /\ receiver' = [receiver EXCEPT ![b] = "dispatching"]
  /\ UNCHANGED <<buses, busesLock, clientVars, created, daemonOf, state, up, sessions>>

\* If it has the last reference, the receiver runs the destructor, which
\* waits for the receiver.
Unpin(b) ==
  LET last == refs[b] = {Receiver}
  IN /\ receiver[b] = "dispatching"
     /\ refs' = [refs EXCEPT ![b] = @ \ {Receiver}]
     /\ receiver' = [receiver EXCEPT ![b] = IF last THEN "stuck" ELSE "running"]
     /\ state' = IF last THEN [state EXCEPT ![b] = "closing"] ELSE state
     /\ UNCHANGED <<buses, busesLock, clientVars, created, daemonOf, up, sessions>>

\* Mutant: interruptReceive is only heard in a session.
InterruptedInSession(b) == state[b] = "closing" /\ b \in sessions

\* deactivate() has cancelled the task and woken it up.
Interrupted(b) == state[b] = "closing"

ReceiverEnds(b) ==
  /\ receiver[b] = "running"
  /\ Interrupted(b)
  /\ receiver' = [receiver EXCEPT ![b] = "stopped"]
  /\ UNCHANGED <<buses, busesLock, clientVars, created, daemonOf, state, refs, up,
                 sessions>>

\* A CommException (a lost session, a bad message) ends the task for good,
\* and nobody else notices.
ReceiverFails(b) ==
  /\ receiver[b] = "running"
  /\ receiver' = [receiver EXCEPT ![b] = "stopped"]
  /\ UNCHANGED <<buses, busesLock, clientVars, created, daemonOf, state, refs, up,
                 sessions>>

---------------------------------------------------------------------------
(* The daemons, of which the code knows only the answers. *)

DaemonStops(d) ==
  /\ up' = up \ {d}
  /\ sessions' = {b \in sessions : daemonOf[b] # d}
  /\ UNCHANGED <<buses, busesLock, clientVars, busVars>>

DaemonStarts(d) ==
  /\ up' = up \cup {d}
  /\ UNCHANGED <<buses, busesLock, clientVars, busVars, sessions>>

\* The part of a client's steps that its own code makes it take.
ClientStep(c) ==
  \/ Share(c) \/ Create(c) \/ Connect(c) \/ ConnectThrows(c) \/ Store(c)
  \/ Close(c)

ReceiverStep(b) == Unpin(b) \/ ReceiverEnds(b)

Next ==
  \/ \E c \in Clients : (\E d \in Daemons : Request(c, d)) \/ ClientStep(c) \/ Release(c)
  \/ \E b \in Buses : ReceiverStep(b) \/ Pin(b) \/ ReceiverFails(b)
  \/ \E d \in Daemons : DaemonStops(d) \/ DaemonStarts(d)

Spec == Init /\ [][Next]_vars

\* SP_connect answers or fails, handlers return, threads run.
FairSpec ==
  /\ Spec
  /\ \A c \in Clients : WF_vars(ClientStep(c))
  /\ \A b \in Buses : WF_vars(ReceiverStep(b))

---------------------------------------------------------------------------

Live(b) == refs[b] # {}

\* One connection per daemon ("Try to find an existing Bus instance"): two
\* live buses never belong to one daemon, whoever creates and drops meanwhile.
OneBusPerDaemon ==
  \A a, b \in Buses : Live(a) /\ Live(b) /\ daemonOf[a] = daemonOf[b] => a = b

\* The bus of a connector is active, not on its way down, and the one that the
\* next connector to this daemon will get (obtainBus, weak pointer in the map).
UsersShare ==
  \A c \in Clients : pc[c] = "using" =>
    /\ state[mine[c]] = "active"
    /\ c \in refs[mine[c]]
    /\ buses[daemonOf[mine[c]]] = mine[c]

Closing(b) ==
  \/ \E c \in Clients : pc[c] = "closing" /\ mine[c] = b
  \/ receiver[b] = "stuck"

\* No session is forgotten: it belongs to a live bus or to one that somebody
\* is closing, also if obtaining or creating threw half-way.
SessionsAreOwned == \A b \in sessions : Live(b) \/ Closing(b)

Life(b) == INSTANCE BusLife WITH
  Owners <- Clients,
  refs <- refs[b],
  state <- state[b],
  receiver <- receiver[b]

\* Of every bus the factory assumes just what Bus shows of one: connectors
\* are made, shared and dropped by all clients without waking a bus that is
\* going down, or closing it twice or under its receiver.
ImplementsBusLife ==
  /\ \A b \in Buses : Life(b)!Init
  /\ [][\A b \in Buses : [Life(b)!Next]_<<state[b], refs[b], receiver[b]>>]_vars

\* obtainBus returns or throws: neither a bus that is being destroyed nor a
\* daemon that is down blocks the map for good.
ObtainReturns ==
  \A c \in Clients : pc[c] = "obtaining" ~> pc[c] \in {"using", "idle"}

\* A bus without owners is closed, unless its own receiver is to do it.
AbandonedIsClosed ==
  \A b \in Buses : state[b] = "closing" ~> state[b] = "gone" \/ receiver[b] = "stuck"
=============================================================================
