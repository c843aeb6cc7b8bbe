# TLA+ models of the Spread transport (rsb-spread-cpp)

This directory holds TLA+ models of the transport in
`src/src/rsb/transport/spread` (file names below are relative to it), the TLC
configurations that check them, and proofs that TLAPS checks.

## 1. Inventory

| Component | State | Operations | Interacts with |
|---|---|---|---|
| `SpreadConnection` | `connected`, `mailbox`, `privateGroup` | `activate`, `deactivate`, `join`, `leave`, `receive`, `send`, `interruptReceive` | the daemon, through the Spread client library; used by all threads |
| `MembershipManager` | `groups` (reference counts) | `join`, `leave` | calls the connection; called under `BusImpl::sinkMutex` |
| `BusImpl` | `active`, `scopeDispatcher` (weak pointers to sinks), `sinkMutex`, the receiver task | `activate`, `deactivate`, `addSink`, `removeSink`, `handleIncoming/OutgoingNotification`, `handleError`, the destructor | owned by its connectors (`shared_ptr`); calls sinks back under `sinkMutex` |
| `WeakHandlerAdapter` | weak pointer to the bus | passes notifications and errors on | receiver thread to bus, without owning it |
| `ReceiverTask` | cancel flag, message handler | `execute` in a loop on its own thread | blocks in `receive()`, calls the bus |
| `InConnector`, `ConnectorBase` | `active`, `scope`, `bus`, handlers, error strategy | `setScope`, `activate`, `deactivate`, `handleNotification`, `handleError` | a sink of the bus; calls converters and user handlers |
| `OutConnector` | `active`, quality of service, `maxFragmentSize`, `groupNameCache` | `handle`, `activate`, `deactivate`, `setQualityOfServiceSpecs` | splits events into fragments, sends through the bus |
| `DeserializingHandler` | the assembly pool | `handleMessage`, `setPruning` | between receiver and pool |
| `AssemblyPool`, `Assembly`, `PruningTask` | `pool`, `store`, `receivedParts`, `birthTime`, `pruningTask` | `add`, `isPruning`, `setPruning`, the periodic scan, the destructor | receiver thread, pruning thread, callers of `setPruning` |
| `GroupNameCache` | map from scopes to group names | `scopeToGroup`, `scopeToGroups` | `OutConnector`, `BusImpl` |
| `Factory` | weak map of buses by host and port | `obtainBus`, `create*Connector` | creates connections, buses, connectors |
| `Notifications`, `SpreadMessage`, `ErrorMessages`, `registration` | plain data, tables, one-time set-up | | |

What is hard here: a bus is shared by connectors that come and go on threads
of their own, and lives exactly as long as the last of them or the dispatch
that has pinned it; the receiver blocks in a library call that can only be
ended by a message to itself; user code runs under `sinkMutex`; every call
to the daemon can throw between two updates; the daemon can end the session at
any time; fragments are lost, repeated and interleaved; and a second thread
prunes what the first one puts together.

What makes the components correct:

* memberships: counts equal registered sinks, and the daemon agrees with them;
* dispatching: a connector that is not active is never called;
* destruction: exclusive, after the receiver has ended, and it does end;
* receiving: a lost session ends the task, nothing else keeps callers waiting;
* assembling: what is delivered consists of one copy of every part, no
  completion is missed, nothing incomplete stays for ever while pruning is on;
* pruning control: switching off is synchronous and comes to an end;
* the way of an event: it arrives whole, at most once, in order if asked for,
  whatever is lost, mixed or cut off on the way; splitting ends for every size;
* addressing: a handler gets the events of its scope and no others, also when
  group names collide, and nothing that was sent to the right groups is lost;
* sharing: at most one live bus for one daemon, no session that nobody owns.

`PROJECT.json` lists the hazards line by line, each with the properties that
are about it or the reason why there is none yet.

## 2. Modules

| Module | Models |
|---|---|
| `SpreadConnection` | outcomes of the connection's methods, and the daemon, as actions over `connected`, `session`, `joined`, `mailbox`; no next-state relation of its own |
| `MembershipManager` (extends it) | outcomes of `join` and `leave` over `groups` |
| `BusLife` | abstract: the life of one bus as its owners see it |
| `Bus` (extends `MembershipManager`) | the bus with its receiver thread, in-connectors and publishers: the composition, with `Next`, `Spec`, `FairSpec` and the properties; implements `BusLife` from activation on |
| `BusProofs` | theorems about `Bus` |
| `MCBus` | values for TLC |
| `Factory` | the map of buses, the clients that obtain and drop them, the daemons; implements `BusLife` for each bus |
| `FactoryProofs`, `MCFactory` | theorems about it, values for TLC |
| `AssemblyPool` | pool, pruning task, callers of `setPruning`, destruction |
| `AssemblyPoolProofs`, `MCAssemblyPool` | theorems about it, values for TLC |
| `Channel` | abstract: what the transport promises a remote in-connector |
| `Delivery` | `OutConnector::handle`, `sendNotification`, the network, `DeserializingHandler` with the pool: the way of events from several out-connectors to one remote receiver; implements `Channel` |
| `DeliveryProofs`, `MCDelivery` | theorems about it, values for TLC |
| `GroupNameCache` | the cache of an out-connector and the threads that look scopes up; no next-state relation of its own that is run |
| `InConnector` | conversion, handlers and error strategy of the in-connectors; as above |
| `EventBus` | abstract: what the bus promises the handlers |
| `Routing` (extends `GroupNameCache`, `InConnector`) | the addressing of events from the threads of one out-connector to the handlers in all processes; implements `EventBus` |
| `GroupNameCacheProofs`, `RoutingProofs`, `MCRouting` | theorems about the cache and about `Routing`, values for TLC |

The modules look at the same system from different sides. `Bus` has the life of
connectors and of one bus, with messages that are only scopes; `Factory` has
several buses, of each only its state and owners; `BusLife` is what the two agree
on, so that `Factory` takes for granted no more of a bus than `Bus` shows of it;
`Delivery` has the fragments
of events on one way from senders to a receiver, `AssemblyPool` the threads at
the end of this way; `Routing` has events that are one message, and who gets
them.

### Bus

Threads are the receiver and one thread per connector, which owns it; thread
and connector share a name. A thread's `pc` says where it is:

| `pc` | code |
|---|---|
| `idle` | a user's thread outside the transport |
| `adding`, `registering` | in `InConnector::activate`, before and after `memberships.join` in `addSink` |
| `removing`, `leaving` | in `InConnector::deactivate`, before and after `scopeDispatcher.removeSink` in `removeSink`; by the user or by the destructor (`c \notin held`) |
| `locking`, `dispatching` | in one of the three dispatching methods of `BusImpl`, waiting for `sinkMutex` or inside `mapSinks` |
| `destroying` | the dispatcher has released the last reference to a sink and is in `~InConnector`, wanting the mutex it holds: it stays there |
| `dropping` | releasing a connector's reference to the bus |
| `canceling`, `interrupting`, `waiting`, `disconnecting` | the steps of `BusImpl::deactivate` in `~BusImpl` |
| `loop`, `receiving`, `pinning`, `unpinning`, `done` | the receiver: between calls of `execute`, in `receive()`, at and after the weak adapter's `lock()`, ended |
| `gone` | the thread's connector is destroyed |

A step is what a thread does between two points at which another thread can
matter. Acquiring `sinkMutex` is joined with the first access it protects,
releasing it with the last. `busRefs` are the owners of a `shared_ptr` to the
bus, `held` those connectors whose owner still has its pointer. `failure`
records an assertion that failed or an exception that left a destructor; the
process does nothing after it.

Messages are scopes (a notification of that scope), `Interrupt`, or `Garbage`
(anything that ends in a `CommException`: unparsable data, a fragment received
twice). That a message has fragments is left to `AssemblyPool` and `Delivery`.
Group names are the values of the constant `GroupOf`; that two scopes may
collide is kept, because `scopeToGroup` truncates a hash. Of the daemon's
behaviour the model assumes only what the code relies on: requests of one
session take effect in order, a message to the private group comes back unless
the session is lost. A notification may arrive for any scope, since leaving a
group does not recall what is already routed.

Handlers do not call back into the transport; that they throw, and the error
strategy that ends the process, is in `InConnector`. `WeakScopeDispatcher` is a
library's; it is modelled as the code uses it: a set of weak pointers, iterated
under `sinkMutex`.

`Waits(t)` says that thread `t` cannot go on by itself: it wants `sinkMutex`
while another (or, in `destroying`, itself) has it, waits for the receiver in
the destructor, or is in `receive()` with an empty mailbox. `NoCircularWait` then
says that whom a thread waits for does not wait: chains have one link. It covers
the receiver that is blocked in `receive()` while a destructor waits for it, so
it also says that the interrupt has been heard. `DeactivatedIsSafe` says when the
self-deadlock of a dispatcher (see Findings) cannot happen: a connector whose
owner called `deactivate()` before dropping it is never left to a dispatcher to
take out of the bus.

To its owners (`BusLife`) the bus is `active` while `busRefs` is not empty,
`closing` while a thread is in `~BusImpl`, and `gone` after that; the receiver is
`dispatching` while it has the bus pinned, `stuck` in the destructor, `stopped`
when `done`, and `running` otherwise. Since `Bus` starts with an activated bus,
it implements `FromActivation`, the same steps from another initial state.

`failed receive` on a closed connection, and (de)activating a bus by hand, have
no caller in the transport and are left out.

### Factory

A client is a thread with at most one connector at a time. Its `pc`: `idle`;
`obtaining`, before `obtainBus` has `busesLock`; `connecting`, in
`BusImpl::activate` under this lock; `storing`, before the entry in the map is
made; `using`, with a reference to the bus (also while it constructs the
connector, which may throw and then releases the reference as destroying the
connector does); `closing`, in `~BusImpl`. `refs` are the owners of a bus; one
of them may be its own receiver, for a dispatch (`Pin`, `Unpin`). `receiver` is
the thread of the receiver task: `none`, `running`, `dispatching`, `stopped`, or
`stuck` in the destructor of its own bus (finding 1). `state` is what has become
of a bus: `gone` after `~BusImpl`. Daemons stop, with their sessions, and start
again; `sessions` says what a daemon knows.

`busesLock` is held across `activate`, so the map cannot change between the
test of the weak pointer and the entry of a new bus; it is not held in the
destructor, so a bus can be closing while its successor is made.

Every bus leads the life of `BusLife` (`ImplementsBusLife`: each starts as
`Init` of it, and each step is for each bus a step of its life or a stutter).
`Create` and `Share` are `Create` and `Share`; `Connect`, or its exception, is
`Activate` or `ActivateThrows`; `Release`, `Close`, `Pin` and `Unpin` have the same
names; `ReceiverFails`, and the end of the receiver on request, are
`ReceiverEnds`. `OwnedOrOver` is what follows from such a life alone.

### AssemblyPool

`add()` holds `poolMutex` from end to end and is one step; the scan is one step
per assembly between `LockPool` and `UnlockPool`, so that what the mutex is for
can be seen. `inTransit` says how many copies of each fragment the network will
bring, zero included; they arrive in any order. `added`, `discarded` and
`delivered` are history. An event stands for the pool's key (sender and the low
32 bits of the sequence number); it is fixed how many parts an event has, as
`sendNotification` writes the same `num_data_parts` in all its fragments. A
one-part event does not reach the pool. `age` counts seconds up to the first
value the scan treats as old.

### Delivery and Channel

The payload of event `e` is the range of bytes from 0 to `Size[e]`; a fragment
carries a slice of it, so that "joined equals split" becomes "the slices follow
each other from 0 to `Size[e]`". `handle()` is one `Split` per turn of its loop,
with the subtractions and the offset modulo `Modulus` (2^32 in the code, small
for TLC). `Header[e]` and `IdSize` are the values of `ByteSize()` for the first
and for later fragments. `stage[p]` is `splitting` in the loop, `sending` in
`sendNotification`, which is one step per fragment: between two of them other
publishers send, the receiver joins the group, or the session is lost and the
rest never goes out. An event that `handle()` gave up counts as published, since
some of its fragments may be out.

The receiver is in another process (the transport sends with `SELF_DISCARD`).
The network keeps fragments in the order of one publisher if `qos` is `FIFO`,
loses them only if it is `UNRELIABLE`, and duplicates none; `AssemblyPool` is
the module that has duplicates. The pool appears here as the set of fragments
it stores, with pruning off, which nothing in the transport switches on.
`Channel` keeps three things: the quality of service, what was published, what
was delivered. Under the mapping `Promised`, `Handle` publishes, the receipt of
the last missing part delivers, everything else is a stutter. What a receiver
can rely on is stated in `Channel` as a consequence (`WholeOnceInOrder`).

`PayloadAssumption` leaves out payloads within one fragment or header of 4 GiB;
the offset would wrap around and the loop not end. `IdSize >= 5` holds because
a sender's id alone takes 16 bytes; it is what makes a limit below 5
harmless (the space wraps around and takes everything).

### Routing, GroupNameCache, InConnector, EventBus

Threads of process `Home` publish through one out-connector. `phase[t]` is
`looking up` from the start of `OutConnector::handle` to the end of
`sendNotification`, `mapping` in `BusImpl::handleOutgoingNotification` before
`sinkMutex` is granted, `dispatching` after. Within the lookup `lookup[t]` says
how far `scopeToGroups` is: `missed` with the upgrade lock, `valid` with a
reference to an entry and without any lock, `dangling` when that entry has been
cleared meanwhile. A thread that reads through a dangling reference reads any
set of groups; that it may crash instead is the other outcome of the undefined
behaviour, and leaves nothing to check. `misrouted` remembers the events that
were sent to other groups than their scope's.

`mailbox[p]` is what the daemon has for process `p`, in the order of sending;
a process gets one copy however many of the groups it has joined, and nothing of
its own (`SELF_DISCARD`). `dispatch[p]` is the `mapSinks` that runs under
`sinkMutex` of `p`: the sinks whose scope is a super-scope of the event's,
whatever group it came through. `call[p]` is the `handleNotification` of a sink:
conversion, then one handler after the other; each of these may throw, and the
error strategy goes on (`LOG`, `PRINT`) or ends the process (`EXIT`). `handled`
is history: what each handler was called with.

Under the mapping `Promised` sending publishes, a call of a handler receives,
all else is a stutter. `EventBus` promises safety only: published events, on a scope
below the listener's, at most once, in the order of each publisher
(`OnceInOrder` states this of what was received, as a consequence). That
nothing is lost is `NothingLost`, and that the way ends `WaitingEnds`.

## 3. Runs

| Run | Question | Bounds |
|---|---|---|
| `bus_safety` | type, counts, membership, quiet after deactivation, exclusive destruction, closing after the reader, no circular wait, no sink self-deadlock after `deactivate()`, refinement of `BusLife` | 2 in-connectors (symmetric), 1 publisher, 2 scopes in 2 groups, 4 units of work (activations, publications, deliveries in any mix) |
| `bus_live` | destruction completes, calls return, a lost session stops the receiver | the same threads, 2 scopes that collide in 1 group, 2 units of work |
| `bus_selfwait` | finding 1 | 1 in-connector, 2 units of work |
| `bus_assert` | finding 2 | 1 in-connector, 2 units of work |
| `bus_skip` | finding 3 | 1 in-connector, 2 units of work |
| `pool` | conservation, soundness, completion, iterator, synchronous stop; pruning happens, stopping ends | 2 events of 2 parts, up to 2 copies of each fragment, 2 callers of `setPruning` |
| `pool_truth` | finding 4 | as `pool`, 1 copy, 1 caller |
| `delivery_channel` | types, number of fragments against a closed formula, own fragments accepted, refinement of `Channel`, `handle()` comes back, what can arrive does | 2 publishers with 2 events each; payloads that fill one fragment, fill two, need a third; one header too big; limits 14 and 4 (wraps around); `Modulus` 64 |
| `routing` | cache right and bounded, right groups while the cache is not flooded, nothing lost, refinement of `EventBus`, the way ends | 2 threads with 2 and 1 events (`MaxEvents`); 3 scopes, 2 of which collide; `CacheLimit` 1; 3 in-connectors in 2 processes with 1, 2 and 1 handlers and the strategies `PRINT`, `LOG`, `EXIT` |
| `routing_stale` | finding 5 | as `routing` |
| `routing_blank` | finding 6 | as `routing` |
| `factory` | one live bus for a daemon, users share it, sessions are owned, every bus leads the life of `BusLife`, `obtainBus` and the destructor come to an end | 3 clients, 2 daemons, `MaxBuses` 3 |

Why the bounds are enough. Two in-connectors are needed for shared counts, for a
dispatch that visits more than one sink and for a last reference that is
released by either side; a third acts like the second. Four units of work allow
two activations of each connector or an activation of both with two messages or
publications, enough for a re-activation during a dispatch. One publisher
besides the receiver gives two competing dispatchers. In the pool, two parts
give both orders of arrival, two copies give the duplicate before and after
completion, two events give a scan that can be disturbed at another element. For
delivery, two events of a publisher are needed for order, two publishers for
fragments that mix, three fragments for a gap in the middle; the sizes sit on
and beside the boundaries of the loop. For routing, two threads are needed for a
reference that dangles, and three scopes with a limit of 1 for a cache that is
cleared; one thread has two events for the order and for a cache that is filled
before; two handlers at one sink for an exception between them, two sinks in a
process for one that follows it. For the factory, three clients are needed for
one that closes a bus while another creates its successor and a third finds this
one, and three buses for a successor that is followed itself. `MaxWork`,
`MaxCopies`, `MaxEvents`, `MaxBuses` and the cap on `age` are the only bounds;
`CacheLimit` is a parameter, 300 in the code. `Request` of `Factory` is guarded
so that a client that asks is never refused a bus for the bound. The proofs hold
for every value of all of them.

Deadlock is not checked: a process legitimately ends (`gone`, `done`,
`dead`), aborts, or, in the self-deadlocks below, stops.

Each property was tried against a plausible mistake in the code (the mutants:
definitions marked "Mutant" next to the one they distort).

### Findings

1. `bus_selfwait`: the weak adapter keeps the bus alive for the time of a
   dispatch. When the connectors go in that time, the receiver thread runs the
   destructor and waits for itself.
2. `bus_assert`: after a `leave` that threw on a lost session, the connector
   still says it is active; deactivating again, or destroying it, fails the
   assertion in `MembershipManager::leave`.
3. `bus_skip`: the error handler reports "Skipping message", but the task has
   cancelled itself and no connector of this bus receives anything again.
4. `pool_truth`: `isPruning()` stays true after `setPruning(false)`, and
   `setPruning(true)` never starts pruning again.
5. `routing_stale`: `scopeToGroups` hands out a reference into the cache without
   its lock; when another thread's insertion clears the cache before the copy, the
   event is sent to whatever the destroyed vector holds.
6. `routing_blank`: after a failed conversion the handlers are called with an
   event that nothing was filled into, though the user was told that it is skipped.

Two facts of `Delivery` that no run is needed for: the tag and length of the
data field are not taken from the space for data, so a full fragment exceeds
`maxFragmentSize`; and meta data that are too big raise an exception in line 149
of `OutConnector.cpp`, which the assertion on line 148 precedes in a debug build.

A further self-deadlock is in the model but is no finding, because nothing
promises its absence: `~InConnector` run by a dispatcher under `sinkMutex`
(`pc` `destroying`). `DeactivatedIsSafe` says what keeps clear of it. `CallsReturn`
and `LossStopsReceiver` are stated up to the two self-deadlocks (`SelfDeadlock`)
and aborts (`failure`).

### Fairness

`FairSpec` of `Bus` assumes weak fairness of every thread's next step: the
operating system runs a thread that is ready, and handlers and library calls
other than `receive()` return. It assumes nothing of users, who may never call
again, and nothing of the daemon, which may stay silent for ever. Weak fairness
is enough although threads compete for `sinkMutex`, because the work that can
take it is bounded; on an unbounded run a fair mutex would have to be assumed,
which `boost::mutex` does not promise. `FairSpec` of `AssemblyPool` assumes that
time passes, that the pruning thread runs, and that a caller whose wait is over
returns. `FairSpec` of `Delivery` assumes that the thread in `handle()` runs and
that some fragment underway is received, sooner or later; not that an event is
handed over, and not that what the network may lose arrives. `FairSpec` of
`Routing` assumes that threads run and handlers return, or throw, or end the
process; the competition for `sinkMutex` is bounded again. `FairSpec` of
`Factory` assumes that `SP_connect` answers or fails and that handlers return;
it assumes nothing of the users who ask for buses and drop them, nor of the
daemons, nor that a receiver ever dispatches or fails. Who waits for `busesLock`
gets it because the number of buses is bounded.

## 4. Proofs

TLAPS checks every invariant of the passing runs and all four refinements
(`Bus` and `Factory` of `BusLife`, `Delivery` of `Channel`, `Routing` of
`EventBus`), for all values of the constants under the named assumptions of the
modules:

| Module | Theorems | Assumptions |
|---|---|---|
| `BusProofs` | `TypeCorrect`, `CountsAreExact`, `DaemonAgrees`, `HandlersAreQuiet`, `DestructionIsExclusive`, `ReaderEndsFirst`, `WaitsAreShort`, `DeactivatingIsSafe`, `Implements`, `OverIsOver` | `MessageAssumption`, `FiniteAssumption`, `ThreadAssumption`, `ScopeAssumption`, `WorkAssumption` |
| `AssemblyPoolProofs` | `TypeCorrect`, `Conservation`, `Soundness`, `Completion`, `IteratorValidity`, `StopIsSynchronous` | `PartsAssumption`, `OwnerAssumption`, `AgeAssumption`, `CopiesAssumption` |
| `DeliveryProofs` | `TypeCorrect`, `AcceptsOwnTraffic`, `SplitsRight`, `Implements` (`Spec => Promised!Spec`), `WholeOnceAndInOrder`, `SplittingGetsOn` | `EventsAssumption`, `WidthAssumption`, `PayloadAssumption` |
| `RoutingProofs` | `TypeCorrect`, `CacheRight`, `CacheBounded`, `FewAreRight`, `NothingIsLost`, `Implements` (`Spec => Promised!Spec`), `OnceAndInOrder` | `CacheAssumption`, `HandlersAssumption`, `RoutingAssumption`, `DispatchAssumption` |
| `FactoryProofs` | `TypeCorrect`, `OneBus`, `Sharing`, `Ownership`, `Implements`, `OverIsOver`, `ClosingEnds` | `FactoryAssumption` |

`GroupNameCacheProofs` has the lemmas about the cache that `RoutingProofs` uses.

The argument for `Bus`. None of its properties is inductive alone. `IInv` adds:
which labels a kind of thread can have (`Roles`); who is in a critical section
when (`Exclusion`: at most the holder of `sinkMutex` is past its lock, and the
holder is); that what the loop has still to visit, and whom it is calling, are
registered or about to be passed over (`LoopVisitsSinks`); how `active`, `sinks`
and `pc` go together (`Registration`); the count of each group as the number of
sinks, corrected by the one connector inside `addSink` or `removeSink`
(`CountsFollowSinks`, where `MembershipExact` is the case of a free mutex); that
every connector which can still call the bus is in `busRefs` (`References`),
which makes the destructor exclusive; and what holds at each step of the
destructor (`Closing`), which gives the order of ending and closing. Each
conjunct has its own step lemma; the counting ones rest on lemmas about adding
and removing one element of a finite set. `ThreadAssumption` includes that there
is a connector: `obtainBus` is called for one, which is the bus' first owner.

Three results go beyond `IInv`. For `WaitsAreShort`: who holds `sinkMutex` is
inside a critical section and waits for nothing, unless it is in `destroying`
(`Exclusion`). Who waits in the destructor is the only thread left that can call
the bus, so the receiver it waits for is not after the mutex either; that it is
not blocked in `receive()` is `Heard`: the task is cancelled before the interrupt
goes out, and if the receiver is in `receive()` while the destructor waits, the
interrupt is still in the mailbox, or the session is lost and the call fails. A
receiver that has used up the interrupt finds itself cancelled and does not go
back to `receive()`. `DeactivatingIsSafe` adds `OwnerIsGone`, that a sink
which a dispatcher destroys has been dropped by its owner; that it is still active
follows from `LoopVisitsSinks` and `Registration`: only active sinks are called. For
`Implements`, `References` says that a step which takes a reference takes it
from an owner, and `Closing` that the connection is closed after the receiver
has ended; most other steps are stutters of the life. `OverIsOver` is
`OwnedOrOver`, carried over by the refinement.

The argument for `AssemblyPool`: `FragmentsConserved`, `PoolIsSound` and the
types are inductive together; that a filled slot raises the number of filled
slots by one, and that all slots are filled when the number reaches `Parts[e]`,
are lemmas about cardinalities (`SlotFilled`). `IteratorStaysValid` needs that
the scan's list is empty outside the scan (`ScanIsOver`). `Completion` follows
from conservation: if every part was accepted, none pruned and nothing
delivered, all slots are filled, which soundness excludes.

The argument for `Delivery`. `OneSplit` does the arithmetic once: with a limit
of at least 5 neither the space nor the offset wraps around; with a smaller one
the space does, covers the payload, and the loop ends after one turn. Hence
`SplitSoFar`: slices follow each other up to the offset, or up to the end of the
payload. `PiecesOfCurrent` says that pieces in flight or stored of the event a
publisher is busy with are those it has sent; `PiecesPlaced` and `PiecesMatch`
keep what remains true of them afterwards. When `CompletedBy` counts as many
pieces as there are parts, their numbers are an injection between finite sets
of the same size, so every part is there (`AllPartsHere`); then they join to
the whole payload (`ManyParts`), and the sender is done with the event, since
it can only have sent its last part last. So nothing more can come of it
(`DeliveredIsOver`), which gives "at most once", and with `FIFO` everything
underway is later (`OrderKept`), which gives order, also when a one-part
notification bypasses the pool. `WholeOnceAndInOrder` is about what has been
delivered in all, and follows from the refinement.

For `SplitsRight`, `AllCounted` says of each event that is still in the loop how
many fragments are behind it: the offset is that number of full fragments. At
the end of the loop the number is the quotient that the closed formula takes,
which `Quotient` settles from the two inequalities that make a quotient unique;
no division by a variable is left to the provers. `SplittingGetsOn`, an action
property, is the part of `HandleReturns` that is about safety: every turn of the
loop is its last or takes the offset on by more than `MinDataSpace`.

The argument for the cache (`GroupNameCacheProofs`, `CacheInv`). `CacheIsRight`
needs that the entry to be inserted is not there yet, which holds because the
thread that missed it has kept the upgrade lock (`GapIsLocked`). A reference is
good as long as its entry is in the cache (`ReferenceIsGood`), everything in the
cache has been asked for (`Remembered`), and hence, while no more scopes have
been asked for than the limit allows, nothing has been destroyed
(`NothingDestroyed`). The bounds on cardinalities are lemmas about finite sets.

The argument for `Routing`. For order: numbers of a thread's events rise from
those it has sent to the one it is busy with (`OwnEvents`, `NumbersRise`); what
is in a mailbox is in the order of each publisher (`MailInOrder`) and after what
is being dispatched (`DispatchIsRight`), which is after everything handled at
sinks that still wait for it (`CallIsRight`, `HandledIsOld`). With them every
step maps to `Publish`, to `Receive`, or to a stutter. `NothingLost` is
inductive on top of this invariant: a send puts the event in the mailboxes of
all who have joined one of its groups, or leaves its thread `mapping`; each
later step moves it on to where `Coming` still sees it, or hands it over.

The argument for `Factory`. `LockIsHeld` says that between the test and the
entry one client at most is at work, the holder of the lock. `Numbering` keeps
buses not yet created without trace, `References` says that who is busy with a
bus owns it, `NewBus` that a bus under construction is owned by its creator
alone and that its daemon has no entry. Then `MapIsRight`, that a live bus is
the one in the map or the one under construction, is preserved, and yields
`OneBus`. `States` relates what has become of a bus to its owners and its
session, for `Sharing` and `Ownership`; it also says that at most one client is
closing a bus, which makes every step one of the bus' life (`Implements`).
`ClosingEnds` uses both, and the refinement: a client in `~BusImpl` waits for a
receiver that has ended or has only to see that it is cancelled, never for one
that is dispatching or waits for itself.

Only model-checked: the liveness properties, since TLAPS does not handle
`ENABLED` and fairness, and the refutations. Of some liveness properties the
part that is about safety is proved: `WaitsAreShort` for `CallsReturn` and
`DestructorCompletes`, `SplittingGetsOn` for `HandleReturns`, `ClosingEnds` for
`AbandonedIsClosed`.

## 5. Not modelled

* `Notifications` and `SpreadMessage`: the containers of a message; what matters
  of them, parts and data, addressed groups, kinds of messages, is in the
  messages of `Delivery`, `Routing` and `Bus`. `ErrorMessages` is a table of
  texts.
* `registration`: two calls into the connector factories of RSB, which refuse a
  second registration themselves. After `unregister` and a new registration
  there are two factories, and two buses for a daemon are possible; `OneBus`
  speaks of one factory.
* What converters compute; only that they succeed or throw matters.
* Input that this transport does not produce (fragments with foreign part
  numbers), and the wall clock behind `Assembly::age`: assumed away, and listed
  as hazards.
* Build files and packaging.

## 6. Plan

Done: the bus with its connection, memberships and receiver; the assembly pool;
the way of events from splitting to joining; the factory with several buses; the
cache, the event path of in-connectors and the composition of both; every
invariant proved, and the refinements of `Channel`, `EventBus` and, by `Bus` and
`Factory`, of `BusLife`.

What would add most from here:

1. Subscriptions that come and go in `Routing`: `addSink` and `removeSink` of
   `Bus` between sending and dispatching, with an `EventBus` that promises
   events to who was registered throughout.
2. Handlers that call back into the transport, publishing or deactivating from
   within a dispatch that holds `sinkMutex`.
3. `AssemblyPool` within `Delivery` instead of the set of fragments, with
   pruning on: what an `UNRELIABLE` channel may then lose.
