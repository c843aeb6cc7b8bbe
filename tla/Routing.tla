------------------------------- MODULE Routing -------------------------------
(***************************************************************************)
(* The addressing of events: several threads publish through one           *)
(* out-connector, in process Home.  Each looks up the groups of its        *)
(* event's scope in the connector's GroupNameCache and sends the event     *)
(* to these groups; the daemon hands it to every process with a member;    *)
(* the bus of that process passes it to the in-connectors whose scope is a *)
(* super-scope.  Home's own in-connectors are called directly instead.     *)
(* Composition of GroupNameCache and InConnector; implements EventBus.     *)
(*                                                                         *)
(* An event is one message (Delivery is about splitting), the quality of   *)
(* service is reliable and FIFO, subscriptions stay (Bus is about theirs). *)
(***************************************************************************)
EXTENDS GroupNameCache, InConnector

CONSTANTS
  Home,         \* the process of the out-connector
  SinkProcess,  \* the process of each in-connector
  SinkScope,    \* its scope
  NoDispatch,
  MaxEvents     \* bound: events of each thread

ASSUME RoutingAssumption ==
  /\ Home \in Processes
  /\ SinkProcess \in [Sinks -> Processes]
  /\ SinkScope \in [Sinks -> Scopes]
  /\ MaxEvents \in [Threads -> Nat]

Events == [publisher : Threads, number : Nat \ {0}, scope : Scopes]

BoundedEvents ==
  UNION {[publisher : {t}, number : 1..MaxEvents[t], scope : Scopes] : t \in Threads}

\* Before its first event.
NoneYet(t) == [publisher |-> t, number |-> 0, scope |-> AnyScope]

VARIABLES
  phase,      \* where each thread is in OutConnector::handle
  current,    \* the event each thread publishes or has published last
  mailbox,    \* per process: what the daemon has for it
  dispatch,   \* per process: the mapSinks that runs under sinkMutex
  published,  \* history: events sent
  misrouted   \* history: events sent to groups that are not their scope's

pathVars == <<phase, current, mailbox, dispatch, published, misrouted>>
vars == <<cacheVars, connectorVars, pathVars>>

SuperScopesOf(s) == Range(SuperScopes[s])

\* The scope of the sink is the event's or one above it.
Addressed(s, e) == SinkScope[s] \in SuperScopesOf(e.scope)

\* Mutant: whatever arrives through a group goes to all sinks of the group.
SinksByGroup(p, e) ==
  {s \in Sinks : SinkProcess[s] = p
                   /\ scopeToGroup[SinkScope[s]] \in Range(GroupsOf(e.scope))}

\* ScopeDispatcher::mapSinks, as the bus uses it.
SinksFor(p, e) == {s \in Sinks : SinkProcess[s] = p /\ Addressed(s, e)}

\* The groups a process has joined (BusImpl::addSink for each of its sinks).
Joined(p) == {scopeToGroup[SinkScope[s]] : s \in {r \in Sinks : SinkProcess[r] = p}}

\* by: the thread that dispatches, or the process' receiver.
Dispatches == [by : Threads \cup Processes, event : Events, todo : SUBSET Sinks]

ASSUME DispatchAssumption ==
  /\ NoDispatch \notin Dispatches
  /\ NoCall \notin Calls(Events)
  /\ Threads \cap Processes = {}

TypeOK ==
  /\ CacheTypeOK
  /\ ConnectorTypeOK(Events)
  /\ phase \in [Threads -> {"idle", "looking up", "mapping", "dispatching"}]
  /\ current \in [Threads -> Events \cup {NoneYet(t) : t \in Threads}]
  /\ mailbox \in [Processes -> Seq(Events)]
  /\ dispatch \in [Processes -> Dispatches \cup {NoDispatch}]
  /\ published \subseteq Events
  /\ misrouted \subseteq published

Init ==
  /\ CacheInit
  /\ ConnectorInit
  /\ phase = [t \in Threads |-> "idle"]
  /\ current = [t \in Threads |-> NoneYet(t)]
  /\ mailbox = [p \in Processes |-> <<>>]
  /\ dispatch = [p \in Processes |-> NoDispatch]
  /\ published = {}
  /\ misrouted = {}

---------------------------------------------------------------------------
(* OutConnector::handle and BusImpl::handleOutgoingNotification. *)

Publishing(t, at) == Home \in running /\ phase[t] = at

\* handle() begins with the lookup.
Handle(t, s) ==
  /\ Publishing(t, "idle")
  /\ current[t].number < MaxEvents[t]
  /\ current' = [current EXCEPT
       ![t] = [publisher |-> t, number |-> @.number + 1, scope |-> s]]
  /\ phase' = [phase EXCEPT ![t] = "looking up"]
  /\ Find(t, s)
  /\ UNCHANGED <<connectorVars, mailbox, dispatch, published, misrouted>>

LookUp(t) ==
  /\ Publishing(t, "looking up")
  /\ Insert(t)
  /\ UNCHANGED <<connectorVars, pathVars>>

\* Mutant: without SELF_DISCARD.
ReceiversAndSelf(groups) ==
  {p \in running : Joined(p) \cap groups # {}}

\* The processes that get the message: Spread sends one copy, however many of
\* the groups a process has joined, and none to the sender (SELF_DISCARD).
Receivers(groups) ==
  {p \in running \ {Home} : Joined(p) \cap groups # {}}

\* The copy of the groups and sendNotification.  In between the thread touches
\* nothing shared.
Send(t) ==
  /\ Publishing(t, "looking up")
  /\ Copy(t)
  /\ \E groups \in Readable(t) :
       LET e == current[t]
       IN /\ mailbox' = [p \in Processes |-> IF p \in Receivers(groups)
                            THEN Append(mailbox[p], e) ELSE mailbox[p]]
          /\ published' = published \cup {e}
          /\ misrouted' = IF groups = Range(GroupsOf(e.scope)) THEN misrouted
                          ELSE misrouted \cup {e}
  /\ phase' = [phase EXCEPT ![t] = "mapping"]
  /\ UNCHANGED <<connectorVars, current, dispatch>>

\* The connection throws, and so does handle(); nobody gets the event.
SendThrows(t) ==
  /\ Publishing(t, "looking up")
  /\ Copy(t)
  /\ phase' = [phase EXCEPT ![t] = "idle"]
  /\ UNCHANGED <<connectorVars, current, mailbox, dispatch, published,
                 misrouted>>

Lock(p, by, e) ==
  /\ p \in running
  /\ dispatch[p] = NoDispatch
  /\ dispatch' = [dispatch EXCEPT
       ![p] = [by |-> by, event |-> e, todo |-> SinksFor(p, e)]]

\* The sender's own sinks, under sinkMutex.
MapSinks(t) ==
  /\ Publishing(t, "mapping")
  /\ Lock(Home, t, current[t])
  /\ phase' = [phase EXCEPT ![t] = "dispatching"]
  /\ UNCHANGED <<cacheVars, connectorVars, current, mailbox, published,
                 misrouted>>

---------------------------------------------------------------------------
(* ReceiverTask::execute and the dispatch in either direction. *)

HandleIncoming(p) ==
  /\ mailbox[p] # <<>>
  /\ Lock(p, p, Head(mailbox[p]))
  /\ mailbox' = [mailbox EXCEPT ![p] = Tail(@)]
  /\ UNCHANGED <<cacheVars, connectorVars, phase, current, published,
                 misrouted>>

\* mapSinks calls handleNotification of the next sink.
CallSink(p) ==
  /\ dispatch[p] # NoDispatch
  /\ \E s \in dispatch[p].todo :
       /\ HandleNotification(p, s, dispatch[p].event)
       /\ dispatch' = [dispatch EXCEPT ![p].todo = @ \ {s}]
  /\ UNCHANGED <<cacheVars, phase, current, mailbox, published, misrouted>>

\* Mutant: the exception of a handler passes through mapSinks.
ServeEscapes(p) ==
  /\ CallHandler(p)
  /\ dispatch' = IF call'[p] = NoCall /\ call[p].next < HandlerCount[call[p].sink]
                 THEN [dispatch EXCEPT ![p].todo = {}] ELSE dispatch
  /\ UNCHANGED <<cacheVars, phase, current, mailbox, published, misrouted>>

Serve(p) ==
  /\ CallHandler(p)
  /\ UNCHANGED <<cacheVars, pathVars>>

\* Mutant: a publisher keeps sinkMutex.
UnlockOnlyReceiver(p) ==
  /\ p \in running
  /\ dispatch[p] # NoDispatch /\ dispatch[p].todo = {}
  /\ call[p] = NoCall /\ dispatch[p].by = p
  /\ dispatch' = [dispatch EXCEPT ![p] = NoDispatch]
  /\ UNCHANGED <<cacheVars, connectorVars, phase, current, mailbox, published,
                 misrouted>>

\* The end of mapSinks and the release of sinkMutex.
Unlock(p) ==
  /\ p \in running
  /\ dispatch[p] # NoDispatch /\ dispatch[p].todo = {}
  /\ call[p] = NoCall
  /\ dispatch' = [dispatch EXCEPT ![p] = NoDispatch]
  /\ phase' = [t \in Threads |-> IF t = dispatch[p].by THEN "idle" ELSE phase[t]]
  /\ UNCHANGED <<cacheVars, connectorVars, current, mailbox, published,
                 misrouted>>

ThreadStep(t) == LookUp(t) \/ Send(t) \/ MapSinks(t)

ProcessStep(p) == HandleIncoming(p) \/ CallSink(p) \/ Serve(p) \/ Unlock(p)

Next ==
  \/ \E t \in Threads : (\E s \in Scopes : Handle(t, s)) \/ ThreadStep(t) \/ SendThrows(t)
  \/ \E p \in Processes : ProcessStep(p)

Spec == Init /\ [][Next]_vars

\* A thread that is ready runs, handlers return, and sinkMutex, free for ever
\* in between a bounded number of dispatches, is granted.
FairSpec ==
  /\ Spec
  /\ \A t \in Threads : WF_vars(ThreadStep(t))
  /\ \A p \in Processes : WF_vars(ProcessStep(p))

---------------------------------------------------------------------------

HeardBy(l) == {s \in Scopes : SinkScope[l[1]] \in SuperScopesOf(s)}

Promised == INSTANCE EventBus WITH
  Events <- BoundedEvents,
  Listeners <- AllHandlers,
  Hears <- [l \in AllHandlers |-> HeardBy(l)],
  received <- handled

\* The bus keeps the promise of EventBus, even with groups that stand for
\* several scopes or were read through a dangling reference: handlers get
\* published events of their scope, once, in the publisher's order
\* (scopeDispatcher after the group, SELF_DISCARD before local dispatch).
ImplementsEventBus == Promised!Spec

First(s) == <<s, 1>>

Handed(s, e) == e \in Range(handled[First(s)])

\* A sink's turn for e is still to come, or being taken.
Coming(s, e) ==
  LET p == SinkProcess[s]
  IN \/ e \in Range(mailbox[p])
     \/ dispatch[p] # NoDispatch /\ dispatch[p].event = e /\ s \in dispatch[p].todo
     \/ call[p] # NoCall /\ call[p].sink = s /\ call[p].event = e
     \/ /\ p = Home /\ phase[e.publisher] = "mapping" /\ current[e.publisher] = e

\* Nothing is lost on the way: an event that went to the right groups has been
\* given to the first handler of every in-connector on a super-scope, or is on
\* its way there, or the process has exited.
NothingLost ==
  \A e \in published \ misrouted : \A s \in Sinks :
    Addressed(s, e) /\ SinkProcess[s] \in running /\ HandlerCount[s] > 0
    => Handed(s, e) \/ Coming(s, e)

\* The way ends, unless the process exits: a sink does not wait for ever for
\* what the daemon has passed on or a publisher of its process has sent.
\* (That it does not just vanish is NothingLost.)
WaitingEnds ==
  \A p \in Processes :
    LET Waiting == \E s \in Sinks, e \in published : SinkProcess[s] = p /\ Coming(s, e)
    IN Waiting ~> (~Waiting \/ p \notin running)
=============================================================================
