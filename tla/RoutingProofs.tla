---------------------------- MODULE RoutingProofs ----------------------------
(***************************************************************************)
(* Proofs about Routing for any threads, scopes, hash, limit, processes,   *)
(* in-connectors, handlers and error strategies.                           *)
(***************************************************************************)
EXTENDS Routing, GroupNameCacheProofs, SequenceTheorems

\* Promised!Earlier, by itself.
Before(e, f) == e.publisher = f.publisher => e.number < f.number

\* What a thread publishes is its own; it has been sent when it is mapped.
OwnEvents ==
  \A t \in Threads :
    /\ current[t].publisher = t
    /\ current[t].number \in 0..MaxEvents[t]
    /\ phase[t] # "idle" => current[t] \in BoundedEvents
    /\ phase[t] \in {"mapping", "dispatching"} => current[t] \in published

\* Numbers go up.
NumbersRise ==
  /\ published \subseteq BoundedEvents
  /\ \A e \in published :
       /\ e.number <= current[e.publisher].number
       /\ phase[e.publisher] = "looking up" => e.number < current[e.publisher].number

\* The daemon keeps the order, and sends nothing back.
MailInOrder ==
  /\ mailbox[Home] = <<>>
  /\ \A p \in Processes : \A i \in DOMAIN mailbox[p] :
       /\ mailbox[p][i] \in published
       /\ \A j \in DOMAIN mailbox[p] : i < j => Before(mailbox[p][i], mailbox[p][j])

\* What is dispatched was published, is addressed to whom it goes, and older
\* than the mail.
DispatchIsRight ==
  \A p \in Processes : dispatch[p] # NoDispatch =>
    /\ dispatch[p].event \in published
    /\ \A s \in dispatch[p].todo : SinkProcess[s] = p /\ Addressed(s, dispatch[p].event)
    /\ \A i \in DOMAIN mailbox[p] : Before(dispatch[p].event, mailbox[p][i])
    /\ dispatch[p].by \in Threads => p = Home /\ phase[dispatch[p].by] = "dispatching"
    /\ p = Home => \A t \in Threads : phase[t] = "mapping" =>
                     Before(dispatch[p].event, current[t])

\* A call belongs to a dispatch; its sink has had its turn, and the handlers
\* up to the next one, too.
CallIsRight ==
  \A p \in Processes : call[p] # NoCall =>
    /\ dispatch[p] # NoDispatch
    /\ call[p].event = dispatch[p].event
    /\ SinkProcess[call[p].sink] = p
    /\ Addressed(call[p].sink, call[p].event)
    /\ call[p].sink \notin dispatch[p].todo
    /\ call[p].next <= HandlerCount[call[p].sink]
    /\ call[p].next > 1 => Handed(call[p].sink, call[p].event)

\* What a handler has been called with is older than all it may still get.
HandledIsOld ==
  \A h \in AllHandlers : \A i \in DOMAIN handled[h] :
    LET p == SinkProcess[h[1]]
        e == handled[h][i]
    IN /\ e \in published
       /\ \A j \in DOMAIN mailbox[p] : Before(e, mailbox[p][j])
       /\ dispatch[p] # NoDispatch /\ h[1] \in dispatch[p].todo =>
            Before(e, dispatch[p].event)
       /\ p \in running /\ call[p] # NoCall /\ call[p].sink = h[1] /\ h[2] >= call[p].next =>
            Before(e, call[p].event)
       /\ p = Home => \A t \in Threads : phase[t] = "mapping" => Before(e, current[t])

IInv ==
  /\ CacheInv
  /\ TypeOK
  /\ OwnEvents
  /\ NumbersRise
  /\ MailInOrder
  /\ DispatchIsRight
  /\ CallIsRight
  /\ HandledIsOld

---------------------------------------------------------------------------
(* Lemmas about the operators. *)

\* A handler is a sink and an index.
LEMMA HandlerPair ==
  \A s \in Sinks : \A i \in 1..HandlerCount[s] : <<s, i>> \in AllHandlers
BY HandlersAssumption DEF AllHandlers

\* And has nothing else to it.
LEMMA HandlerParts ==
  \A h \in AllHandlers :
    h[1] \in Sinks /\ h[2] \in 1..HandlerCount[h[1]] /\ h = <<h[1], h[2]>>
BY HandlersAssumption DEF AllHandlers

\* The bound limits the numbers of events.
LEMMA BoundedType ==
  /\ BoundedEvents \subseteq Events
  /\ \A e \in Events :
       e \in BoundedEvents <=> e.publisher \in Threads /\ e.number \in 1..MaxEvents[e.publisher]
BY RoutingAssumption DEF BoundedEvents, Events

\* Dispatches are to sinks.
LEMMA SinksForType ==
  \A p, e : SinksFor(p, e) \in SUBSET Sinks
BY DEF SinksFor

\* A call is there, or the loop is over.
LEMMA LoopType ==
  ASSUME NEW s \in Sinks, NEW e \in Events, NEW b \in BOOLEAN, NEW i \in Nat \ {0}
  PROVE  Loop(s, e, b, i) \in Calls(Events) \cup {NoCall}
BY DEF Loop, Calls

---------------------------------------------------------------------------
(* The cache. *)

\* The cache is only touched by its own operations (GroupNameCache).
LEMMA CachePart == CacheInv /\ [Next]_vars => CacheInv'
<1> SUFFICES ASSUME CacheInv, [Next]_vars PROVE CacheInv'
  OBVIOUS
<1>1. CASE Next
  BY <1>1, FindStep, InsertStep, CopyStep, CacheUnchanged
  DEF Next, ThreadStep, ProcessStep, Handle, LookUp, Send, SendThrows, MapSinks,
      HandleIncoming, CallSink, Serve, Unlock
<1>2. CASE UNCHANGED vars
  BY <1>2, CacheUnchanged DEF vars
<1> QED
  BY <1>1, <1>2

---------------------------------------------------------------------------
(* The order of each thread's events. *)

\* The number of an event is one.
LEMMA NumberType ==
  ASSUME IInv, NEW t \in Threads
  PROVE  current[t].number \in Nat /\ MaxEvents[t] \in Nat
<1>1. MaxEvents[t] \in Nat
  BY RoutingAssumption
<1>2. current[t].number \in 0..MaxEvents[t]
  BY DEF IInv, OwnEvents
<1>3. \A n : n \in 0..MaxEvents[t] => n \in Nat
  BY <1>1
<1> QED
  BY <1>1, <1>2, <1>3

\* What Handle does, with a name for the new event.
LEMMA HandleEffect ==
  ASSUME IInv, NEW t \in Threads, NEW s \in Scopes, Handle(t, s)
  PROVE  \E e \in BoundedEvents :
           /\ e.publisher = t /\ e.number = current[t].number + 1
           /\ phase[t] = "idle"
           /\ current' = [current EXCEPT ![t] = e]
           /\ phase' = [phase EXCEPT ![t] = "looking up"]
           /\ UNCHANGED <<running, call, handled, blanks,
                          mailbox, dispatch, published, misrouted>>
<1> DEFINE e == [publisher |-> t, number |-> current[t].number + 1, scope |-> s]
<1>1. current[t].number \in Nat /\ current[t].number < MaxEvents[t] /\ MaxEvents[t] \in Nat
  BY NumberType DEF Handle
<1>2. e \in Events /\ e.publisher = t /\ e.number = current[t].number + 1
  BY <1>1 DEF Events
<1>3. e \in BoundedEvents
  BY <1>1, <1>2, BoundedType
<1>4. current' = [current EXCEPT ![t] = e]
  BY DEF Handle
<1> HIDE DEF e
<1> QED
  BY <1>2, <1>3, <1>4 DEF Handle, Publishing, connectorVars

\* Threads stay with their own events.
LEMMA OwnStep == IInv /\ [Next]_vars => OwnEvents'
<1> SUFFICES ASSUME IInv, [Next]_vars PROVE OwnEvents'
  OBVIOUS
<1>1. ASSUME NEW t \in Threads, NEW s \in Scopes, Handle(t, s) PROVE OwnEvents'
  <2>0. PICK e \in BoundedEvents :
        /\ e.publisher = t /\ e.number = current[t].number + 1
        /\ current' = [current EXCEPT ![t] = e]
        /\ phase' = [phase EXCEPT ![t] = "looking up"]
        /\ UNCHANGED published
    BY <1>1, HandleEffect
  <2>1. e.number \in 0..MaxEvents[t]
    <3>1. e.number \in 1..MaxEvents[t]
      BY <2>0, BoundedType
    <3>2. \A n : n \in 1..MaxEvents[t] => n \in 0..MaxEvents[t]
      BY NumberType
    <3> QED
      BY <3>1, <3>2
  <2> QED
    BY <2>0, <2>1 DEF IInv, OwnEvents, TypeOK
<1>2. ASSUME NEW t \in Threads, LookUp(t) PROVE OwnEvents'
  BY <1>2 DEF IInv, OwnEvents, LookUp, pathVars
<1>3. ASSUME NEW t \in Threads, Send(t) PROVE OwnEvents'
  BY <1>3 DEF IInv, OwnEvents, TypeOK, Send, Publishing
<1>4. ASSUME NEW t \in Threads, SendThrows(t) PROVE OwnEvents'
  BY <1>4 DEF IInv, OwnEvents, TypeOK, SendThrows
<1>5. ASSUME NEW t \in Threads, MapSinks(t) PROVE OwnEvents'
  BY <1>5 DEF IInv, OwnEvents, TypeOK, MapSinks, Publishing
<1>6. ASSUME NEW p \in Processes, HandleIncoming(p) PROVE OwnEvents'
  BY <1>6 DEF IInv, OwnEvents, HandleIncoming
<1>7. ASSUME NEW p \in Processes, CallSink(p) PROVE OwnEvents'
  BY <1>7 DEF IInv, OwnEvents, CallSink
<1>8. ASSUME NEW p \in Processes, Serve(p) PROVE OwnEvents'
  BY <1>8 DEF IInv, OwnEvents, Serve, pathVars
<1>9. ASSUME NEW p \in Processes, Unlock(p) PROVE OwnEvents'
  BY <1>9 DEF IInv, OwnEvents, Unlock
<1>10. CASE UNCHANGED vars
  BY <1>10 DEF IInv, OwnEvents, vars, pathVars
<1> QED
  BY <1>1, <1>2, <1>3, <1>4, <1>5, <1>6, <1>7, <1>8, <1>9, <1>10
  DEF Next, ThreadStep, ProcessStep

\* Numbers go up.
LEMMA NumberStep == IInv /\ [Next]_vars => NumbersRise'
<1> SUFFICES ASSUME IInv, [Next]_vars PROVE NumbersRise'
  OBVIOUS
<1>0. \A e \in published : e \in Events /\ e.publisher \in Threads /\ e.number \in Nat
  BY BoundedType DEF IInv, NumbersRise, Events
<1>1. ASSUME NEW t \in Threads, NEW s \in Scopes, Handle(t, s) PROVE NumbersRise'
  <2>0. PICK e \in BoundedEvents :
        /\ e.number = current[t].number + 1
        /\ current' = [current EXCEPT ![t] = e]
        /\ phase' = [phase EXCEPT ![t] = "looking up"]
        /\ UNCHANGED published
    BY <1>1, HandleEffect
  <2>1. current[t].number \in Nat
    BY NumberType
  <2>2. ASSUME NEW f \in published
        PROVE  /\ f.number <= current'[f.publisher].number
               /\ phase'[f.publisher] = "looking up" =>
                    f.number < current'[f.publisher].number
    <3>1. f.number \in Nat /\ f.publisher \in Threads
      BY <1>0
    <3>2. CASE f.publisher = t
      <4>1. current'[f.publisher] = e /\ e.number = current[t].number + 1
        BY <2>0, <3>2 DEF IInv, TypeOK
      <4>2. f.number <= current[t].number
        BY <3>2 DEF IInv, NumbersRise
      <4>3. \A m, n \in Nat : m <= n => m <= n + 1 /\ m < n + 1
        OBVIOUS
      <4>4. f.number <= e.number /\ f.number < e.number
        BY <2>1, <3>1, <4>1, <4>2, <4>3
      <4> QED
        BY <4>1, <4>4
    <3>3. CASE f.publisher # t
      BY <2>0, <3>1, <3>3 DEF IInv, NumbersRise, TypeOK
    <3> QED
      BY <3>2, <3>3
  <2> QED
    BY <2>0, <2>2 DEF IInv, NumbersRise
<1>2. ASSUME NEW t \in Threads, LookUp(t) PROVE NumbersRise'
  BY <1>2 DEF IInv, NumbersRise, LookUp, pathVars
<1>3. ASSUME NEW t \in Threads, Send(t) PROVE NumbersRise'
  <2>1. /\ published' = published \cup {current[t]}
        /\ phase' = [phase EXCEPT ![t] = "mapping"] /\ UNCHANGED current
        /\ phase[t] # "idle"
    BY <1>3 DEF Send, Publishing
  <2>2. current[t] \in BoundedEvents /\ current[t].publisher = t /\ current[t].number \in Nat
    BY <2>1, NumberType DEF IInv, OwnEvents
  <2>3. published' \subseteq BoundedEvents
    BY <2>1, <2>2 DEF IInv, NumbersRise
  <2>4. \A f \in published' : f.number <= current[f.publisher].number
    <3>1. current[t].number <= current[t].number
      BY <2>2
    <3>2. \A f \in published : f.number <= current[f.publisher].number
      BY DEF IInv, NumbersRise
    <3> QED
      BY <2>1, <2>2, <3>1, <3>2
  <2>5. \A f \in published' : f.publisher # t => f \in published
    BY <2>1, <2>2
  <2>6. phase'[t] = "mapping" /\ \A u \in Threads : u # t => phase'[u] = phase[u]
    BY <2>1 DEF IInv, TypeOK
  <2>7. \A f \in published' : phase'[f.publisher] = "looking up" =>
          f.number < current[f.publisher].number
    BY <1>0, <2>5, <2>6 DEF IInv, NumbersRise
  <2> QED
    BY <2>1, <2>3, <2>4, <2>7 DEF NumbersRise
<1>4. ASSUME NEW t \in Threads, SendThrows(t) PROVE NumbersRise'
  BY <1>0, <1>4 DEF IInv, NumbersRise, TypeOK, SendThrows
<1>5. ASSUME NEW t \in Threads, MapSinks(t) PROVE NumbersRise'
  BY <1>0, <1>5 DEF IInv, NumbersRise, TypeOK, MapSinks
<1>6. ASSUME NEW p \in Processes, HandleIncoming(p) PROVE NumbersRise'
  BY <1>6 DEF IInv, NumbersRise, HandleIncoming
<1>7. ASSUME NEW p \in Processes, CallSink(p) PROVE NumbersRise'
  BY <1>7 DEF IInv, NumbersRise, CallSink
<1>8. ASSUME NEW p \in Processes, Serve(p) PROVE NumbersRise'
  BY <1>8 DEF IInv, NumbersRise, Serve, pathVars
<1>9. ASSUME NEW p \in Processes, Unlock(p) PROVE NumbersRise'
  BY <1>0, <1>9 DEF IInv, NumbersRise, Unlock
<1>10. CASE UNCHANGED vars
  BY <1>10 DEF IInv, NumbersRise, vars, pathVars
<1> QED
  BY <1>1, <1>2, <1>3, <1>4, <1>5, <1>6, <1>7, <1>8, <1>9, <1>10
  DEF Next, ThreadStep, ProcessStep

---------------------------------------------------------------------------
(* Mail, dispatches, calls and what was handled. *)

OrderInv == MailInOrder /\ DispatchIsRight /\ CallIsRight /\ HandledIsOld

\* Steps of the threads that leave all this alone.
LEMMA OrderFrame ==
  ASSUME IInv,
         UNCHANGED <<running, call, handled, mailbox, dispatch, published>>,
         \A u \in Threads : phase'[u] = "mapping" => phase[u] = "mapping" /\ current'[u] = current[u],
         \A u \in Threads : phase[u] = "dispatching" => phase'[u] = "dispatching"
  PROVE  OrderInv'
<1>1. MailInOrder'
  BY DEF IInv, MailInOrder, Before
<1>2. DispatchIsRight'
  BY DEF IInv, DispatchIsRight, Before, Addressed, SuperScopesOf
<1>3. CallIsRight'
  BY DEF IInv, CallIsRight, Addressed, SuperScopesOf, Handed, First
<1>4. HandledIsOld'
  BY DEF IInv, HandledIsOld, Before
<1> QED
  BY <1>1, <1>2, <1>3, <1>4 DEF OrderInv

\* An event that is sent is later than all of its thread's that were.
LEMMA SentIsLast ==
  ASSUME IInv, NEW t \in Threads, phase[t] = "looking up"
  PROVE  \A e \in published : Before(e, current[t])
BY BoundedType DEF IInv, NumbersRise, OwnEvents, Before, Events

\* What Send does to the mail.
LEMMA SendEffect ==
  ASSUME IInv, NEW t \in Threads, Send(t)
  PROVE  /\ phase[t] = "looking up" /\ phase' = [phase EXCEPT ![t] = "mapping"]
         /\ published' = published \cup {current[t]}
         /\ UNCHANGED <<running, call, handled, current, dispatch>>
         /\ mailbox' \in [Processes -> Seq(Events)]
         /\ mailbox'[Home] = mailbox[Home]
         /\ \A p \in Processes : \A i \in DOMAIN mailbox'[p] :
              \/ /\ i \in DOMAIN mailbox[p] /\ mailbox'[p][i] = mailbox[p][i]
              \/ /\ mailbox'[p][i] = current[t]
                 /\ \A j \in DOMAIN mailbox[p] : j < i
                 /\ \A j \in DOMAIN mailbox'[p] : j <= i
<1>1. /\ phase[t] = "looking up" /\ phase' = [phase EXCEPT ![t] = "mapping"]
      /\ published' = published \cup {current[t]}
      /\ UNCHANGED <<running, call, handled, current, dispatch>>
  BY DEF Send, Publishing, connectorVars
<1>2. current[t] \in Events
  BY <1>1, BoundedType DEF IInv, OwnEvents
<1>3. PICK groups \in Readable(t) :
        mailbox' = [p \in Processes |-> IF p \in Receivers(groups)
                      THEN Append(mailbox[p], current[t]) ELSE mailbox[p]]
  BY DEF Send
<1>4. Home \notin Receivers(groups)
  BY DEF Receivers
<1>5. ASSUME NEW p \in Processes
      PROVE  /\ mailbox'[p] \in Seq(Events)
             /\ \A i \in DOMAIN mailbox'[p] :
                  \/ /\ i \in DOMAIN mailbox[p] /\ mailbox'[p][i] = mailbox[p][i]
                  \/ /\ mailbox'[p][i] = current[t]
                     /\ \A j \in DOMAIN mailbox[p] : j < i
                     /\ \A j \in DOMAIN mailbox'[p] : j <= i
  <2>1. mailbox[p] \in Seq(Events)
    BY DEF IInv, TypeOK
  <2>2. CASE mailbox'[p] = mailbox[p]
    BY <2>1, <2>2
  <2>3. CASE mailbox'[p] = Append(mailbox[p], current[t])
    BY <1>2, <2>1, <2>3, AppendProperties
  <2> QED
    BY <1>3, <2>2, <2>3
<1>6. mailbox' \in [Processes -> Seq(Events)] /\ mailbox'[Home] = mailbox[Home]
  BY <1>3, <1>4, <1>5, RoutingAssumption
<1> QED
  BY <1>1, <1>5, <1>6

\* What is sent comes after everything its thread has sent before.
LEMMA SendOrder ==
  ASSUME IInv, NEW t \in Threads, Send(t)
  PROVE  OrderInv'
<1>1. /\ phase[t] = "looking up" /\ phase' = [phase EXCEPT ![t] = "mapping"]
      /\ published' = published \cup {current[t]}
      /\ UNCHANGED <<running, call, handled, current, dispatch>>
      /\ mailbox' \in [Processes -> Seq(Events)]
      /\ mailbox'[Home] = mailbox[Home]
  BY SendEffect
<1>2. ASSUME NEW p \in Processes, NEW i \in DOMAIN mailbox'[p]
      PROVE  \/ /\ i \in DOMAIN mailbox[p] /\ mailbox'[p][i] = mailbox[p][i]
             \/ /\ mailbox'[p][i] = current[t]
                /\ \A j \in DOMAIN mailbox[p] : j < i
                /\ \A j \in DOMAIN mailbox'[p] : j <= i
  BY SendEffect
<1>3. \A e \in published : Before(e, current[t])
  BY <1>1, SentIsLast
<1>4. \A u \in Threads : phase'[u] = "mapping" => u = t \/ phase[u] = "mapping"
  BY <1>1 DEF IInv, TypeOK
<1>5. MailInOrder'
  <2>1. ASSUME NEW p \in Processes, NEW i \in DOMAIN mailbox'[p]
        PROVE  mailbox'[p][i] \in published'
    BY <1>1, <1>2 DEF IInv, MailInOrder
  <2>2. ASSUME NEW p \in Processes, NEW i \in DOMAIN mailbox'[p],
               NEW j \in DOMAIN mailbox'[p], i < j
        PROVE  Before(mailbox'[p][i], mailbox'[p][j])
    <3> mailbox'[p] \in Seq(Events)
      BY <1>1
    <3>1. i \in Nat /\ j \in Nat
      OBVIOUS
    <3>2. i \in DOMAIN mailbox[p] /\ mailbox'[p][i] = mailbox[p][i]
      BY <1>2, <2>2, <3>1
    <3>3. mailbox[p][i] \in published
      BY <3>2 DEF IInv, MailInOrder
    <3>4. CASE mailbox'[p][j] = current[t]
      BY <1>3, <3>2, <3>3, <3>4
    <3>5. CASE j \in DOMAIN mailbox[p] /\ mailbox'[p][j] = mailbox[p][j]
      BY <2>2, <3>2, <3>5 DEF IInv, MailInOrder
    <3> QED
      BY <1>2, <3>4, <3>5
  <2> QED
    BY <1>1, <2>1, <2>2 DEF IInv, MailInOrder, Before
<1>6. DispatchIsRight'
  <2>1. ASSUME NEW p \in Processes, dispatch[p] # NoDispatch
        PROVE  /\ \A i \in DOMAIN mailbox'[p] : Before(dispatch[p].event, mailbox'[p][i])
               /\ p = Home => \A u \in Threads : phase'[u] = "mapping" =>
                                Before(dispatch[p].event, current[u])
               /\ dispatch[p].by \in Threads =>
                    p = Home /\ phase'[dispatch[p].by] = "dispatching"
    <3>1. dispatch[p].event \in published
      BY <2>1 DEF IInv, DispatchIsRight
    <3>2. ASSUME NEW i \in DOMAIN mailbox'[p]
          PROVE  Before(dispatch[p].event, mailbox'[p][i])
      BY <1>2, <1>3, <2>1, <3>1 DEF IInv, DispatchIsRight
    <3>3. dispatch[p].by \in Threads =>
                    p = Home /\ phase'[dispatch[p].by] = "dispatching"
      BY <1>1, <2>1 DEF IInv, DispatchIsRight, TypeOK
    <3> QED
      BY <1>3, <1>4, <2>1, <3>1, <3>2, <3>3 DEF IInv, DispatchIsRight
  <2> QED
    BY <1>1, <2>1 DEF IInv, DispatchIsRight, Before, Addressed, SuperScopesOf
<1>7. CallIsRight'
  BY <1>1 DEF IInv, CallIsRight, Addressed, SuperScopesOf, Handed, First
<1>8. HandledIsOld'
  <2>1. ASSUME NEW h \in AllHandlers, NEW i \in DOMAIN handled[h]
        PROVE  /\ handled[h][i] \in published
               /\ \A j \in DOMAIN mailbox'[SinkProcess[h[1]]] :
                    Before(handled[h][i], mailbox'[SinkProcess[h[1]]][j])
               /\ SinkProcess[h[1]] = Home => \A u \in Threads : phase'[u] = "mapping" =>
                    Before(handled[h][i], current[u])
    <3>1. handled[h][i] \in published /\ SinkProcess[h[1]] \in Processes
      BY HandlerParts, RoutingAssumption DEF IInv, HandledIsOld
    <3> QED
      BY <1>2, <1>3, <1>4, <3>1 DEF IInv, HandledIsOld
  <2> QED
    BY <1>1, <2>1 DEF IInv, HandledIsOld, Before
<1> QED
  BY <1>5, <1>6, <1>7, <1>8 DEF OrderInv
\* What mapSinks of an event is about to do.
LEMMA MapSinksOrder ==
  ASSUME IInv, NEW t \in Threads, MapSinks(t)
  PROVE  OrderInv'
<1>1. /\ phase[t] = "mapping" /\ phase' = [phase EXCEPT ![t] = "dispatching"]
      /\ dispatch[Home] = NoDispatch
      /\ dispatch' = [dispatch EXCEPT
           ![Home] = [by |-> t, event |-> current[t], todo |-> SinksFor(Home, current[t])]]
      /\ UNCHANGED <<running, call, handled, current, mailbox, published>>
  BY DEF MapSinks, Publishing, Lock, connectorVars
<1>2. current[t] \in published /\ current[t].publisher = t
  BY <1>1 DEF IInv, OwnEvents
<1>3. /\ dispatch'[Home].event = current[t]
      /\ dispatch'[Home].todo = SinksFor(Home, current[t])
      /\ dispatch'[Home].by = t
      /\ \A p \in Processes : p # Home => dispatch'[p] = dispatch[p]
  BY <1>1, RoutingAssumption DEF IInv, TypeOK
<1>4. \A u \in Threads : phase'[u] = "mapping" => u # t /\ phase[u] = "mapping"
  BY <1>1 DEF IInv, TypeOK
<1>5. \A u \in Threads : phase[u] = "dispatching" => phase'[u] = "dispatching"
  BY <1>1 DEF IInv, TypeOK
<1>6. MailInOrder'
  BY <1>1 DEF IInv, MailInOrder, Before
<1>7. DispatchIsRight'
  <2>1. \A u \in Threads : phase'[u] = "mapping" => Before(current[t], current[u])
    BY <1>2, <1>4 DEF IInv, OwnEvents, Before
  <2>2. \A s \in SinksFor(Home, current[t]) : SinkProcess[s] = Home /\ Addressed(s, current[t])
    BY DEF SinksFor
  <2>3. DOMAIN mailbox[Home] = {}
    BY DEF IInv, MailInOrder
  <2>4. phase'[t] = "dispatching"
    BY <1>1 DEF IInv, TypeOK
  <2>5. ASSUME NEW p \in Processes, dispatch'[p] # NoDispatch
        PROVE  /\ dispatch'[p].event \in published
               /\ \A s \in dispatch'[p].todo :
                    SinkProcess[s] = p /\ Addressed(s, dispatch'[p].event)
               /\ \A i \in DOMAIN mailbox[p] : Before(dispatch'[p].event, mailbox[p][i])
               /\ dispatch'[p].by \in Threads =>
                    p = Home /\ phase'[dispatch'[p].by] = "dispatching"
               /\ p = Home => \A u \in Threads : phase'[u] = "mapping" =>
                                Before(dispatch'[p].event, current[u])
    <3>1. CASE p = Home
      BY <1>2, <1>3, <2>1, <2>2, <2>3, <2>4, <3>1
    <3>2. CASE p # Home
      BY <1>3, <1>5, <2>5, <3>2 DEF IInv, DispatchIsRight
    <3> QED
      BY <3>1, <3>2
  <2> QED
    BY <1>1, <2>5 DEF DispatchIsRight, Before, Addressed, SuperScopesOf
<1>8. CallIsRight'
  <2>1. call[Home] = NoCall
    BY <1>1, RoutingAssumption DEF IInv, CallIsRight
  <2> QED
    BY <1>1, <1>3, <2>1 DEF IInv, CallIsRight, Addressed, SuperScopesOf, Handed, First
<1>9. HandledIsOld'
  <2>1. ASSUME NEW h \in AllHandlers, NEW i \in DOMAIN handled[h],
               dispatch'[SinkProcess[h[1]]] # NoDispatch,
               h[1] \in dispatch'[SinkProcess[h[1]]].todo
        PROVE  Before(handled[h][i], dispatch'[SinkProcess[h[1]]].event)
    <3> SinkProcess[h[1]] \in Processes
      BY HandlerParts, RoutingAssumption
    <3>1. CASE SinkProcess[h[1]] = Home
      BY <1>1, <1>3, <3>1 DEF IInv, HandledIsOld
    <3>2. CASE SinkProcess[h[1]] # Home
      BY <1>3, <2>1, <3>2 DEF IInv, HandledIsOld
    <3> QED
      BY <3>1, <3>2
  <2> QED
    BY <1>1, <1>4, <2>1 DEF IInv, HandledIsOld, Before
<1> QED
  BY <1>6, <1>7, <1>8, <1>9 DEF OrderInv

\* What is left of the mail, and what is taken out.
LEMMA Taken ==
  ASSUME NEW m \in Seq(Events), m # <<>>
  PROVE  /\ Head(m) \in Events /\ Tail(m) \in Seq(Events)
         /\ 1 \in DOMAIN m /\ Head(m) = m[1]
         /\ \A i \in DOMAIN Tail(m) :
              i + 1 \in DOMAIN m /\ Tail(m)[i] = m[i + 1] /\ i \in Nat /\ 1 < i + 1
         /\ \A i \in DOMAIN m : i = 1 \/ \E j \in DOMAIN Tail(m) : i = j + 1
<1>1. Len(m) \in Nat \ {0} /\ DOMAIN m = 1..Len(m)
  BY EmptySeq
<1>2. /\ Head(m) \in Events /\ Tail(m) \in Seq(Events)
      /\ Len(Tail(m)) = Len(m) - 1
      /\ \A i \in 1..Len(Tail(m)) : Tail(m)[i] = m[i + 1]
      /\ Head(m) = m[1]
  BY HeadTailProperties
<1>3. DOMAIN Tail(m) = 1..(Len(m) - 1)
  BY <1>2
<1>4. \A i \in DOMAIN m : i # 1 => i - 1 \in DOMAIN Tail(m) /\ i = (i - 1) + 1
  BY <1>1, <1>3
<1> QED
  BY <1>1, <1>2, <1>3, <1>4

\* What HandleIncoming does to the mail and the dispatches.
LEMMA IncomingEffect ==
  ASSUME IInv, NEW p \in Processes, HandleIncoming(p)
  PROVE  /\ p # Home /\ p \in running /\ dispatch[p] = NoDispatch
         /\ mailbox[p] \in Seq(Events) /\ mailbox[p] # <<>>
         /\ mailbox'[p] = Tail(mailbox[p])
         /\ dispatch'[p] = [by |-> p, event |-> mailbox[p][1],
                            todo |-> SinksFor(p, mailbox[p][1])]
         /\ \A q \in Processes \ {p} : mailbox'[q] = mailbox[q] /\ dispatch'[q] = dispatch[q]
         /\ UNCHANGED <<running, call, handled, phase, current, published>>
<1>1. mailbox[p] \in Seq(Events) /\ mailbox[p] # <<>>
  BY DEF HandleIncoming, IInv, TypeOK
<1>2. Head(mailbox[p]) = mailbox[p][1]
  BY <1>1, Taken
<1> QED
  BY <1>1, <1>2 DEF HandleIncoming, Lock, IInv, TypeOK, MailInOrder, connectorVars

\* An event leaves the mail for a dispatch: it is older than the rest.
LEMMA IncomingOrder ==
  ASSUME IInv, NEW p \in Processes, HandleIncoming(p)
  PROVE  OrderInv'
<1> DEFINE e == mailbox[p][1]
<1>1. /\ p # Home /\ p \in running /\ dispatch[p] = NoDispatch
      /\ mailbox[p] \in Seq(Events) /\ mailbox[p] # <<>>
      /\ mailbox'[p] = Tail(mailbox[p])
      /\ dispatch'[p] = [by |-> p, event |-> e, todo |-> SinksFor(p, e)]
      /\ \A q \in Processes \ {p} : mailbox'[q] = mailbox[q] /\ dispatch'[q] = dispatch[q]
      /\ UNCHANGED <<running, call, handled, phase, current, published>>
  BY IncomingEffect
<1>2. /\ 1 \in DOMAIN mailbox[p]
      /\ \A i \in DOMAIN mailbox'[p] :
           i + 1 \in DOMAIN mailbox[p] /\ mailbox'[p][i] = mailbox[p][i + 1]
             /\ i \in Nat /\ 1 < i + 1
  BY <1>1, Taken
<1>3. e \in published
  BY <1>2 DEF IInv, MailInOrder
<1>4. \A i \in DOMAIN mailbox'[p] : Before(e, mailbox'[p][i])
  BY <1>2 DEF IInv, MailInOrder
<1>5. /\ dispatch'[p].event = e /\ dispatch'[p].todo = SinksFor(p, e) /\ dispatch'[p].by = p
  BY <1>1
<1> HIDE DEF e
<1>6. MailInOrder'
  <2>1. ASSUME NEW q \in Processes, NEW i \in DOMAIN mailbox'[q]
        PROVE  /\ mailbox'[q][i] \in published
               /\ \A j \in DOMAIN mailbox'[q] : i < j => Before(mailbox'[q][i], mailbox'[q][j])
    <3>1. CASE q # p
      BY <1>1, <3>1 DEF IInv, MailInOrder
    <3>2. CASE q = p
      <4>1. \A j \in DOMAIN mailbox'[p] : i < j => i + 1 < j + 1
        BY <1>2, <3>2
      <4> QED
        BY <1>2, <3>2, <4>1 DEF IInv, MailInOrder
    <3> QED
      BY <3>1, <3>2
  <2>2. mailbox'[Home] = <<>>
    BY <1>1, RoutingAssumption DEF IInv, MailInOrder
  <2> QED
    BY <1>1, <2>1, <2>2 DEF MailInOrder, Before
<1>7. DispatchIsRight'
  <2>1. p \notin Threads
    BY DispatchAssumption
  <2>2. \A s \in SinksFor(p, e) : SinkProcess[s] = p /\ Addressed(s, e)
    BY DEF SinksFor
  <2>3. ASSUME NEW q \in Processes, dispatch'[q] # NoDispatch
        PROVE  /\ dispatch'[q].event \in published
               /\ \A s \in dispatch'[q].todo :
                    SinkProcess[s] = q /\ Addressed(s, dispatch'[q].event)
               /\ \A i \in DOMAIN mailbox'[q] : Before(dispatch'[q].event, mailbox'[q][i])
               /\ dispatch'[q].by \in Threads =>
                    q = Home /\ phase[dispatch'[q].by] = "dispatching"
               /\ q = Home => \A u \in Threads : phase[u] = "mapping" =>
                                Before(dispatch'[q].event, current[u])
    <3>1. CASE q = p
      BY <1>1, <1>3, <1>4, <1>5, <2>1, <2>2, <3>1
    <3>2. CASE q # p
      BY <1>1, <2>3, <3>2 DEF IInv, DispatchIsRight
    <3> QED
      BY <3>1, <3>2
  <2> QED
    BY <1>1, <2>3 DEF DispatchIsRight, Before, Addressed, SuperScopesOf
<1>8. CallIsRight'
  <2>1. call[p] = NoCall
    BY <1>1 DEF IInv, CallIsRight
  <2> QED
    BY <1>1, <2>1 DEF IInv, CallIsRight, Addressed, SuperScopesOf, Handed, First
<1>9. HandledIsOld'
  <2>1. ASSUME NEW h \in AllHandlers, NEW i \in DOMAIN handled[h]
        PROVE  /\ \A j \in DOMAIN mailbox'[SinkProcess[h[1]]] :
                    Before(handled[h][i], mailbox'[SinkProcess[h[1]]][j])
               /\ dispatch'[SinkProcess[h[1]]] # NoDispatch
                    /\ h[1] \in dispatch'[SinkProcess[h[1]]].todo =>
                    Before(handled[h][i], dispatch'[SinkProcess[h[1]]].event)
    <3>1. SinkProcess[h[1]] \in Processes
      BY HandlerParts, RoutingAssumption
    <3>2. CASE SinkProcess[h[1]] = p
      <4>1. \A j \in DOMAIN mailbox[p] : Before(handled[h][i], mailbox[p][j])
        BY <3>2 DEF IInv, HandledIsOld
      <4>2. Before(handled[h][i], e)
        BY <1>2, <4>1 DEF e
      <4> QED
        BY <1>2, <1>5, <3>2, <4>1, <4>2
    <3>3. CASE SinkProcess[h[1]] # p
      BY <1>1, <3>1, <3>3 DEF IInv, HandledIsOld
    <3> QED
      BY <3>2, <3>3
  <2> QED
    BY <1>1, <2>1 DEF IInv, HandledIsOld, Before
<1> QED
  BY <1>6, <1>7, <1>8, <1>9 DEF OrderInv

\* A sink has its turn: its handlers are called, its conversion having failed
\* or not, or there are none, or the process exits.
LEMMA CallSinkEffect ==
  ASSUME IInv, NEW p \in Processes, CallSink(p)
  PROVE  \E s \in dispatch[p].todo :
           /\ p \in running /\ dispatch[p] # NoDispatch /\ call[p] = NoCall
           /\ dispatch' = [dispatch EXCEPT ![p].todo = @ \ {s}]
           /\ UNCHANGED <<handled, blanks, phase, current, mailbox, published>>
           /\ \/ /\ running' = running
                 /\ \E b \in BOOLEAN :
                      call' = [call EXCEPT ![p] = Loop(s, dispatch[p].event, b, 1)]
              \/ call' = call /\ running' = running \ {p}
<1>1. PICK s \in dispatch[p].todo :
        /\ HandleNotification(p, s, dispatch[p].event)
        /\ dispatch' = [dispatch EXCEPT ![p].todo = @ \ {s}]
  BY DEF CallSink
<1>2. /\ dispatch[p] # NoDispatch
      /\ UNCHANGED <<phase, current, mailbox, published>>
  BY DEF CallSink
<1>3. p \in running /\ call[p] = NoCall /\ UNCHANGED <<handled, blanks>>
  BY <1>1 DEF HandleNotification
<1>4. \/ /\ running' = running
         /\ \E b \in BOOLEAN :
              call' = [call EXCEPT ![p] = Loop(s, dispatch[p].event, b, 1)]
      \/ call' = call /\ running' = running \ {p}
  BY <1>1 DEF HandleNotification, Calling, ErrorExits
<1> QED
  BY <1>1, <1>2, <1>3, <1>4

\* A sink that has its turn has none left for the event.
LEMMA CallSinkOrder ==
  ASSUME IInv, NEW p \in Processes, CallSink(p)
  PROVE  OrderInv'
<1>1. PICK s \in dispatch[p].todo :
        /\ p \in running /\ dispatch[p] # NoDispatch /\ call[p] = NoCall
        /\ dispatch' = [dispatch EXCEPT ![p].todo = @ \ {s}]
        /\ UNCHANGED <<handled, blanks, phase, current, mailbox, published>>
        /\ \/ /\ running' = running
              /\ \E b \in BOOLEAN :
                   call' = [call EXCEPT ![p] = Loop(s, dispatch[p].event, b, 1)]
           \/ call' = call /\ running' = running \ {p}
  BY CallSinkEffect
<1>2. dispatch[p] \in Dispatches
  BY <1>1 DEF IInv, TypeOK
<1>3. /\ dispatch'[p].by = dispatch[p].by /\ dispatch'[p].event = dispatch[p].event
      /\ dispatch'[p].todo = dispatch[p].todo \ {s}
      /\ dispatch'[p] \in Dispatches
      /\ \A q \in Processes \ {p} : dispatch'[q] = dispatch[q]
  <2>1. /\ dispatch'[p] = [dispatch[p] EXCEPT !.todo = dispatch[p].todo \ {s}]
        /\ \A q \in Processes \ {p} : dispatch'[q] = dispatch[q]
    BY <1>1 DEF IInv, TypeOK
  <2> QED
    BY <1>2, <2>1 DEF Dispatches
<1>4. dispatch'[p] # NoDispatch
  BY <1>3, DispatchAssumption
<1>5. /\ SinkProcess[s] = p /\ Addressed(s, dispatch[p].event) /\ s \in Sinks
  BY <1>1, <1>2 DEF IInv, DispatchIsRight, Dispatches
<1>6. /\ \A q \in Processes \ {p} : call'[q] = call[q]
      /\ running' \subseteq running
      /\ call'[p] # NoCall => /\ call'[p].sink = s /\ call'[p].event = dispatch[p].event
                              /\ call'[p].next = 1 /\ 1 <= HandlerCount[s]
  <2>1. CASE call' = call /\ running' = running \ {p}
    BY <1>1, <2>1
  <2>2. ASSUME NEW b \in BOOLEAN, running' = running,
               call' = [call EXCEPT ![p] = Loop(s, dispatch[p].event, b, 1)]
        PROVE  <1>6!1 /\ <1>6!2 /\ <1>6!3
    <3>1. call'[p] = Loop(s, dispatch[p].event, b, 1)
            /\ \A q \in Processes \ {p} : call'[q] = call[q]
      BY <2>2 DEF IInv, TypeOK, ConnectorTypeOK
    <3> QED
      BY <2>2, <3>1 DEF Loop
  <2> QED
    BY <1>1, <2>1, <2>2
<1>7. MailInOrder'
  BY <1>1 DEF IInv, MailInOrder, Before
<1>8. DispatchIsRight'
  <2>1. ASSUME NEW q \in Processes, dispatch'[q] # NoDispatch
        PROVE  /\ dispatch[q] # NoDispatch
               /\ dispatch'[q].event = dispatch[q].event /\ dispatch'[q].by = dispatch[q].by
               /\ dispatch'[q].todo \subseteq dispatch[q].todo
    BY <1>1, <1>3, <2>1
  <2> QED
    BY <1>1, <2>1 DEF IInv, DispatchIsRight, Before, Addressed, SuperScopesOf
<1>9. CallIsRight'
  <2>1. ASSUME NEW q \in Processes, call'[q] # NoCall
        PROVE  /\ dispatch'[q] # NoDispatch
               /\ call'[q].event = dispatch'[q].event
               /\ SinkProcess[call'[q].sink] = q
               /\ Addressed(call'[q].sink, call'[q].event)
               /\ call'[q].sink \notin dispatch'[q].todo
               /\ call'[q].next <= HandlerCount[call'[q].sink]
               /\ call'[q].next > 1 => Handed(call'[q].sink, call'[q].event)
    <3>1. CASE q = p
      BY <1>3, <1>4, <1>5, <1>6, <2>1, <3>1
    <3>2. CASE q # p
      BY <1>3, <1>6, <2>1, <3>2 DEF IInv, CallIsRight
    <3> QED
      BY <3>1, <3>2
  <2> QED
    BY <1>1, <2>1 DEF CallIsRight, Addressed, SuperScopesOf, Handed, First
<1>10. HandledIsOld'
  <2>1. ASSUME NEW h \in AllHandlers, NEW i \in DOMAIN handled[h]
        PROVE  LET q == SinkProcess[h[1]]
               IN /\ dispatch'[q] # NoDispatch /\ h[1] \in dispatch'[q].todo =>
                       Before(handled[h][i], dispatch'[q].event)
                  /\ q \in running' /\ call'[q] # NoCall /\ call'[q].sink = h[1]
                       /\ h[2] >= call'[q].next => Before(handled[h][i], call'[q].event)
    <3> DEFINE q == SinkProcess[h[1]]
    <3>1. q \in Processes
      BY HandlerParts, RoutingAssumption
    <3>2. /\ dispatch[q] # NoDispatch /\ h[1] \in dispatch[q].todo =>
               Before(handled[h][i], dispatch[q].event)
          /\ q \in running /\ call[q] # NoCall /\ call[q].sink = h[1]
               /\ h[2] >= call[q].next => Before(handled[h][i], call[q].event)
      BY DEF IInv, HandledIsOld
    <3> HIDE DEF q
    <3>3. dispatch'[q] # NoDispatch /\ h[1] \in dispatch'[q].todo =>
            Before(handled[h][i], dispatch'[q].event)
      BY <1>1, <1>3, <3>1, <3>2
    <3>4. ASSUME q = p, call'[q] # NoCall, call'[q].sink = h[1]
          PROVE  Before(handled[h][i], call'[q].event)
      BY <1>1, <1>6, <3>2, <3>4
    <3>5. ASSUME q # p, q \in running', call'[q] # NoCall, call'[q].sink = h[1],
                 h[2] >= call'[q].next
          PROVE  Before(handled[h][i], call'[q].event)
      BY <1>6, <3>1, <3>2, <3>5
    <3> QED
      BY <3>3, <3>4, <3>5 DEF q
  <2> QED
    BY <1>1, <2>1 DEF IInv, HandledIsOld, Before
<1> QED
  BY <1>7, <1>8, <1>9, <1>10 DEF OrderInv

\* A handler is called: it has the event, and the next one is called, or the
\* exception ends the loop, or the process exits.
LEMMA ServeEffect ==
  ASSUME IInv, NEW p \in Processes, Serve(p)
  PROVE  /\ p \in running /\ call[p] # NoCall /\ call[p] \in Calls(Events)
         /\ UNCHANGED <<phase, current, mailbox, dispatch, published>>
         /\ <<call[p].sink, call[p].next>> \in AllHandlers
         /\ handled' \in [AllHandlers -> Seq(Events)]
         /\ handled'[<<call[p].sink, call[p].next>>] =
              Append(handled[<<call[p].sink, call[p].next>>], call[p].event)
         /\ \A h \in AllHandlers :
              h # <<call[p].sink, call[p].next>> => handled'[h] = handled[h]
         /\ running' \subseteq running
         /\ call' \in [Processes -> Calls(Events) \cup {NoCall}]
         /\ \A q \in Processes \ {p} : call'[q] = call[q]
         /\ \/ /\ call'[p] # NoCall
               /\ call'[p].sink = call[p].sink /\ call'[p].event = call[p].event
               /\ call'[p].next = call[p].next + 1
               /\ call'[p].next <= HandlerCount[call[p].sink]
            \/ call'[p] = NoCall
            \/ call'[p] = call[p] /\ p \notin running'
<1> DEFINE c == call[p]
           h == <<c.sink, c.next>>
<1>1. /\ p \in running /\ c # NoCall
      /\ handled' = [handled EXCEPT ![h] = Append(@, c.event)]
      /\ UNCHANGED <<phase, current, mailbox, dispatch, published>>
  BY DEF Serve, CallHandler, pathVars
<1>2. /\ c \in Calls(Events)
      /\ call \in [Processes -> Calls(Events) \cup {NoCall}]
      /\ handled \in [AllHandlers -> Seq(Events)]
  BY <1>1 DEF IInv, TypeOK, ConnectorTypeOK
<1>3. c.sink \in Sinks /\ c.event \in Events /\ c.blank \in BOOLEAN /\ c.next \in Nat \ {0}
  BY <1>2 DEF Calls
<1>4. HandlerCount[c.sink] \in Nat /\ c.next <= HandlerCount[c.sink]
  BY <1>1, <1>3, HandlersAssumption DEF IInv, CallIsRight
<1>5. h \in AllHandlers
  <2>1. c.next \in 1..HandlerCount[c.sink]
    BY <1>3, <1>4
  <2> QED
    BY <1>3, <2>1, HandlerPair
<1>6. /\ handled' \in [AllHandlers -> Seq(Events)]
      /\ handled'[h] = Append(handled[h], c.event)
      /\ \A g \in AllHandlers : g # h => handled'[g] = handled[g]
  <2>1. Append(handled[h], c.event) \in Seq(Events)
    BY <1>2, <1>3, <1>5, AppendProperties
  <2> HIDE DEF h, c
  <2> QED
    BY <1>1, <1>2, <1>5, <2>1
<1>7. \/ call' = [call EXCEPT ![p] = Loop(c.sink, c.event, c.blank, c.next + 1)]
           /\ running' = running
      \/ call' = [call EXCEPT ![p] = NoCall] /\ running' = running
      \/ call' = call /\ running' = running \ {p}
  BY DEF Serve, CallHandler, ErrorExits
<1> DEFINE l == Loop(c.sink, c.event, c.blank, c.next + 1)
<1>8. /\ l \in Calls(Events) \cup {NoCall}
      /\ l # NoCall => /\ l.sink = c.sink /\ l.event = c.event /\ l.next = c.next + 1
                       /\ l.next <= HandlerCount[c.sink]
  <2>1. c.next + 1 \in Nat \ {0}
    BY <1>3
  <2>2. l \in Calls(Events) \cup {NoCall}
    BY <1>3, <2>1, LoopType
  <2> QED
    BY <2>2 DEF Loop
<1> HIDE DEF l
<1>9. /\ running' \subseteq running
      /\ call' \in [Processes -> Calls(Events) \cup {NoCall}]
      /\ \A q \in Processes \ {p} : call'[q] = call[q]
      /\ call'[p] = l \/ call'[p] = NoCall \/ (call'[p] = c /\ p \notin running')
  BY <1>2, <1>7, <1>8 DEF l
<1>10. \/ /\ call'[p] # NoCall
          /\ call'[p].sink = c.sink /\ call'[p].event = c.event
          /\ call'[p].next = c.next + 1
          /\ call'[p].next <= HandlerCount[c.sink]
       \/ call'[p] = NoCall
       \/ call'[p] = c /\ p \notin running'
  BY <1>8, <1>9
<1> QED
  BY <1>1, <1>2, <1>5, <1>6, <1>9, <1>10

\* What a handler has been called with stays, and the new is at the end.
LEMMA ServedEvents ==
  ASSUME IInv, NEW p \in Processes, Serve(p), NEW h \in AllHandlers
  PROVE  /\ DOMAIN handled[h] \subseteq DOMAIN handled'[h]
         /\ \A i \in DOMAIN handled[h] : handled'[h][i] = handled[h][i]
         /\ \A i \in DOMAIN handled'[h] :
              \/ i \in DOMAIN handled[h]
              \/ h = <<call[p].sink, call[p].next>> /\ handled'[h][i] = call[p].event
         /\ h = <<call[p].sink, call[p].next>> => call[p].event \in Range(handled'[h])
<1> DEFINE g == <<call[p].sink, call[p].next>>
<1>1. handled[h] \in Seq(Events) /\ call[p].event \in Events
  <2>1. call[p] \in Calls(Events)
    BY ServeEffect
  <2> QED
    BY <2>1 DEF IInv, TypeOK, ConnectorTypeOK, Calls
<1>2. CASE h = g
  <2>1. handled'[h] = Append(handled[h], call[p].event)
    BY <1>2, ServeEffect
  <2>2. Len(handled[h]) \in Nat /\ DOMAIN handled[h] = 1..Len(handled[h])
    BY <1>1
  <2>3. DOMAIN handled'[h] = 1..(Len(handled[h]) + 1)
    BY <1>1, <2>1, AppendProperties
  <2>4. /\ \A i \in DOMAIN handled[h] : handled'[h][i] = handled[h][i]
        /\ handled'[h][Len(handled[h]) + 1] = call[p].event
    BY <1>1, <2>1, AppendProperties
  <2>5. DOMAIN handled[h] \subseteq DOMAIN handled'[h]
    BY <2>2, <2>3
  <2>6. \A i \in DOMAIN handled'[h] : i \in DOMAIN handled[h] \/ i = Len(handled[h]) + 1
    BY <2>2, <2>3
  <2>7. Len(handled[h]) + 1 \in DOMAIN handled'[h]
    BY <2>2, <2>3
  <2>8. call[p].event \in Range(handled'[h])
    BY <2>4, <2>7 DEF Range
  <2> QED
    BY <1>2, <2>4, <2>5, <2>6, <2>8
<1>3. CASE h # g
  <2>1. handled'[h] = handled[h]
    BY <1>3, ServeEffect
  <2> QED
    BY <1>3, <2>1
<1> QED
  BY <1>2, <1>3

\* The handlers of a call come after all that are called for the event.
LEMMA ServeOrder ==
  ASSUME IInv, NEW p \in Processes, Serve(p)
  PROVE  OrderInv'
<1> DEFINE c == call[p]
           g == <<c.sink, c.next>>
<1>1. /\ p \in running /\ c # NoCall /\ c \in Calls(Events)
      /\ UNCHANGED <<phase, current, mailbox, dispatch, published>>
      /\ g \in AllHandlers
      /\ running' \subseteq running
      /\ \A q \in Processes \ {p} : call'[q] = call[q]
  BY ServeEffect
<1>2. \/ /\ call'[p] # NoCall
         /\ call'[p].sink = c.sink /\ call'[p].event = c.event
         /\ call'[p].next = c.next + 1
         /\ call'[p].next <= HandlerCount[c.sink]
      \/ call'[p] = NoCall
      \/ call'[p] = c /\ p \notin running'
  BY ServeEffect
<1>3. /\ dispatch[p] # NoDispatch /\ c.event = dispatch[p].event
      /\ SinkProcess[c.sink] = p /\ Addressed(c.sink, c.event)
      /\ c.sink \notin dispatch[p].todo
      /\ c.next <= HandlerCount[c.sink]
      /\ c.next > 1 => Handed(c.sink, c.event)
  BY <1>1 DEF IInv, CallIsRight
<1>4. /\ c.event \in published
      /\ \A i \in DOMAIN mailbox[p] : Before(c.event, mailbox[p][i])
      /\ p = Home => \A u \in Threads : phase[u] = "mapping" => Before(c.event, current[u])
  BY <1>3 DEF IInv, DispatchIsRight
<1>5. c.sink \in Sinks /\ c.next \in Nat \ {0}
  BY <1>1 DEF Calls
<1>6. MailInOrder'
  BY <1>1 DEF IInv, MailInOrder, Before
<1>7. DispatchIsRight'
  BY <1>1 DEF IInv, DispatchIsRight, Before, Addressed, SuperScopesOf
<1>8. CallIsRight'
  <2>1. ASSUME NEW s \in Sinks, NEW e, Handed(s, e), HandlerCount[s] >= 1
        PROVE  e \in Range(handled'[First(s)])
    <3>1. First(s) \in AllHandlers
      <4>1. HandlerCount[s] \in Nat
        BY HandlersAssumption
      <4>2. 1 \in 1..HandlerCount[s]
        BY <2>1, <4>1
      <4> QED
        BY <4>2, HandlerPair DEF First
    <3> QED
      BY <2>1, <3>1, ServedEvents DEF Handed, Range
  <2>2. c.next = 1 => c.event \in Range(handled'[First(c.sink)])
    BY <1>1, ServedEvents DEF First
  <2>3. c.event \in Range(handled'[First(c.sink)])
    <3>1. HandlerCount[c.sink] >= 1
      BY <1>3, <1>5, HandlersAssumption
    <3>2. c.next = 1 \/ c.next > 1
      BY <1>5
    <3> QED
      BY <1>3, <1>5, <2>1, <2>2, <3>1, <3>2
  <2>4. ASSUME NEW q \in Processes, call'[q] # NoCall
        PROVE  /\ dispatch[q] # NoDispatch
               /\ call'[q].event = dispatch[q].event
               /\ SinkProcess[call'[q].sink] = q
               /\ Addressed(call'[q].sink, call'[q].event)
               /\ call'[q].sink \notin dispatch[q].todo
               /\ call'[q].next <= HandlerCount[call'[q].sink]
               /\ call'[q].next > 1 =>
                    call'[q].event \in Range(handled'[First(call'[q].sink)])
    <3>1. CASE q = p
      BY <1>2, <1>3, <2>3, <2>4, <3>1
    <3>2. CASE q # p
      <4>1. call'[q] = call[q] /\ call[q] # NoCall
        BY <1>1, <2>4, <3>2
      <4>2. call[q] \in Calls(Events)
        BY <4>1 DEF IInv, TypeOK, ConnectorTypeOK
      <4>3. call[q].sink \in Sinks /\ call[q].next \in Nat
        BY <4>2 DEF Calls
      <4>4. HandlerCount[call[q].sink] \in Nat
        BY <4>3, HandlersAssumption
      <4>5. /\ call[q].next <= HandlerCount[call[q].sink]
            /\ call[q].next > 1 => Handed(call[q].sink, call[q].event)
        BY <4>1 DEF IInv, CallIsRight
      <4>6. call[q].next > 1 => HandlerCount[call[q].sink] >= 1
        BY <4>3, <4>4, <4>5
      <4>7. call[q].next > 1 => call[q].event \in Range(handled'[First(call[q].sink)])
        BY <2>1, <4>3, <4>5, <4>6
      <4> QED
        BY <4>1, <4>7 DEF IInv, CallIsRight
    <3> QED
      BY <3>1, <3>2
  <2> QED
    BY <1>1, <2>4 DEF CallIsRight, Addressed, SuperScopesOf, Handed, First
<1>9. HandledIsOld'
  <2>1. ASSUME NEW h \in AllHandlers, NEW i \in DOMAIN handled'[h]
        PROVE  /\ handled'[h][i] \in published
               /\ \A j \in DOMAIN mailbox[SinkProcess[h[1]]] :
                    Before(handled'[h][i], mailbox[SinkProcess[h[1]]][j])
               /\ dispatch[SinkProcess[h[1]]] # NoDispatch
                    /\ h[1] \in dispatch[SinkProcess[h[1]]].todo =>
                    Before(handled'[h][i], dispatch[SinkProcess[h[1]]].event)
               /\ SinkProcess[h[1]] \in running' /\ call'[SinkProcess[h[1]]] # NoCall
                    /\ call'[SinkProcess[h[1]]].sink = h[1]
                    /\ h[2] >= call'[SinkProcess[h[1]]].next =>
                    Before(handled'[h][i], call'[SinkProcess[h[1]]].event)
               /\ SinkProcess[h[1]] = Home => \A u \in Threads : phase[u] = "mapping" =>
                    Before(handled'[h][i], current[u])
    <3> DEFINE q == SinkProcess[h[1]]
    <3>1. q \in Processes /\ h[2] \in Nat
      BY HandlerParts, RoutingAssumption, HandlersAssumption
    <3>2. CASE i \in DOMAIN handled[h]
      <4>1. handled'[h][i] = handled[h][i]
        BY <3>2, ServedEvents
      <4>2. ASSUME q \in running', call'[q] # NoCall, call'[q].sink = h[1],
                   h[2] >= call'[q].next
            PROVE  Before(handled'[h][i], call'[q].event)
        <5>1. CASE q # p
          BY <1>1, <3>1, <3>2, <4>1, <4>2, <5>1 DEF IInv, HandledIsOld
        <5>2. CASE q = p
          <6>1. /\ c.sink = h[1] /\ call'[p].event = c.event
                /\ call'[p].next = c.next + 1
            BY <1>2, <4>2, <5>2
          <6>2. h[2] >= c.next
            BY <1>5, <3>1, <4>2, <5>2, <6>1
          <6> QED
            BY <1>1, <3>2, <4>1, <5>2, <6>1, <6>2 DEF IInv, HandledIsOld
        <5> QED
          BY <5>1, <5>2
      <4> HIDE DEF c, g
      <4> QED
        BY <3>2, <4>1, <4>2 DEF IInv, HandledIsOld
    <3>3. CASE i \notin DOMAIN handled[h]
      <4>1. h = g /\ handled'[h][i] = c.event
        BY <3>3, ServedEvents
      <4>2. h[1] = c.sink /\ h[2] = c.next /\ q = p
        BY <1>3, <4>1
      <4>3. ~(p \in running' /\ call'[p] # NoCall /\ c.next >= call'[p].next)
        BY <1>2, <1>5
      <4> HIDE DEF c, g
      <4> QED
        BY <1>3, <1>4, <4>1, <4>2, <4>3
    <3> QED
      BY <3>2, <3>3
  <2> QED
    BY <1>1, <2>1 DEF HandledIsOld, Before
<1> QED
  BY <1>6, <1>7, <1>8, <1>9 DEF OrderInv

\* The end of a dispatch: only its own thread goes on.
LEMMA UnlockOrder ==
  ASSUME IInv, NEW p \in Processes, Unlock(p)
  PROVE  OrderInv'
<1>1. /\ call[p] = NoCall /\ dispatch[p] # NoDispatch
      /\ UNCHANGED <<running, call, handled, current, mailbox, published>>
  BY DEF Unlock, connectorVars
<1>2. /\ dispatch'[p] = NoDispatch
      /\ \A q \in Processes \ {p} : dispatch'[q] = dispatch[q]
      /\ \A u \in Threads : phase'[u] = IF u = dispatch[p].by THEN "idle" ELSE phase[u]
  BY DEF Unlock, IInv, TypeOK
<1>3. \A u \in Threads : phase'[u] = "mapping" => phase[u] = "mapping"
  BY <1>2
<1>4. \A q \in Processes : dispatch'[q] # NoDispatch =>
        q # p /\ dispatch'[q] = dispatch[q] /\ dispatch[q] # NoDispatch
  BY <1>2
<1>5. MailInOrder'
  BY <1>1 DEF IInv, MailInOrder, Before
<1>6. DispatchIsRight'
  <2>1. ASSUME NEW q \in Processes, q # p, dispatch[q] # NoDispatch,
               dispatch[q].by \in Threads
        PROVE  q = Home /\ phase'[dispatch[q].by] = "dispatching"
    <3>1. q = Home /\ phase[dispatch[q].by] = "dispatching"
      BY <2>1 DEF IInv, DispatchIsRight
    <3>2. dispatch[p].by \notin Threads
      BY <1>1, <2>1, <3>1 DEF IInv, DispatchIsRight
    <3> QED
      BY <1>2, <2>1, <3>1, <3>2
  <2> QED
    BY <1>1, <1>3, <1>4, <2>1 DEF IInv, DispatchIsRight, Before, Addressed, SuperScopesOf
<1>7. CallIsRight'
  BY <1>1, <1>2 DEF IInv, CallIsRight, Addressed, SuperScopesOf, Handed, First
<1>8. HandledIsOld'
  <2>1. \A h \in AllHandlers : SinkProcess[h[1]] \in Processes
    BY HandlerParts, RoutingAssumption
  <2> QED
    BY <1>1, <1>3, <1>4, <2>1 DEF IInv, HandledIsOld, Before
<1> QED
  BY <1>5, <1>6, <1>7, <1>8 DEF OrderInv

\* Every step keeps the order.
LEMMA OrderStep == IInv /\ [Next]_vars => OrderInv'
<1> SUFFICES ASSUME IInv, [Next]_vars PROVE OrderInv'
  OBVIOUS
<1>1. ASSUME NEW t \in Threads, NEW s \in Scopes, Handle(t, s) PROVE OrderInv'
  <2>1. PICK e \in BoundedEvents :
          /\ phase[t] = "idle"
          /\ current' = [current EXCEPT ![t] = e]
          /\ phase' = [phase EXCEPT ![t] = "looking up"]
          /\ UNCHANGED <<running, call, handled, blanks,
                         mailbox, dispatch, published, misrouted>>
    BY <1>1, HandleEffect
  <2>2. \A u \in Threads :
          /\ phase'[u] = "mapping" => phase[u] = "mapping" /\ current'[u] = current[u]
          /\ phase[u] = "dispatching" => phase'[u] = "dispatching"
    BY <2>1 DEF IInv, TypeOK
  <2> QED
    BY <2>1, <2>2, OrderFrame
<1>2. ASSUME NEW t \in Threads, LookUp(t) PROVE OrderInv'
  BY <1>2, OrderFrame DEF LookUp, pathVars, connectorVars
<1>3. ASSUME NEW t \in Threads, SendThrows(t) PROVE OrderInv'
  <2>1. /\ phase[t] = "looking up" /\ phase' = [phase EXCEPT ![t] = "idle"]
        /\ UNCHANGED <<running, call, handled, current, mailbox, dispatch, published>>
    BY <1>3 DEF SendThrows, Publishing, connectorVars
  <2>2. \A u \in Threads :
          /\ phase'[u] = "mapping" => phase[u] = "mapping" /\ current'[u] = current[u]
          /\ phase[u] = "dispatching" => phase'[u] = "dispatching"
    BY <2>1 DEF IInv, TypeOK
  <2> QED
    BY <2>1, <2>2, OrderFrame
<1>4. CASE UNCHANGED vars
  BY <1>4, OrderFrame DEF vars, pathVars, connectorVars
<1> QED
  BY <1>1, <1>2, <1>3, <1>4, SendOrder, MapSinksOrder, IncomingOrder, CallSinkOrder,
     ServeOrder, UnlockOrder
  DEF Next, ThreadStep, ProcessStep

---------------------------------------------------------------------------
(* Types, and the invariant. *)

\* Every step keeps the types.
LEMMA TypeStep == IInv /\ [Next]_vars => TypeOK'
<1> SUFFICES ASSUME IInv, [Next]_vars PROVE TypeOK'
  OBVIOUS
<1>0. CacheTypeOK'
  BY CachePart DEF IInv, CacheInv
<1>1. ASSUME NEW t \in Threads, NEW s \in Scopes, Handle(t, s) PROVE TypeOK'
  <2>1. PICK e \in BoundedEvents :
          /\ current' = [current EXCEPT ![t] = e]
          /\ phase' = [phase EXCEPT ![t] = "looking up"]
          /\ UNCHANGED <<running, call, handled, blanks,
                         mailbox, dispatch, published, misrouted>>
    BY <1>1, HandleEffect
  <2> QED
    BY <1>0, <2>1, BoundedType DEF IInv, TypeOK, ConnectorTypeOK
<1>2. ASSUME NEW t \in Threads, LookUp(t) PROVE TypeOK'
  BY <1>0, <1>2 DEF IInv, TypeOK, ConnectorTypeOK, LookUp, pathVars, connectorVars
<1>3. ASSUME NEW t \in Threads, Send(t) PROVE TypeOK'
  <2>1. mailbox' \in [Processes -> Seq(Events)]
    BY <1>3, SendEffect
  <2>2. PICK groups \in Readable(t) :
          misrouted' = IF groups = Range(GroupsOf(current[t].scope)) THEN misrouted
                       ELSE misrouted \cup {current[t]}
    BY <1>3 DEF Send
  <2>3. /\ phase[t] = "looking up" /\ phase' = [phase EXCEPT ![t] = "mapping"]
        /\ published' = published \cup {current[t]}
        /\ UNCHANGED <<running, call, handled, blanks, current, dispatch>>
    BY <1>3 DEF Send, Publishing, connectorVars
  <2>4. current[t] \in Events
    BY <2>3, BoundedType DEF IInv, OwnEvents
  <2>5. published' \subseteq Events /\ misrouted' \subseteq published'
    BY <2>2, <2>3, <2>4 DEF IInv, TypeOK
  <2> QED
    BY <1>0, <2>1, <2>3, <2>5 DEF IInv, TypeOK, ConnectorTypeOK
<1>4. ASSUME NEW t \in Threads, SendThrows(t) PROVE TypeOK'
  BY <1>0, <1>4 DEF IInv, TypeOK, ConnectorTypeOK, SendThrows, connectorVars
<1>5. ASSUME NEW t \in Threads, MapSinks(t) PROVE TypeOK'
  <2>1. /\ phase[t] = "mapping" /\ phase' = [phase EXCEPT ![t] = "dispatching"]
        /\ dispatch' = [dispatch EXCEPT
             ![Home] = [by |-> t, event |-> current[t], todo |-> SinksFor(Home, current[t])]]
        /\ UNCHANGED <<running, call, handled, blanks, current, mailbox, published, misrouted>>
    BY <1>5 DEF MapSinks, Publishing, Lock, connectorVars
  <2>2. current[t] \in Events
    BY <2>1, BoundedType DEF IInv, OwnEvents
  <2>3. dispatch' \in [Processes -> Dispatches \cup {NoDispatch}]
    <3>1. [by |-> t, event |-> current[t], todo |-> SinksFor(Home, current[t])] \in Dispatches
      BY <2>2, SinksForType DEF Dispatches
    <3> QED
      BY <2>1, <3>1 DEF IInv, TypeOK
  <2> QED
    BY <1>0, <2>1, <2>3 DEF IInv, TypeOK, ConnectorTypeOK
<1>6. ASSUME NEW p \in Processes, HandleIncoming(p) PROVE TypeOK'
  <2>1. /\ dispatch' = [dispatch EXCEPT ![p] = [by |-> p, event |-> Head(mailbox[p]),
                                               todo |-> SinksFor(p, Head(mailbox[p]))]]
        /\ mailbox' = [mailbox EXCEPT ![p] = Tail(@)]
        /\ mailbox[p] # <<>>
        /\ UNCHANGED <<running, call, handled, blanks, phase, current, published, misrouted>>
    BY <1>6 DEF HandleIncoming, Lock, connectorVars
  <2>2. mailbox \in [Processes -> Seq(Events)]
    BY DEF IInv, TypeOK
  <2>3. Head(mailbox[p]) \in Events /\ Tail(mailbox[p]) \in Seq(Events)
    BY <2>1, <2>2, Taken
  <2>4. mailbox' \in [Processes -> Seq(Events)]
    BY <2>1, <2>2, <2>3
  <2>5. dispatch' \in [Processes -> Dispatches \cup {NoDispatch}]
    <3>1. [by |-> p, event |-> Head(mailbox[p]), todo |-> SinksFor(p, Head(mailbox[p]))]
            \in Dispatches
      BY <2>3, SinksForType DEF Dispatches
    <3> QED
      BY <2>1, <3>1 DEF IInv, TypeOK
  <2> QED
    BY <1>0, <2>1, <2>4, <2>5 DEF IInv, TypeOK, ConnectorTypeOK
<1>7. ASSUME NEW p \in Processes, CallSink(p) PROVE TypeOK'
  <2>1. PICK s \in dispatch[p].todo :
          /\ dispatch[p] # NoDispatch
          /\ dispatch' = [dispatch EXCEPT ![p].todo = @ \ {s}]
          /\ UNCHANGED <<handled, blanks, phase, current, mailbox, published>>
          /\ \/ /\ running' = running
                /\ \E b \in BOOLEAN :
                     call' = [call EXCEPT ![p] = Loop(s, dispatch[p].event, b, 1)]
             \/ call' = call /\ running' = running \ {p}
    BY <1>7, CallSinkEffect
  <2>2. dispatch[p] \in Dispatches
    BY <2>1 DEF IInv, TypeOK
  <2>3. dispatch' \in [Processes -> Dispatches \cup {NoDispatch}]
    <3>1. [dispatch[p] EXCEPT !.todo = dispatch[p].todo \ {s}] \in Dispatches
      BY <2>2 DEF Dispatches
    <3> QED
      BY <2>1, <3>1 DEF IInv, TypeOK
  <2>4. \A b \in BOOLEAN : Loop(s, dispatch[p].event, b, 1) \in Calls(Events) \cup {NoCall}
    <3>1. s \in Sinks /\ dispatch[p].event \in Events
      BY <2>2 DEF Dispatches
    <3> QED
      BY <3>1, LoopType
  <2>5. call' \in [Processes -> Calls(Events) \cup {NoCall}] /\ running' \subseteq Processes
    BY <2>1, <2>4 DEF IInv, TypeOK, ConnectorTypeOK
  <2>6. misrouted' = misrouted
    BY <1>7 DEF CallSink
  <2> QED
    BY <1>0, <2>1, <2>3, <2>5, <2>6 DEF IInv, TypeOK, ConnectorTypeOK
<1>8. ASSUME NEW p \in Processes, Serve(p) PROVE TypeOK'
  <2>1. /\ UNCHANGED <<phase, current, mailbox, dispatch, published>>
        /\ <<call[p].sink, call[p].next>> \in AllHandlers
        /\ handled' \in [AllHandlers -> Seq(Events)]
        /\ running' \subseteq running
        /\ call' \in [Processes -> Calls(Events) \cup {NoCall}]
    BY <1>8, ServeEffect
  <2>2. /\ misrouted' = misrouted
        /\ blanks' \subseteq blanks \cup {<<call[p].sink, call[p].next>>}
    BY <1>8 DEF Serve, CallHandler, pathVars
  <2> QED
    BY <1>0, <2>1, <2>2 DEF IInv, TypeOK, ConnectorTypeOK
<1>9. ASSUME NEW p \in Processes, Unlock(p) PROVE TypeOK'
  BY <1>0, <1>9 DEF IInv, TypeOK, ConnectorTypeOK, Unlock, connectorVars
<1>10. CASE UNCHANGED vars
  BY <1>0, <1>10 DEF IInv, TypeOK, ConnectorTypeOK, vars, pathVars, connectorVars
<1> QED
  BY <1>1, <1>2, <1>3, <1>4, <1>5, <1>6, <1>7, <1>8, <1>9, <1>10
  DEF Next, ThreadStep, ProcessStep

\* At the start nothing has happened.
LEMMA InitHolds == Init => IInv
<1> SUFFICES ASSUME Init PROVE IInv
  OBVIOUS
<1>1. CacheInv
  BY CacheInitHolds DEF Init
<1>2. TypeOK
  BY <1>1 DEF Init, CacheInv, TypeOK, ConnectorTypeOK, ConnectorInit
<1>3. OwnEvents
  <2>1. \A t \in Threads : current[t] = NoneYet(t) /\ phase[t] = "idle"
    BY DEF Init
  <2>2. \A t \in Threads : 0 \in 0..MaxEvents[t]
    <3>1. \A t \in Threads : MaxEvents[t] \in Nat
      BY RoutingAssumption
    <3> QED
      BY <3>1
  <2>3. \A t \in Threads : current[t].publisher = t /\ current[t].number = 0
    <3>1. \A t : NoneYet(t).publisher = t /\ NoneYet(t).number = 0
      BY DEF NoneYet
    <3> QED
      BY <2>1, <3>1
  <2> QED
    BY <2>1, <2>2, <2>3 DEF OwnEvents
<1>4. NumbersRise /\ MailInOrder
  BY RoutingAssumption DEF Init, NumbersRise, MailInOrder
<1>5. DispatchIsRight /\ CallIsRight
  BY DEF Init, ConnectorInit, DispatchIsRight, CallIsRight
<1>6. HandledIsOld
  BY DEF Init, ConnectorInit, HandledIsOld
<1> QED
  BY <1>1, <1>2, <1>3, <1>4, <1>5, <1>6 DEF IInv

\* IInv is an invariant of the specification.
LEMMA Invariance == Spec => []IInv
<1>1. IInv /\ [Next]_vars => IInv'
  BY CachePart, TypeStep, OwnStep, NumberStep, OrderStep DEF IInv, OrderInv
<1> QED
  BY InitHolds, <1>1, PTL DEF Spec

---------------------------------------------------------------------------

\* Variables keep their types.
THEOREM TypeCorrect == Spec => []TypeOK
<1>1. IInv => TypeOK
  BY DEF IInv
<1> QED
  BY <1>1, Invariance, PTL

\* Every entry of the cache holds the groups of its scope, whatever threads
\* meet at an insertion.
THEOREM CacheRight == Spec => []CacheIsRight
<1>1. IInv => CacheIsRight
  BY DEF IInv, CacheInv
<1> QED
  BY <1>1, Invariance, PTL

\* The cache never holds more than one entry beyond the limit.
THEOREM CacheBounded == Spec => []CacheIsBounded
<1>1. IInv => CacheIsBounded
  BY DEF IInv, CacheInv
<1> QED
  BY <1>1, Invariance, PTL

\* With no more scopes than the cache holds, events go to the right groups.
THEOREM FewAreRight == Spec => []RightWhileFew
<1>1. IInv => RightWhileFew
  BY FewReadRight DEF IInv
<1> QED
  BY <1>1, Invariance, PTL

---------------------------------------------------------------------------
(* The promise of the bus. *)

\* Sending is publishing: the event is the last of its thread.
LEMMA SendPublishes ==
  ASSUME IInv, NEW t \in Threads, Send(t)
  PROVE  Promised!Next
<1>1. phase[t] = "looking up" /\ published' = published \cup {current[t]} /\ UNCHANGED handled
  BY SendEffect
<1>2. current[t] \in BoundedEvents
  BY <1>1 DEF IInv, OwnEvents
<1>3. \A f \in published : Promised!Earlier(f, current[t])
  BY <1>1, SentIsLast DEF Before, Promised!Earlier
<1>4. Promised!Publish(current[t])
  BY <1>1, <1>3 DEF Promised!Publish
<1> QED
  BY <1>2, <1>4 DEF Promised!Next

\* Calling a handler is receiving: it has not seen this event or a later one.
LEMMA ServeReceives ==
  ASSUME IInv, NEW p \in Processes, Serve(p)
  PROVE  Promised!Next
<1> DEFINE c == call[p]
           h == <<c.sink, c.next>>
<1>1. /\ p \in running /\ c # NoCall /\ c \in Calls(Events)
      /\ UNCHANGED <<dispatch, published>> /\ h \in AllHandlers
  BY ServeEffect
<1>2. handled' = [handled EXCEPT ![h] = Append(@, c.event)]
  BY DEF Serve, CallHandler
<1>3. /\ dispatch[p] # NoDispatch /\ c.event = dispatch[p].event
      /\ SinkProcess[c.sink] = p /\ Addressed(c.sink, c.event)
  BY <1>1 DEF IInv, CallIsRight
<1>4. c.event \in published
  BY <1>3 DEF IInv, DispatchIsRight
<1>5. c.event \in BoundedEvents /\ c.event.scope \in Scopes
  BY <1>4, BoundedType DEF IInv, NumbersRise, Events
<1>6. c.next \in Nat
  BY <1>1 DEF Calls
<1>7. \A i \in DOMAIN handled[h] : Promised!Earlier(handled[h][i], c.event)
  <2>1. h[1] = c.sink /\ h[2] = c.next /\ c.next >= c.next
    BY <1>6
  <2>2. ASSUME NEW i \in DOMAIN handled[h] PROVE Before(handled[h][i], c.event)
    <3> HIDE DEF h
    <3> QED
      BY <1>1, <1>3, <2>1 DEF IInv, HandledIsOld
  <2> QED
    BY <2>2 DEF Before, Promised!Earlier
<1>8. c.event.scope \in [l \in AllHandlers |-> HeardBy(l)][h]
  BY <1>1, <1>3, <1>5 DEF HeardBy, Addressed
<1> HIDE DEF h, c
<1>9. Promised!Receive(h, c.event)
  BY <1>1, <1>2, <1>4, <1>7, <1>8 DEF Promised!Receive
<1> QED
  BY <1>1, <1>5, <1>9 DEF Promised!Next

\* Every other step is a stutter of the promise.
LEMMA StepImplements == IInv /\ [Next]_vars => [Promised!Next]_<<published, handled>>
<1> SUFFICES ASSUME IInv, [Next]_vars
             PROVE  Promised!Next \/ UNCHANGED <<published, handled>>
  OBVIOUS
<1>1. ASSUME NEW t \in Threads, NEW s \in Scopes, Handle(t, s)
      PROVE  UNCHANGED <<published, handled>>
  BY <1>1 DEF Handle, connectorVars
<1>2. ASSUME NEW t \in Threads, LookUp(t) \/ SendThrows(t) \/ MapSinks(t)
      PROVE  UNCHANGED <<published, handled>>
  BY <1>2 DEF LookUp, SendThrows, MapSinks, connectorVars, pathVars
<1>3. ASSUME NEW p \in Processes, HandleIncoming(p) \/ CallSink(p) \/ Unlock(p)
      PROVE  UNCHANGED <<published, handled>>
  BY <1>3 DEF HandleIncoming, CallSink, HandleNotification, Unlock, connectorVars
<1>4. CASE UNCHANGED vars
  BY <1>4 DEF vars, connectorVars, pathVars
<1> QED
  BY <1>1, <1>2, <1>3, <1>4, SendPublishes, ServeReceives
  DEF Next, ThreadStep, ProcessStep

\* The bus keeps the promise of EventBus: handlers are called with published
\* events of their scope only, each once, in the order of the publisher, also
\* with groups that stand for several scopes or that were read through a
\* dangling reference.
THEOREM Implements == Spec => ImplementsEventBus
<1>1. Init => Promised!Init
  BY DEF Init, ConnectorInit, Promised!Init
<1> QED
  BY <1>1, StepImplements, Invariance, PTL DEF Spec, ImplementsEventBus, Promised!Spec

\* One more call: it may follow what the handler has seen already.
LEMMA BusKeeps ==
  ASSUME TypeOK, Promised!OnceInOrder, [Promised!Next]_<<published, handled>>
  PROVE  Promised!OnceInOrder'
<1> USE DEF Promised!OnceInOrder, Promised!Earlier
<1>1. ASSUME NEW e, Promised!Publish(e) PROVE Promised!OnceInOrder'
  BY <1>1 DEF Promised!Publish
<1>2. ASSUME NEW l \in AllHandlers, NEW e \in BoundedEvents, Promised!Receive(l, e)
      PROVE  Promised!OnceInOrder'
  <2>1. handled \in [AllHandlers -> Seq(Events)] /\ e \in Events
    BY BoundedType DEF TypeOK, ConnectorTypeOK
  <2>2. /\ UNCHANGED published
        /\ \A k \in AllHandlers : handled'[k] = IF k = l THEN Append(handled[l], e) ELSE handled[k]
    BY <1>2, <2>1 DEF Promised!Receive
  <2>3. ASSUME NEW i \in DOMAIN handled'[l]
        PROVE  \/ i \in DOMAIN handled[l] /\ handled'[l][i] = handled[l][i]
               \/ i = Len(handled[l]) + 1 /\ handled'[l][i] = e
    <3>1. handled'[l] = Append(handled[l], e) /\ handled[l] \in Seq(Events)
      BY <2>1, <2>2
    <3>2. /\ Len(handled'[l]) = Len(handled[l]) + 1 /\ handled'[l] \in Seq(Events)
          /\ handled'[l][Len(handled[l]) + 1] = e
          /\ \A k \in 1..Len(handled[l]) : handled'[l][k] = handled[l][k]
      BY <2>1, <3>1, AppendProperties
    <3>3. /\ DOMAIN handled[l] = 1..Len(handled[l]) /\ Len(handled[l]) \in Nat
          /\ DOMAIN handled'[l] = 1..(Len(handled[l]) + 1)
      BY <3>1, <3>2, LenProperties
    <3> QED
      BY <3>2, <3>3
  <2>4. ASSUME NEW i \in DOMAIN handled'[l], NEW j \in DOMAIN handled'[l], j < i
        PROVE  j \in DOMAIN handled[l] /\ handled'[l][j] = handled[l][j]
    BY <2>1, <2>3, <2>4, LenProperties
  <2> QED
    BY <1>2, <2>2, <2>3, <2>4 DEF Promised!Receive
<1>3. CASE UNCHANGED <<published, handled>>
  BY <1>3
<1> QED
  BY <1>1, <1>2, <1>3 DEF Promised!Next

\* A handler of an in-connector, anywhere, is called with published events of
\* its scope only, never twice with one, and in the order of each publisher.
THEOREM OnceAndInOrder == Spec => []Promised!OnceInOrder
<1>1. Init => Promised!OnceInOrder
  BY DEF Init, ConnectorInit, Promised!OnceInOrder
<1>2. IInv /\ Promised!OnceInOrder /\ [Next]_vars => Promised!OnceInOrder'
  BY StepImplements, BusKeeps DEF IInv
<1> QED
  BY <1>1, <1>2, Invariance, PTL DEF Spec

---------------------------------------------------------------------------
(* Nothing is lost. *)

\* What a handler has been called with is not taken back.
LEMMA HandedStays ==
  ASSUME IInv, [Next]_vars, NEW s \in Sinks, HandlerCount[s] > 0, NEW e, Handed(s, e)
  PROVE  Handed(s, e)'
<1>1. First(s) \in AllHandlers
  <2>1. HandlerCount[s] \in Nat
    BY HandlersAssumption
  <2>2. 1 \in 1..HandlerCount[s]
    BY <2>1
  <2> QED
    BY <2>2, HandlerPair DEF First
<1>2. ASSUME NEW p \in Processes, Serve(p)
      PROVE  e \in Range(handled'[First(s)])
  BY <1>1, <1>2, ServedEvents DEF Handed, Range
<1>3. (\A p \in Processes : ~Serve(p)) => UNCHANGED handled
  BY DEF Next, ThreadStep, ProcessStep, Handle, LookUp, SendThrows, Send, MapSinks,
         HandleIncoming, CallSink, HandleNotification, Unlock, vars, connectorVars, pathVars
<1> QED
  BY <1>2, <1>3 DEF Handed, First

\* An event that has been sent keeps its way to a sink.
LEMMA KeepsComing ==
  ASSUME IInv, [Next]_vars,
         NEW e \in published, NEW s \in Sinks, Addressed(s, e),
         SinkProcess[s] \in running', HandlerCount[s] > 0, Coming(s, e)
  PROVE  Handed(s, e)' \/ Coming(s, e)'
<1> DEFINE p == SinkProcess[s]
<1>0. p \in Processes /\ HandlerCount[s] \in Nat
  BY RoutingAssumption, HandlersAssumption
<1>1. e \in BoundedEvents /\ e \in Events /\ e.publisher \in Threads
  BY BoundedType DEF IInv, NumbersRise
<1>2. \/ e \in Range(mailbox[p])
      \/ dispatch[p] # NoDispatch /\ dispatch[p].event = e /\ s \in dispatch[p].todo
      \/ call[p] # NoCall /\ call[p].sink = s /\ call[p].event = e
      \/ p = Home /\ phase[e.publisher] = "mapping" /\ current[e.publisher] = e
  BY DEF Coming
<1>3. \/ e \in Range(mailbox'[p])
      \/ dispatch'[p] # NoDispatch /\ dispatch'[p].event = e /\ s \in dispatch'[p].todo
      \/ call'[p] # NoCall /\ call'[p].sink = s /\ call'[p].event = e
      \/ p = Home /\ phase'[e.publisher] = "mapping" /\ current'[e.publisher] = e
      => Coming(s, e)'
  BY DEF Coming
<1> HIDE DEF p
\* Where it has been is not touched.
<1>4. ASSUME mailbox'[p] = mailbox[p], dispatch'[p] = dispatch[p], call'[p] = call[p],
             \A u \in Threads : phase[u] = "mapping" =>
               phase'[u] = "mapping" /\ current'[u] = current[u]
      PROVE  Coming(s, e)'
  BY <1>1, <1>2, <1>3, <1>4
<1>5. ASSUME NEW t \in Threads, NEW x \in Scopes, Handle(t, x) PROVE Coming(s, e)'
  <2>1. PICK f \in BoundedEvents :
          /\ phase[t] = "idle"
          /\ current' = [current EXCEPT ![t] = f]
          /\ phase' = [phase EXCEPT ![t] = "looking up"]
          /\ UNCHANGED <<running, call, handled, blanks,
                         mailbox, dispatch, published, misrouted>>
    BY <1>5, HandleEffect
  <2>2. \A u \in Threads : phase[u] = "mapping" =>
          phase'[u] = "mapping" /\ current'[u] = current[u]
    BY <2>1 DEF IInv, TypeOK
  <2> QED
    BY <1>4, <2>1, <2>2
<1>6. ASSUME NEW t \in Threads, LookUp(t) PROVE Coming(s, e)'
  BY <1>4, <1>6 DEF LookUp, pathVars, connectorVars
<1>7. ASSUME NEW t \in Threads, Send(t) PROVE Coming(s, e)'
  <2>1. /\ phase[t] = "looking up" /\ phase' = [phase EXCEPT ![t] = "mapping"]
        /\ UNCHANGED <<call, current, dispatch>>
    BY <1>7, SendEffect
  <2>2. mailbox'[p] = mailbox[p] \/ mailbox'[p] = Append(mailbox[p], current[t])
    BY <1>0, <1>7 DEF Send
  <2>3. mailbox[p] \in Seq(Events) /\ current[t] \in Events
    BY <1>0, <2>1, BoundedType DEF IInv, TypeOK, OwnEvents
  <2>4. e \in Range(mailbox[p]) => e \in Range(mailbox'[p])
    <3>1. CASE mailbox'[p] = Append(mailbox[p], current[t])
      <4>1. \A i \in DOMAIN mailbox[p] :
              i \in DOMAIN mailbox'[p] /\ mailbox'[p][i] = mailbox[p][i]
        BY <2>3, <3>1, AppendProperties
      <4> QED
        BY <4>1 DEF Range
    <3> QED
      BY <2>2, <3>1
  <2>5. \A u \in Threads : phase[u] = "mapping" => phase'[u] = "mapping"
    BY <2>1 DEF IInv, TypeOK
  <2> QED
    BY <1>1, <1>2, <1>3, <2>1, <2>4, <2>5
<1>8. ASSUME NEW t \in Threads, SendThrows(t) PROVE Coming(s, e)'
  <2>1. /\ phase[t] = "looking up" /\ phase' = [phase EXCEPT ![t] = "idle"]
        /\ UNCHANGED <<call, current, mailbox, dispatch>>
    BY <1>8 DEF SendThrows, Publishing, connectorVars
  <2>2. \A u \in Threads : phase[u] = "mapping" => phase'[u] = "mapping"
    BY <2>1 DEF IInv, TypeOK
  <2> QED
    BY <1>4, <2>1, <2>2
<1>9. ASSUME NEW t \in Threads, MapSinks(t) PROVE Coming(s, e)'
  <2>1. /\ phase[t] = "mapping" /\ phase' = [phase EXCEPT ![t] = "dispatching"]
        /\ dispatch[Home] = NoDispatch
        /\ dispatch' = [dispatch EXCEPT
             ![Home] = [by |-> t, event |-> current[t], todo |-> SinksFor(Home, current[t])]]
        /\ UNCHANGED <<call, current, mailbox>>
    BY <1>9 DEF MapSinks, Publishing, Lock, connectorVars
  <2>2. CASE p = Home
    <3>1. /\ dispatch'[p].event = current[t] /\ dispatch'[p].todo = SinksFor(Home, current[t])
          /\ dispatch'[p] \in Dispatches
      <4>1. dispatch'[p] = [by |-> t, event |-> current[t], todo |-> SinksFor(Home, current[t])]
        BY <2>1, <2>2, RoutingAssumption DEF IInv, TypeOK
      <4>2. current[t] \in Events
        BY <2>1, BoundedType DEF IInv, OwnEvents
      <4> QED
        BY <4>1, <4>2, SinksForType DEF Dispatches
    <3>2. dispatch'[p] # NoDispatch
      BY <3>1, DispatchAssumption
    <3>3. CASE current[e.publisher] = e /\ e.publisher = t
      <4>1. s \in SinksFor(Home, e)
        BY <2>2 DEF SinksFor, p
      <4> QED
        BY <1>3, <3>1, <3>2, <3>3, <4>1
    <3>4. CASE e.publisher # t
      <4>1. phase'[e.publisher] = phase[e.publisher]
        BY <1>1, <2>1, <3>4 DEF IInv, TypeOK
      <4> QED
        BY <1>2, <1>3, <2>1, <2>2, <4>1
    <3> QED
      BY <1>2, <1>3, <2>1, <2>2, <3>3, <3>4
  <2>3. CASE p # Home
    <3>1. dispatch'[p] = dispatch[p]
      BY <1>0, <2>1, <2>3 DEF IInv, TypeOK
    <3> QED
      BY <1>2, <1>3, <2>1, <2>3, <3>1
  <2> QED
    BY <2>2, <2>3
<1>10. ASSUME NEW q \in Processes, HandleIncoming(q) PROVE Coming(s, e)'
  <2>1. /\ q # Home /\ dispatch[q] = NoDispatch
        /\ mailbox[q] \in Seq(Events) /\ mailbox[q] # <<>>
        /\ mailbox'[q] = Tail(mailbox[q])
        /\ dispatch'[q] = [by |-> q, event |-> mailbox[q][1],
                           todo |-> SinksFor(q, mailbox[q][1])]
        /\ \A r \in Processes \ {q} : mailbox'[r] = mailbox[r] /\ dispatch'[r] = dispatch[r]
        /\ UNCHANGED <<running, call, handled, phase, current, published>>
    BY <1>10, IncomingEffect
  <2>2. CASE p # q
    BY <1>0, <1>4, <2>1, <2>2
  <2>3. CASE p = q
    <3>1. /\ 1 \in DOMAIN mailbox[q]
          /\ \A i \in DOMAIN Tail(mailbox[q]) : Tail(mailbox[q])[i] = mailbox[q][i + 1]
          /\ \A i \in DOMAIN mailbox[q] : i = 1 \/ \E j \in DOMAIN Tail(mailbox[q]) : i = j + 1
          /\ mailbox[q][1] \in Events
      BY <2>1, Taken
    <3>2. dispatch'[q] \in Dispatches
      BY <2>1, <3>1, SinksForType DEF Dispatches
    <3>3. /\ dispatch'[q] # NoDispatch /\ dispatch'[q].event = mailbox[q][1]
          /\ dispatch'[q].todo = SinksFor(q, mailbox[q][1])
      BY <2>1, <3>2, DispatchAssumption
    <3>4. CASE e = mailbox[q][1]
      <4>1. s \in SinksFor(q, e)
        BY <2>3 DEF SinksFor, p
      <4> QED
        BY <1>3, <2>3, <3>3, <3>4, <4>1
    <3>5. CASE e \in Range(mailbox[q]) /\ e # mailbox[q][1]
      <4>1. PICK i \in DOMAIN mailbox[q] : mailbox[q][i] = e
        BY <3>5 DEF Range
      <4>2. PICK j \in DOMAIN Tail(mailbox[q]) : i = j + 1
        BY <3>1, <3>5, <4>1
      <4>3. e \in Range(mailbox'[q])
        BY <2>1, <3>1, <4>1, <4>2 DEF Range
      <4> QED
        BY <1>3, <2>3, <4>3
    <3> QED
      BY <1>2, <1>3, <2>1, <2>3, <3>4, <3>5
  <2> QED
    BY <2>2, <2>3
<1>11. ASSUME NEW q \in Processes, CallSink(q) PROVE Coming(s, e)'
  <2>1. PICK r \in dispatch[q].todo :
          /\ q \in running /\ dispatch[q] # NoDispatch /\ call[q] = NoCall
          /\ dispatch' = [dispatch EXCEPT ![q].todo = @ \ {r}]
          /\ UNCHANGED <<handled, blanks, phase, current, mailbox, published>>
          /\ \/ /\ running' = running
                /\ \E b \in BOOLEAN :
                     call' = [call EXCEPT ![q] = Loop(r, dispatch[q].event, b, 1)]
             \/ call' = call /\ running' = running \ {q}
    BY <1>11, CallSinkEffect
  <2>2. dispatch[q] \in Dispatches
    BY <2>1 DEF IInv, TypeOK
  <2>3. /\ dispatch'[q] = [dispatch[q] EXCEPT !.todo = dispatch[q].todo \ {r}]
        /\ \A x \in Processes \ {q} : dispatch'[x] = dispatch[x] /\ call'[x] = call[x]
    BY <2>1 DEF IInv, TypeOK, ConnectorTypeOK
  <2>4. CASE p # q
    BY <1>0, <1>4, <2>1, <2>3, <2>4
  <2>5. CASE p = q
    <3>1. /\ dispatch'[q].event = dispatch[q].event
          /\ dispatch'[q].todo = dispatch[q].todo \ {r}
          /\ dispatch'[q] \in Dispatches
          /\ dispatch[q].event \in Events
      BY <2>2, <2>3 DEF Dispatches
    <3>2. dispatch'[q] # NoDispatch
      BY <3>1, DispatchAssumption
    <3>3. CASE s = r /\ dispatch[q].event = e
      <4>1. q \in running'
        BY <2>5 DEF p
      <4>2. PICK b \in BOOLEAN :
              call' = [call EXCEPT ![q] = Loop(r, dispatch[q].event, b, 1)]
        BY <2>1, <4>1
      <4>3. call'[q] = Loop(s, e, b, 1)
        BY <3>3, <4>2 DEF IInv, TypeOK, ConnectorTypeOK
      <4>4. 1 <= HandlerCount[s]
        BY <1>0
      <4>5. Loop(s, e, b, 1) = [sink |-> s, event |-> e, blank |-> b, next |-> 1]
        BY <4>4 DEF Loop
      <4>6. call'[q] \in Calls(Events) /\ call'[q].sink = s /\ call'[q].event = e
        BY <1>1, <4>3, <4>5 DEF Calls
      <4>7. call'[q] # NoCall
        BY <4>6, DispatchAssumption
      <4> QED
        BY <1>3, <2>5, <4>6, <4>7
    <3> QED
      BY <1>2, <1>3, <2>1, <2>5, <3>1, <3>2, <3>3
  <2> QED
    BY <2>4, <2>5
<1>12. ASSUME NEW q \in Processes, Serve(q) PROVE Handed(s, e)' \/ Coming(s, e)'
  <2>1. /\ call[q] # NoCall /\ call[q] \in Calls(Events)
        /\ UNCHANGED <<phase, current, mailbox, dispatch, published>>
        /\ <<call[q].sink, call[q].next>> \in AllHandlers
        /\ \A r \in Processes \ {q} : call'[r] = call[r]
    BY <1>12, ServeEffect
  <2>2. CASE p = q /\ call[q].sink = s /\ call[q].event = e
    <3>1. call[q].next \in Nat \ {0}
      BY <2>1 DEF Calls
    <3>2. CASE call[q].next = 1
      <4>1. <<call[q].sink, call[q].next>> = First(s)
        BY <2>2, <3>2 DEF First
      <4>2. e \in Range(handled'[First(s)])
        BY <1>12, <2>1, <2>2, <4>1, ServedEvents
      <4> QED
        BY <4>2 DEF Handed, First
    <3>3. CASE call[q].next > 1
      <4>1. Handed(s, e)
        BY <2>1, <2>2, <3>3 DEF IInv, CallIsRight
      <4> QED
        BY <4>1, HandedStays
    <3> QED
      BY <3>1, <3>2, <3>3
  <2>3. CASE p # q
    BY <1>0, <1>4, <2>1, <2>3
  <2> QED
    BY <1>2, <1>3, <2>1, <2>2, <2>3
<1>13. ASSUME NEW q \in Processes, Unlock(q) PROVE Coming(s, e)'
  <2>1. /\ call[q] = NoCall /\ dispatch[q] # NoDispatch /\ dispatch[q].todo = {}
        /\ UNCHANGED <<call, current, mailbox>>
    BY <1>13 DEF Unlock, connectorVars
  <2>2. /\ \A r \in Processes \ {q} : dispatch'[r] = dispatch[r]
        /\ \A u \in Threads : phase'[u] = IF u = dispatch[q].by THEN "idle" ELSE phase[u]
    BY <1>13 DEF Unlock, IInv, TypeOK
  <2>3. \A u \in Threads : phase[u] = "mapping" => phase'[u] = "mapping"
    BY <2>1, <2>2 DEF IInv, DispatchIsRight
  <2>4. dispatch[p] # NoDispatch /\ s \in dispatch[p].todo => p # q
    BY <2>1
  <2> QED
    BY <1>0, <1>1, <1>2, <1>3, <2>1, <2>2, <2>3, <2>4
<1>14. CASE UNCHANGED vars
  BY <1>4, <1>14 DEF vars, connectorVars, pathVars
<1> QED
  BY <1>5, <1>6, <1>7, <1>8, <1>9, <1>10, <1>11, <1>12, <1>13, <1>14
  DEF Next, ThreadStep, ProcessStep

\* An event that is sent to the right groups is on its way to every sink.
LEMMA SentIsComing ==
  ASSUME IInv, NEW t \in Threads, Send(t), NEW e, e = current[t], e \notin misrouted',
         NEW s \in Sinks, Addressed(s, e), SinkProcess[s] \in running
  PROVE  Coming(s, e)'
<1> DEFINE p == SinkProcess[s]
<1>1. /\ phase[t] = "looking up" /\ phase' = [phase EXCEPT ![t] = "mapping"]
      /\ UNCHANGED current
  BY SendEffect
<1>2. e \in Events /\ e.publisher = t /\ p \in Processes
  BY <1>1, BoundedType, RoutingAssumption DEF IInv, OwnEvents
<1>3. PICK groups \in Readable(t) :
        /\ mailbox' = [q \in Processes |-> IF q \in Receivers(groups)
                         THEN Append(mailbox[q], e) ELSE mailbox[q]]
        /\ misrouted' = IF groups = Range(GroupsOf(e.scope)) THEN misrouted
                        ELSE misrouted \cup {e}
  BY DEF Send
<1>4. groups = Range(GroupsOf(e.scope))
  BY <1>3
<1>5. CASE p = Home
  <2>1. phase'[t] = "mapping"
    BY <1>1 DEF IInv, TypeOK
  <2> QED
    BY <1>1, <1>2, <1>5, <2>1 DEF Coming
<1>6. CASE p # Home
  <2>1. scopeToGroup[SinkScope[s]] \in Joined(p)
    BY DEF Joined
  <2>2. scopeToGroup[SinkScope[s]] \in Range(GroupsOf(e.scope))
    BY DEF Addressed, SuperScopesOf, Range, GroupsOf
  <2>3. p \in Receivers(groups)
    BY <1>4, <1>6, <2>1, <2>2 DEF Receivers
  <2>4. mailbox'[p] = Append(mailbox[p], e) /\ mailbox[p] \in Seq(Events)
    BY <1>2, <1>3, <2>3 DEF IInv, TypeOK
  <2>5. e \in Range(mailbox'[p])
    <3>1. Len(mailbox[p]) + 1 \in DOMAIN mailbox'[p]
            /\ mailbox'[p][Len(mailbox[p]) + 1] = e
      BY <1>2, <2>4, AppendProperties
    <3> QED
      BY <3>1 DEF Range
  <2> QED
    BY <1>1, <2>5 DEF Coming
<1> QED
  BY <1>5, <1>6

\* An event that went to the right groups reaches the first handler of every
\* in-connector on its scope or above, unless the process exits.
THEOREM NothingIsLost == Spec => []NothingLost
<1>1. Init => NothingLost
  BY DEF Init, NothingLost
<1>2. NothingLost /\ IInv /\ [Next]_vars => NothingLost'
  <2> SUFFICES ASSUME NothingLost, IInv, [Next]_vars,
                      NEW e \in published' \ misrouted', NEW s \in Sinks,
                      Addressed(s, e), SinkProcess[s] \in running', HandlerCount[s] > 0
               PROVE  Handed(s, e)' \/ Coming(s, e)'
    BY DEF NothingLost, Addressed, SuperScopesOf, Handed, First, Coming
  <2>1. running' \subseteq running
    BY ServeEffect, CallSinkEffect
    DEF Next, ThreadStep, ProcessStep, Handle, LookUp, SendThrows, Send, MapSinks,
        HandleIncoming, Unlock, vars, connectorVars, pathVars
  <2>2. misrouted \subseteq misrouted'
    BY DEF Next, ThreadStep, ProcessStep, Handle, LookUp, SendThrows, Send, MapSinks,
           HandleIncoming, CallSink, Serve, Unlock, vars, connectorVars, pathVars
  <2>3. CASE e \in published
    <3>1. Handed(s, e) \/ Coming(s, e)
      BY <2>1, <2>2, <2>3 DEF NothingLost
    <3> QED
      BY <2>3, <3>1, HandedStays, KeepsComing
  <2>4. CASE e \notin published
    <3>1. PICK t \in Threads : Send(t)
      BY <2>4 DEF Next, ThreadStep, ProcessStep, Handle, LookUp, SendThrows, MapSinks,
                  HandleIncoming, CallSink, Serve, Unlock, vars, connectorVars, pathVars
    <3>2. published' = published \cup {current[t]}
      BY <3>1, SendEffect
    <3>3. e = current[t]
      BY <2>4, <3>2
    <3> QED
      BY <2>1, <3>1, <3>3, SentIsComing
  <2> QED
    BY <2>3, <2>4
<1> QED
  BY <1>1, <1>2, Invariance, PTL DEF Spec
=============================================================================
