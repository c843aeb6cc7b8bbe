------------------------------ MODULE Delivery ------------------------------
(***************************************************************************)
(* The way of events from out-connectors to one remote in-connector:       *)
(* OutConnector::handle splits an event into fragments,                    *)
(* BusImpl::sendNotification sends them one by one, the network carries    *)
(* them, DeserializingHandler and AssemblyPool join them again.  The       *)
(* out-connectors share a bus, so their fragments mix on the way.          *)
(*                                                                         *)
(* The payload of an event is the bytes 0..Size[e]-1; a fragment carries   *)
(* those from first to last-1.  Pruning is off, as it is in the transport. *)
(***************************************************************************)
EXTENDS Integers, Sequences, FiniteSets

CONSTANTS
  Publishers,     \* out-connectors, each with a thread that publishes
  MaxEvents,      \* bound: events of one publisher
  Size,           \* bytes of payload of each event
  Header,         \* bytes of its first fragment with all meta data, no payload
  IdSize,         \* bytes of a later fragment, no payload
  FragmentSizes,  \* values of the option "maxfragmentsize"
  Modulus         \* 2^32 in the code: range of unsigned int

\* RSB identifies an event by its sender and a sequence number.
Events == Publishers \X (1..MaxEvents)

MinDataSpace == 5

\* A sender's id alone takes 16 bytes.
ASSUME EventsAssumption ==
  /\ MaxEvents \in Nat
  /\ Size \in [Events -> Nat]
  /\ Header \in [Events -> Nat]
  /\ IdSize \in Nat /\ IdSize >= MinDataSpace
  /\ \A e \in Events : IdSize <= Header[e]

ASSUME WidthAssumption ==
  /\ Modulus \in Nat \ {0}
  /\ FragmentSizes \in SUBSET (0..(Modulus - 1))

\* No payload comes within one header or one fragment of 4 GiB.
ASSUME PayloadAssumption ==
  \A e \in Events :
    /\ Size[e] + Header[e] < Modulus
    /\ \A max \in FragmentSizes : Size[e] + max < Modulus

VARIABLES
  qos,              \* OutConnector::messageQOS
  maxFragmentSize,  \* OutConnector::maxFragmentSize
  stage,            \* where handle() is
  seq,              \* events each publisher has begun
  offset,           \* loop variable of handle()
  fragments,        \* OutgoingNotification::fragments
  sent,             \* fragments that sendNotification has sent
  failure,          \* "none", or "assert": the process has ended
  session,          \* of the senders: "up" or "lost"
  listening,        \* the receiver has joined the group
  inFlight,         \* fragments on their way to the receiver
  store,            \* fragments in the assembly pool
  delivered         \* what handleMessage has returned, in order

handleVars == <<stage, seq, offset, fragments, sent, failure>>
receiverVars == <<store, delivered>>
netVars == <<session, listening, inFlight>>
options == <<qos, maxFragmentSize>>
vars == <<options, handleVars, netVars, receiverVars>>

Slice == [first : Nat, last : Nat]
Fragment ==
  {f \in [event : Events, part : Nat, parts : Nat, first : Nat, last : Nat] :
     f.part < f.parts}

TypeOK ==
  /\ qos \in {"FIFO", "RELIABLE", "UNRELIABLE"}
  /\ maxFragmentSize \in [Publishers -> FragmentSizes]
  /\ stage \in [Publishers -> {"idle", "splitting", "sending"}]
  /\ seq \in [Publishers -> 0..MaxEvents]
  /\ offset \in [Publishers -> 0..(Modulus - 1)]
  /\ fragments \in [Publishers -> Seq(Slice)]
  /\ sent \in [Publishers -> Nat]
  /\ failure \in {"none", "assert"}
  /\ session \in {"up", "lost"}
  /\ listening \in BOOLEAN
  /\ inFlight \subseteq Fragment
  /\ store \subseteq Fragment
  /\ delivered \in Seq([event : Events, first : Nat, last : Int])

\* setQualityOfServiceSpecs.
MessageQOS(ordering, reliability) ==
  IF ordering = "ORDERED" THEN "FIFO" ELSE reliability

Init ==
  /\ \E ordering \in {"ORDERED", "UNORDERED"} :
       \E reliability \in {"RELIABLE", "UNRELIABLE"} :
         qos = MessageQOS(ordering, reliability)
  /\ maxFragmentSize \in [Publishers -> FragmentSizes]
  /\ stage = [p \in Publishers |-> "idle"]
  /\ seq = [p \in Publishers |-> 0]
  /\ offset = [p \in Publishers |-> 0]
  /\ fragments = [p \in Publishers |-> <<>>]
  /\ sent = [p \in Publishers |-> 0]
  /\ failure = "none"
  /\ session = "up"
  /\ listening \in BOOLEAN
  /\ inFlight = {} /\ store = {} /\ delivered = <<>>

At(p, label) == failure = "none" /\ stage[p] = label

---------------------------------------------------------------------------
(* OutConnector::handle. *)

Current(p) == <<p, seq[p]>>

\* Subtraction of unsigned int wraps around.
Minus(a, b) == (a - b) % Modulus

\* Mutant: every fragment repeats the meta data.
FullHeader(p) == Header[Current(p)]

HeaderSize(p) ==
  IF fragments[p] = <<>> THEN Header[Current(p)] ELSE IdSize

HeaderLimit(p) == Minus(maxFragmentSize[p], MinDataSpace)

\* The loop condition.
MoreToSplit(p) == fragments[p] = <<>> \/ offset[p] < Size[Current(p)]

Handle(p) ==
  /\ At(p, "idle") /\ seq[p] < MaxEvents
  /\ seq' = [seq EXCEPT ![p] = @ + 1]
  /\ stage' = [stage EXCEPT ![p] = "splitting"]
  /\ offset' = [offset EXCEPT ![p] = 0]
  /\ fragments' = [fragments EXCEPT ![p] = <<>>]
  /\ sent' = [sent EXCEPT ![p] = 0]
  /\ UNCHANGED <<options, failure, netVars, receiverVars>>

\* substr(offset, n) cuts off at the end of the payload.
SliceAt(p, n) ==
  [first |-> offset[p],
   last |-> IF offset[p] + n < Size[Current(p)] THEN offset[p] + n
            ELSE Size[Current(p)]]

Split(p) ==
  /\ At(p, "splitting") /\ MoreToSplit(p)
  /\ HeaderSize(p) < HeaderLimit(p)
  /\ LET maxDataPartSize == Minus(maxFragmentSize[p], HeaderSize(p))
     IN  /\ fragments' = [fragments EXCEPT ![p] = Append(@, SliceAt(p, maxDataPartSize))]
         /\ offset' = [offset EXCEPT ![p] = (@ + maxDataPartSize) % Modulus]
  /\ UNCHANGED <<options, stage, seq, sent, failure, netVars, receiverVars>>

\* ProtocolException: the meta data are too big.
HandleThrows(p) ==
  /\ At(p, "splitting") /\ MoreToSplit(p)
  /\ HeaderSize(p) >= HeaderLimit(p)
  /\ stage' = [stage EXCEPT ![p] = "idle"]
  /\ UNCHANGED <<options, seq, offset, fragments, sent, failure, netVars, receiverVars>>

\* Unless the build disables assertions, one ends the process first when the
\* header is beyond the limit.
HandleAsserts(p) ==
  /\ At(p, "splitting") /\ MoreToSplit(p)
  /\ HeaderSize(p) > HeaderLimit(p)
  /\ failure' = "assert"
  /\ UNCHANGED <<options, stage, seq, offset, fragments, sent, netVars, receiverVars>>

HandleOutgoing(p) ==
  /\ At(p, "splitting") /\ ~MoreToSplit(p)
  /\ stage' = [stage EXCEPT ![p] = "sending"]
  /\ UNCHANGED <<options, seq, offset, fragments, sent, failure, netVars, receiverVars>>

---------------------------------------------------------------------------
(* BusImpl::sendNotification. *)

\* Mutant: num_data_parts stays at the optimistic guess of handle().
OptimisticParts(p) == 1

NumDataParts(p) == Len(fragments[p])

\* Mutant: fragments are not numbered.
UnnumberedFragment(p) ==
  [event |-> Current(p), part |-> 0, parts |-> NumDataParts(p),
   first |-> fragments[p][sent[p] + 1].first,
   last |-> fragments[p][sent[p] + 1].last]

\* Mutant: fragments are numbered from one.
FragmentFromOne(p) ==
  [event |-> Current(p), part |-> sent[p] + 1, parts |-> NumDataParts(p),
   first |-> fragments[p][sent[p] + 1].first,
   last |-> fragments[p][sent[p] + 1].last]

NextFragment(p) ==
  [event |-> Current(p), part |-> sent[p], parts |-> NumDataParts(p),
   first |-> fragments[p][sent[p] + 1].first,
   last |-> fragments[p][sent[p] + 1].last]

Send(p) ==
  /\ At(p, "sending") /\ session = "up"
  /\ inFlight' = IF listening THEN inFlight \cup {NextFragment(p)} ELSE inFlight
  /\ sent' = [sent EXCEPT ![p] = @ + 1]
  /\ stage' = [stage EXCEPT ![p] = IF sent[p] + 1 = Len(fragments[p])
                                   THEN "idle" ELSE "sending"]
  /\ UNCHANGED <<options, seq, offset, fragments, failure, session, listening,
                 receiverVars>>

\* Mutant: the failed send is tried again.
SendRetries(p) ==
  /\ At(p, "sending") /\ session = "lost"
  /\ UNCHANGED vars

\* CommException out of send(): the fragments that are out stay out.
SendThrows(p) ==
  /\ At(p, "sending") /\ session = "lost"
  /\ stage' = [stage EXCEPT ![p] = "idle"]
  /\ UNCHANGED <<options, seq, offset, fragments, sent, failure, netVars, receiverVars>>

---------------------------------------------------------------------------
(* The network. *)

SessionLost ==
  /\ session = "up"
  /\ session' = "lost"
  /\ UNCHANGED <<options, handleVars, listening, inFlight, receiverVars>>

\* The receiver joins, possibly between two fragments of an event.
StartListening ==
  /\ ~listening
  /\ listening' = TRUE
  /\ UNCHANGED <<options, handleVars, session, inFlight, receiverVars>>

FragmentLost(f) ==
  /\ qos = "UNRELIABLE"
  /\ inFlight' = inFlight \ {f}
  /\ UNCHANGED <<options, handleVars, session, listening, receiverVars>>

SentBefore(g, f) ==
  /\ g.event[1] = f.event[1]
  /\ \/ g.event[2] < f.event[2]
     \/ g.event = f.event /\ g.part < f.part

\* FIFO keeps the order of one publisher (and more, which nothing here uses).
Arrives(f) ==
  /\ qos = "FIFO" => \A g \in inFlight : ~SentBefore(g, f)
  /\ inFlight' = inFlight \ {f}
  /\ UNCHANGED <<options, handleVars, session, listening>>

---------------------------------------------------------------------------
(* DeserializingHandler and AssemblyPool. *)

PartsOf(e) == {g \in store : g.event = e}

\* Mutant: completeness is looked at before the fragment is added.
CompletedLate(f) == Cardinality(PartsOf(f.event)) = f.parts

CompletedBy(f) == Cardinality(PartsOf(f.event)) + 1 = f.parts

\* Such a fragment would be refused; OwnTrafficIsAccepted says there is none.
Twice(f) == \E g \in PartsOf(f.event) : g.part = f.part

\* Concatenating the slices gives a range of bytes if each begins where the
\* one before it ends, else nothing that is one (last = -1).
Joined(slices) ==
  LET n == Len(slices)
  IN  [first |-> slices[1].first,
       last |-> IF \A i \in 1..(n - 1) : slices[i].last = slices[i + 1].first
                THEN slices[n].last ELSE -1]

DeliverJoined(e, slices) ==
  delivered' = Append(delivered, [event |-> e, first |-> Joined(slices).first,
                                  last |-> Joined(slices).last])

\* A notification of one part does not touch the pool.
ReceiveWhole(f) ==
  /\ Arrives(f)
  /\ f.parts <= 1
  /\ DeliverJoined(f.event, <<f>>)
  /\ UNCHANGED store

ReceivePart(f) ==
  /\ Arrives(f)
  /\ f.parts > 1 /\ ~Twice(f) /\ ~CompletedBy(f)
  /\ store' = store \cup {f}
  /\ UNCHANGED delivered

\* getCompleteNotification appends the parts in the order of their numbers.
ReceiveLastPart(f) ==
  /\ Arrives(f)
  /\ f.parts > 1 /\ ~Twice(f) /\ CompletedBy(f)
  /\ DeliverJoined(f.event, [i \in 1..f.parts |->
       CHOOSE g \in PartsOf(f.event) \cup {f} : g.part = i - 1])
  /\ store' = store \ PartsOf(f.event)

Receive(f) == ReceiveWhole(f) \/ ReceivePart(f) \/ ReceiveLastPart(f)

---------------------------------------------------------------------------
PublisherStep(p) ==
  \/ Split(p) \/ HandleThrows(p) \/ HandleAsserts(p) \/ HandleOutgoing(p)
  \/ Send(p) \/ SendThrows(p)

ReceiverStep == \E f \in inFlight : Receive(f)

Next ==
  \/ \E p \in Publishers : Handle(p) \/ PublisherStep(p)
  \/ ReceiverStep
  \/ \E f \in inFlight : FragmentLost(f)
  \/ SessionLost
  \/ StartListening

Spec == Init /\ [][Next]_vars

\* Threads run; nobody owes an event, the network owes nothing it may lose.
FairSpec ==
  /\ Spec
  /\ \A p \in Publishers : WF_vars(PublisherStep(p))
  /\ WF_vars(ReceiverStep)
---------------------------------------------------------------------------
(* Safety. *)

\* The number of fragments, by arithmetic instead of a loop: what does not
\* fit beside the full header goes into fragments with the short one.
\* Below MinDataSpace the subtraction has wrapped and all goes into one.
ReferenceParts(e, max) ==
  LET first == max - Header[e]
      rest == max - IdSize
  IN  IF max < MinDataSpace \/ Size[e] <= first THEN 1
      ELSE 1 + (Size[e] - first + rest - 1) \div rest

\* The loop of handle() makes as many fragments as the arithmetic says, at
\* sizes on and beside every boundary and for limits that wrap around.
SplitsAsReference ==
  \A p \in Publishers : stage[p] = "sending" =>
    Len(fragments[p]) = ReferenceParts(Current(p), maxFragmentSize[p])

\* Fragments of own traffic are never refused: no part comes twice, and all
\* fragments of an event agree on their number (the exception and the
\* assertion in Assembly::add), also when sending or joining the group
\* happened half-way and fragments of several events mix.
OwnTrafficIsAccepted ==
  /\ \A f \in inFlight : ~Twice(f)
  /\ \A f, g \in inFlight \cup store : f.event = g.event => f.parts = g.parts

\* The remote in-connector gets events whole, once, and in order if asked
\* for: Delivery implements Channel.
Promised == INSTANCE Channel WITH
  ordered <- qos = "FIFO",
  published <- {e \in Events : e[2] <= seq[e[1]]}

ImplementsChannel == Promised!Spec

---------------------------------------------------------------------------
(* Liveness. *)

\* handle() returns or throws: splitting ends for every size, and a lost
\* session does not keep the caller.
HandleReturns ==
  \A p \in Publishers :
    stage[p] # "idle" ~> stage[p] = "idle" \/ failure # "none"

\* All parts of the event have reached the receiver or will.
Underway(e) ==
  \E f \in inFlight : f.event = e /\
    \A i \in 0..(f.parts - 1) : \E g \in inFlight \cup store : g.event = e /\ g.part = i

Delivered(e) == \E i \in 1..Len(delivered) : delivered[i].event = e

\* An event all of whose fragments are out is delivered, unless the network
\* may lose them.
EventuallyDelivered ==
  \A e \in Events : Underway(e) /\ qos # "UNRELIABLE" ~> Delivered(e)
=============================================================================
