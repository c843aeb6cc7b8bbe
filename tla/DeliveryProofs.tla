---------------------------- MODULE DeliveryProofs ----------------------------
(***************************************************************************)
(* Proofs about Delivery for any publishers, payloads, headers and limits: *)
(* it implements Channel, and splits into as many fragments as it should.  *)
(***************************************************************************)
EXTENDS Delivery, FiniteSetTheorems, SequenceTheorems, TLAPS

---------------------------------------------------------------------------
(* The inductive invariant. *)

Payload(p) == Size[Current(p)]

\* Slices follow each other from the first byte on.
Chained(s) ==
  s # <<>> => s[1].first = 0 /\ \A i \in 1..(Len(s) - 1) : s[i].last = s[i + 1].first

\* What the loop of handle() has done when it has come to its offset.  The
\* offset is exact as long as there is something left.
SplitSoFar(p) ==
  /\ Current(p) \in Events
  /\ Chained(fragments[p])
  /\ fragments[p] = <<>> => offset[p] = 0
  /\ fragments[p] # <<>> =>
       /\ fragments[p][Len(fragments[p])].last =
            IF offset[p] < Payload(p) THEN offset[p] ELSE Payload(p)
       /\ offset[p] < Payload(p) => maxFragmentSize[p] >= MinDataSpace

Handling ==
  \A p \in Publishers :
    /\ stage[p] # "idle" => SplitSoFar(p)
    /\ stage[p] = "splitting" => sent[p] = 0
    /\ stage[p] = "sending" => ~MoreToSplit(p) /\ sent[p] < Len(fragments[p])

Pieces == inFlight \cup store

\* Every piece is of a published event and has its place in it.
PiecesPlaced ==
  \A f \in Pieces :
    /\ f.event[2] <= seq[f.event[1]]
    /\ f.part < f.parts
    /\ f.part = 0 => f.first = 0
    /\ f.part = f.parts - 1 => f.last = Size[f.event]

\* Pieces of one event belong together.
PiecesMatch ==
  \A f, g \in Pieces : f.event = g.event =>
    /\ f.parts = g.parts
    /\ f.part = g.part => f = g
    /\ g.part = f.part + 1 => f.last = g.first

NoPieceTwice == inFlight \cap store = {}

\* Pieces of the event a publisher is busy with are those it has sent.
PiecesOfCurrent ==
  \A p \in Publishers : \A f \in Pieces :
    stage[p] # "idle" /\ f.event = Current(p) =>
      /\ stage[p] = "sending"
      /\ f.parts = Len(fragments[p])
      /\ f.part < sent[p]
      /\ f.first = fragments[p][f.part + 1].first
      /\ f.last = fragments[p][f.part + 1].last

\* Nothing is left, and nothing will come, of a delivered event.
DeliveredIsOver ==
  \A i \in 1..Len(delivered) :
    /\ delivered[i].event \in Events
    /\ delivered[i].event[2] <= seq[delivered[i].event[1]]
    /\ \A p \in Publishers : stage[p] # "idle" => delivered[i].event # Current(p)
    /\ \A f \in Pieces : f.event # delivered[i].event

\* With FIFO, what is underway comes after what was delivered.
OrderKept ==
  qos = "FIFO" =>
    \A i \in 1..Len(delivered) : \A f \in inFlight :
      f.event[1] = delivered[i].event[1] => delivered[i].event[2] < f.event[2]

IInv ==
  /\ TypeOK
  /\ Handling
  /\ PiecesPlaced
  /\ PiecesMatch
  /\ NoPieceTwice
  /\ PiecesOfCurrent
  /\ DeliveredIsOver
  /\ OrderKept

---------------------------------------------------------------------------
(* Facts about the data. *)

\* % leaves the values of unsigned int alone.
LEMMA InRange ==
  ASSUME NEW m \in Nat \ {0}, NEW a \in 0..(m - 1)
  PROVE  a % m = a
OBVIOUS

\* Subtraction of unsigned int is exact or off by the modulus.
LEMMA Wraps ==
  ASSUME NEW a \in 0..(Modulus - 1), NEW b \in 0..(Modulus - 1)
  PROVE  /\ a >= b => Minus(a, b) = a - b
         /\ a < b => Minus(a, b) = Modulus + a - b
<1> DEFINE m == Modulus
<1>1. m \in Nat \ {0} /\ a \in 0..(m - 1) /\ b \in 0..(m - 1)
  BY WidthAssumption
<1> HIDE DEF m
<1>2. a >= b => (a - b) % m = a - b
  BY <1>1
<1>3. a < b => (a - b) % m = m + a - b
  BY <1>1
<1> QED
  BY <1>2, <1>3 DEF Minus, m

\* The event of a busy publisher.
LEMMA CurrentEvent ==
  ASSUME TypeOK, NEW p \in Publishers, Current(p) \in Events
  PROVE  /\ Payload(p) \in Nat
         /\ Header[Current(p)] \in Nat
         /\ IdSize <= Header[Current(p)]
         /\ maxFragmentSize[p] \in 0..(Modulus - 1)
         /\ Payload(p) + Header[Current(p)] < Modulus
         /\ Payload(p) + maxFragmentSize[p] < Modulus
<1>1. maxFragmentSize[p] \in FragmentSizes
  BY DEF TypeOK
<1> QED
  BY <1>1, EventsAssumption, WidthAssumption, PayloadAssumption DEF Payload

\* One turn of the loop of handle() appends the slice that begins at the
\* offset, and the offset is exact unless the payload is exhausted.
LEMMA OneSplit ==
  ASSUME TypeOK, NEW p \in Publishers, SplitSoFar(p), MoreToSplit(p),
         HeaderSize(p) < HeaderLimit(p),
         NEW d, d = Minus(maxFragmentSize[p], HeaderSize(p)),
         NEW o, o = (offset[p] + d) % Modulus
  PROVE  /\ o \in 0..(Modulus - 1)
         /\ SliceAt(p, d) \in Slice
         /\ SliceAt(p, d).first = offset[p]
         /\ fragments[p] # <<>> => offset[p] < Payload(p)
         /\ SliceAt(p, d).last = IF o < Payload(p) THEN o ELSE Payload(p)
         /\ o < Payload(p) => maxFragmentSize[p] >= MinDataSpace
         /\ maxFragmentSize[p] < MinDataSpace => fragments[p] = <<>>
         /\ maxFragmentSize[p] >= MinDataSpace =>
              /\ HeaderSize(p) < maxFragmentSize[p]
              /\ o = offset[p] + (maxFragmentSize[p] - HeaderSize(p))
<1> DEFINE max == maxFragmentSize[p]
           h == HeaderSize(p)
<1>1. /\ Modulus \in Nat \ {0} /\ IdSize \in Nat /\ IdSize >= 5
      /\ Payload(p) \in Nat /\ Header[Current(p)] \in Nat /\ max \in 0..(Modulus - 1)
      /\ IdSize <= Header[Current(p)] /\ Payload(p) + Header[Current(p)] < Modulus
      /\ Payload(p) + max < Modulus
      /\ offset[p] \in 0..(Modulus - 1)
  BY CurrentEvent, EventsAssumption, WidthAssumption DEF SplitSoFar, TypeOK, MinDataSpace
<1>2. fragments[p] # <<>> => offset[p] < Payload(p)
  BY DEF MoreToSplit, Payload
<1>3. fragments[p] = <<>> => offset[p] = 0
  BY DEF SplitSoFar
<1>4. h \in Nat /\ h < Modulus /\ h >= 5
  BY <1>1 DEF HeaderSize
<1>5. /\ max >= 5 => d = max - h /\ d > 0
      /\ max < 5 => d = Modulus + max - h
  <2>1. max \in 0..(Modulus - 1) /\ h \in 0..(Modulus - 1)
    BY <1>1, <1>4
  <2>2. ASSUME max >= 5 PROVE max > h
    <3>1. 5 \in 0..(Modulus - 1)
      BY <1>1, <2>2
    <3>2. HeaderLimit(p) = max - 5
      BY <2>1, <2>2, <3>1, Wraps DEF HeaderLimit, MinDataSpace
    <3> QED
      BY <1>1, <1>4, <3>2
  <2>3. max < 5 => max < h
    BY <1>1, <1>4
  <2>4. /\ max >= h => d = max - h
        /\ max < h => d = Modulus + max - h
    BY <2>1, Wraps
  <2> QED
    BY <1>1, <1>4, <2>2, <2>3, <2>4
<1>6. max < 5 => fragments[p] = <<>> /\ h = Header[Current(p)]
  BY <1>1, <1>2 DEF SplitSoFar, HeaderSize, MinDataSpace
<1>7. /\ d \in Nat /\ o = offset[p] + d
      /\ max < 5 => o > Payload(p)
  <2>1. CASE max >= 5
    <3>1. offset[p] + max < Modulus
      BY <1>1, <1>2, <1>3
    <3>2. d \in Nat /\ offset[p] + d \in 0..(Modulus - 1)
      BY <1>1, <1>4, <1>5, <2>1, <3>1
    <3> QED
      BY <1>1, <2>1, <3>2, InRange
  <2>2. CASE max < 5
    <3>1. offset[p] = 0 /\ h = Header[Current(p)]
      BY <1>3, <1>6, <2>2
    <3>2. d \in 0..(Modulus - 1) /\ d = Modulus + max - h
      BY <1>1, <1>4, <1>5, <2>2
    <3>3. offset[p] + d = d
      BY <3>1, <3>2
    <3>4. o = d
      BY <1>1, <3>2, <3>3, InRange
    <3> QED
      BY <1>1, <3>1, <3>2, <3>3, <3>4
  <2> QED
    BY <1>1, <2>1, <2>2
<1>9. SliceAt(p, d) = [first |-> offset[p],
                       last |-> IF o < Payload(p) THEN o ELSE Payload(p)]
  BY <1>7 DEF SliceAt, Payload
<1>10. SliceAt(p, d) \in Slice
  BY <1>1, <1>7, <1>9 DEF Slice
<1>11. o < Payload(p) => max >= MinDataSpace
  BY <1>1, <1>7 DEF MinDataSpace
<1>13. max >= 5 => h < max /\ o = offset[p] + (max - h)
  BY <1>1, <1>4, <1>5, <1>7
<1>12. o \in 0..(Modulus - 1)
  <2>1. offset[p] + d \in Int
    BY <1>1, <1>7
  <2> QED
    BY <1>1, <2>1
<1> QED
  BY <1>2, <1>6, <1>9, <1>10, <1>11, <1>12, <1>13 DEF MinDataSpace

---------------------------------------------------------------------------
(* Steps of publishers. *)

\* The first state.
LEMMA InitInv == Init => IInv
<1> SUFFICES ASSUME Init PROVE IInv
  OBVIOUS
<1>1. TypeOK
  <2>1. \A ordering \in {"ORDERED", "UNORDERED"}, reliability \in {"RELIABLE", "UNRELIABLE"} :
          MessageQOS(ordering, reliability) \in {"FIFO", "RELIABLE", "UNRELIABLE"}
    BY DEF MessageQOS
  <2> QED
    BY <2>1, EventsAssumption, WidthAssumption DEF Init, TypeOK
<1>2. Handling /\ PiecesOfCurrent
  BY DEF Init, Handling, PiecesOfCurrent, Pieces
<1>3. PiecesPlaced /\ PiecesMatch /\ NoPieceTwice
  BY DEF Init, PiecesPlaced, PiecesMatch, NoPieceTwice, Pieces
<1>4. Len(delivered) = 0 /\ inFlight = {}
  BY DEF Init
<1>5. DeliveredIsOver /\ OrderKept
  BY <1>4 DEF DeliveredIsOver, OrderKept
<1> QED
  BY <1>1, <1>2, <1>3, <1>5 DEF IInv

\* handle() begins: nothing of the new event exists anywhere.
LEMMA HandleInv ==
  ASSUME IInv, NEW p \in Publishers, Handle(p)
  PROVE  IInv'
<1> USE DEF IInv
<1>1. /\ seq[p] \in 0..MaxEvents /\ seq[p] < MaxEvents /\ MaxEvents \in Nat
      /\ seq'[p] = seq[p] + 1
      /\ \A q \in Publishers : q # p => seq'[q] = seq[q]
      /\ \A q \in Publishers : seq'[q] \in 0..MaxEvents /\ seq[q] \in 0..MaxEvents
  BY EventsAssumption DEF TypeOK, Handle
<1>2. TypeOK'
  <2>1. 0 \in 0..(Modulus - 1) /\ <<>> \in Seq(Slice)
    BY WidthAssumption
  <2> QED
    BY <1>1, <2>1 DEF TypeOK, Handle, options, netVars, receiverVars
<1>3. Pieces' = Pieces /\ inFlight' = inFlight /\ store' = store
      /\ delivered' = delivered /\ qos' = qos
  BY DEF Handle, options, netVars, receiverVars, Pieces
<1>4. \A f \in Pieces : f \in Fragment /\ f.event \in Events
  BY DEF TypeOK, Pieces, Fragment
<1>5. \A e \in Events : e[1] \in Publishers /\ e[2] \in 1..MaxEvents
  BY DEF Events
<1>6. \A e \in Events : e[2] <= seq[e[1]] => e # Current(p)' /\ e[2] <= seq'[e[1]]
  BY <1>1, <1>5 DEF Current
<1>7. \A q \in Publishers : q # p =>
        /\ Current(q)' = Current(q) /\ stage'[q] = stage[q] /\ sent'[q] = sent[q]
        /\ fragments'[q] = fragments[q] /\ offset'[q] = offset[q]
        /\ maxFragmentSize'[q] = maxFragmentSize[q]
  BY <1>1 DEF Handle, TypeOK, Current, options
<1>8. Handling'
  <2>1. SplitSoFar(p)' /\ stage'[p] = "splitting" /\ sent'[p] = 0
    <3>1. Current(p)' \in Events
      BY <1>1 DEF Current, Events
    <3>2. fragments'[p] = <<>> /\ offset'[p] = 0 /\ stage'[p] = "splitting" /\ sent'[p] = 0
      BY DEF Handle, TypeOK
    <3> QED
      BY <3>1, <3>2 DEF SplitSoFar, Chained
  <2>2. ASSUME NEW q \in Publishers, q # p
        PROVE  /\ stage'[q] # "idle" => SplitSoFar(q)'
               /\ stage'[q] = "splitting" => sent'[q] = 0
               /\ stage'[q] = "sending" => ~MoreToSplit(q)' /\ sent'[q] < Len(fragments'[q])
    BY <1>7, <2>2 DEF Handling, SplitSoFar, Payload, MoreToSplit
  <2> QED
    BY <2>1, <2>2 DEF Handling
<1>9. PiecesPlaced'
  BY <1>3, <1>4, <1>6 DEF PiecesPlaced
<1>10. PiecesMatch' /\ NoPieceTwice'
  BY <1>3 DEF PiecesMatch, NoPieceTwice
<1>11. PiecesOfCurrent'
  <2> SUFFICES ASSUME NEW q \in Publishers, NEW f \in Pieces,
                      stage'[q] # "idle", f.event = Current(q)'
               PROVE  /\ stage'[q] = "sending"
                      /\ f.parts = Len(fragments'[q])
                      /\ f.part < sent'[q]
                      /\ f.first = fragments'[q][f.part + 1].first
                      /\ f.last = fragments'[q][f.part + 1].last
    BY <1>3 DEF PiecesOfCurrent
  <2>1. q # p
    BY <1>4, <1>6 DEF PiecesPlaced
  <2> QED
    BY <2>1, <1>7 DEF PiecesOfCurrent
<1>12. DeliveredIsOver'
  <2> SUFFICES ASSUME NEW i \in 1..Len(delivered)
               PROVE  /\ delivered[i].event \in Events
                      /\ delivered[i].event[2] <= seq'[delivered[i].event[1]]
                      /\ \A q \in Publishers : stage'[q] # "idle" =>
                           delivered[i].event # Current(q)'
                      /\ \A f \in Pieces : f.event # delivered[i].event
    BY <1>3 DEF DeliveredIsOver
  <2> QED
    BY <1>6, <1>7 DEF DeliveredIsOver
<1>13. OrderKept'
  BY <1>3 DEF OrderKept
<1> QED
  BY <1>2, <1>8, <1>9, <1>10, <1>11, <1>12, <1>13

\* Only the split of one publisher has gone on; the pieces are the same.
LEMMA SplitInv ==
  ASSUME IInv, NEW p \in Publishers, Split(p)
  PROVE  IInv'
<1> USE DEF IInv
<1> DEFINE d == Minus(maxFragmentSize[p], HeaderSize(p))
           o == (offset[p] + d) % Modulus
           s == fragments[p]
           t == Append(s, SliceAt(p, d))
<1>1. /\ stage[p] = "splitting" /\ stage' = stage /\ seq' = seq /\ sent' = sent
      /\ maxFragmentSize' = maxFragmentSize /\ qos' = qos /\ failure' = failure
      /\ session' = session /\ listening' = listening
      /\ inFlight' = inFlight /\ store' = store /\ delivered' = delivered
      /\ fragments' = [fragments EXCEPT ![p] = t]
      /\ offset' = [offset EXCEPT ![p] = o]
  BY DEF Split, At, options, netVars, receiverVars
<1>2. SplitSoFar(p)
  BY <1>1 DEF Handling
<1>3. /\ o \in 0..(Modulus - 1)
      /\ SliceAt(p, d) \in Slice
      /\ SliceAt(p, d).first = offset[p]
      /\ s # <<>> => offset[p] < Payload(p)
      /\ SliceAt(p, d).last = IF o < Payload(p) THEN o ELSE Payload(p)
      /\ o < Payload(p) => maxFragmentSize[p] >= MinDataSpace
  <2> HIDE DEF IInv
  <2>1. TypeOK /\ MoreToSplit(p) /\ HeaderSize(p) < HeaderLimit(p)
    BY DEF IInv, Split
  <2> QED
    BY <1>2, <2>1, OneSplit
<1> HIDE DEF d, o
<1>4. /\ s \in Seq(Slice) /\ t \in Seq(Slice) /\ t # <<>> /\ Len(t) = Len(s) + 1
      /\ \A i \in 1..Len(s) : t[i] = s[i]
      /\ t[Len(t)] = SliceAt(p, d)
      /\ Len(s) \in Nat /\ (s # <<>> => Len(s) >= 1) /\ (s = <<>> => Len(s) = 0)
  <2>1. s \in Seq(Slice)
    BY DEF TypeOK
  <2> QED
    BY <1>3, <2>1, AppendProperties
<1> HIDE DEF t
<1>5. TypeOK'
  BY <1>1, <1>3, <1>4 DEF TypeOK
<1>6. /\ fragments'[p] = t /\ offset'[p] = o /\ Current(p)' = Current(p)
      /\ Payload(p)' = Payload(p)
  BY <1>1 DEF TypeOK, Current, Payload
<1>7. \A q \in Publishers : /\ Current(q)' = Current(q)
                            /\ q # p => fragments'[q] = fragments[q] /\ offset'[q] = offset[q]
  BY <1>1 DEF TypeOK, Current
<1>8. Chained(t)
  <2>1. s # <<>> => s[Len(s)].last = offset[p]
    BY <1>2, <1>3 DEF SplitSoFar
  <2>2. s = <<>> => offset[p] = 0
    BY <1>2 DEF SplitSoFar
  <2>3. Chained(s)
    BY <1>2 DEF SplitSoFar
  <2>4. t[1].first = 0
    BY <1>3, <1>4, <2>2, <2>3 DEF Chained
  <2>5. ASSUME NEW i \in 1..(Len(t) - 1) PROVE t[i].last = t[i + 1].first
    <3>1. CASE i = Len(s)
      BY <1>3, <1>4, <2>1, <3>1
    <3>2. CASE i # Len(s)
      <4>1. i \in 1..(Len(s) - 1) /\ i \in 1..Len(s) /\ i + 1 \in 1..Len(s) /\ s # <<>>
        BY <1>4, <3>2
      <4> QED
        BY <1>4, <2>3, <4>1 DEF Chained
    <3> QED
      BY <3>1, <3>2
  <2> QED
    BY <2>4, <2>5 DEF Chained
<1>9. SplitSoFar(p)'
  <2>1. Current(p)' \in Events
    BY <1>2, <1>6 DEF SplitSoFar
  <2>2. Chained(fragments[p])'
    BY <1>6, <1>8 DEF Chained
  <2> QED
    BY <1>1, <1>3, <1>4, <1>6, <2>1, <2>2 DEF SplitSoFar
<1>10. Handling'
  BY <1>1, <1>7, <1>9 DEF Handling, SplitSoFar, Payload, MoreToSplit
<1>11. Pieces' = Pieces
  BY <1>1 DEF Pieces
<1>12. PiecesPlaced' /\ PiecesMatch' /\ NoPieceTwice' /\ OrderKept'
  BY <1>1, <1>11 DEF PiecesPlaced, PiecesMatch, NoPieceTwice, OrderKept
<1>13. PiecesOfCurrent'
  BY <1>1, <1>7, <1>11 DEF PiecesOfCurrent
<1>14. DeliveredIsOver'
  BY <1>1, <1>7, <1>11 DEF DeliveredIsOver
<1> QED
  BY <1>5, <1>10, <1>12, <1>13, <1>14

\* handle() ends in an exception, or a failed send() does, or an assertion
\* ends the process: nothing is sent.
LEMMA GivesUpInv ==
  ASSUME IInv, NEW p \in Publishers,
         HandleThrows(p) \/ SendThrows(p) \/ HandleAsserts(p)
  PROVE  IInv'
<1> USE DEF IInv
<1>1. /\ seq' = seq /\ sent' = sent /\ offset' = offset /\ fragments' = fragments
      /\ maxFragmentSize' = maxFragmentSize /\ qos' = qos
      /\ session' = session /\ listening' = listening
      /\ inFlight' = inFlight /\ store' = store /\ delivered' = delivered
      /\ stage' = stage \/ stage' = [stage EXCEPT ![p] = "idle"]
      /\ failure' \in {failure, "assert"}
  BY DEF HandleThrows, SendThrows, HandleAsserts, options, netVars, receiverVars
<1>2. \A q \in Publishers : stage'[q] = "idle" \/ stage'[q] = stage[q]
  BY <1>1 DEF TypeOK
<1>3. TypeOK'
  BY <1>1 DEF TypeOK
<1>4. Pieces' = Pieces /\ \A q \in Publishers : Current(q)' = Current(q)
  BY <1>1 DEF Pieces, Current
<1>5. Handling'
  BY <1>1, <1>2, <1>4 DEF Handling, SplitSoFar, Payload, MoreToSplit
<1>6. PiecesPlaced' /\ PiecesMatch' /\ NoPieceTwice' /\ OrderKept'
  BY <1>1, <1>4 DEF PiecesPlaced, PiecesMatch, NoPieceTwice, OrderKept
<1>7. PiecesOfCurrent'
  BY <1>1, <1>2, <1>4 DEF PiecesOfCurrent
<1>8. DeliveredIsOver'
  BY <1>1, <1>2, <1>4 DEF DeliveredIsOver
<1> QED
  BY <1>3, <1>5, <1>6, <1>7, <1>8

\* Sending begins with at least one fragment and none sent.
LEMMA HandleOutgoingInv ==
  ASSUME IInv, NEW p \in Publishers, HandleOutgoing(p)
  PROVE  IInv'
<1> USE DEF IInv
<1>1. /\ stage[p] = "splitting" /\ ~MoreToSplit(p)
      /\ seq' = seq /\ sent' = sent /\ offset' = offset /\ fragments' = fragments
      /\ maxFragmentSize' = maxFragmentSize /\ qos' = qos /\ failure' = failure
      /\ session' = session /\ listening' = listening
      /\ inFlight' = inFlight /\ store' = store /\ delivered' = delivered
      /\ stage' = [stage EXCEPT ![p] = "sending"]
  BY DEF HandleOutgoing, At, options, netVars, receiverVars
<1>2. /\ stage'[p] = "sending"
      /\ \A q \in Publishers : q # p => stage'[q] = stage[q]
  BY <1>1 DEF TypeOK
<1>3. TypeOK'
  BY <1>1 DEF TypeOK
<1>4. Pieces' = Pieces /\ \A q \in Publishers : Current(q)' = Current(q)
  BY <1>1 DEF Pieces, Current
<1>5. Handling'
  <2>1. SplitSoFar(p) /\ sent[p] = 0 /\ fragments[p] # <<>> /\ fragments[p] \in Seq(Slice)
    BY <1>1 DEF Handling, MoreToSplit, TypeOK
  <2>2. sent[p] < Len(fragments[p])
    BY <1>1, <2>1
  <2>3. ASSUME NEW q \in Publishers
        PROVE  /\ SplitSoFar(q)' <=> SplitSoFar(q)
               /\ MoreToSplit(q)' <=> MoreToSplit(q)
    BY <1>1, <1>4 DEF SplitSoFar, MoreToSplit, Payload
  <2> QED
    BY <1>1, <1>2, <2>1, <2>2, <2>3 DEF Handling
<1>6. PiecesPlaced' /\ PiecesMatch' /\ NoPieceTwice' /\ OrderKept'
  BY <1>1, <1>4 DEF PiecesPlaced, PiecesMatch, NoPieceTwice, OrderKept
<1>7. PiecesOfCurrent'
  BY <1>1, <1>2, <1>4 DEF PiecesOfCurrent
<1>8. DeliveredIsOver'
  BY <1>1, <1>2, <1>4 DEF DeliveredIsOver
<1> QED
  BY <1>3, <1>5, <1>6, <1>7, <1>8

\* The fragment that is sent has its place among those sent before.
LEMMA SendInv ==
  ASSUME IInv, NEW p \in Publishers, Send(p)
  PROVE  IInv'
<1> USE DEF IInv
<1> DEFINE f == NextFragment(p)
           e == Current(p)
           k == sent[p]
           s == fragments[p]
<1>1. /\ stage[p] = "sending"
      /\ seq' = seq /\ offset' = offset /\ fragments' = fragments
      /\ maxFragmentSize' = maxFragmentSize /\ qos' = qos /\ failure' = failure
      /\ session' = session /\ listening' = listening
      /\ store' = store /\ delivered' = delivered
      /\ inFlight' \in {inFlight, inFlight \cup {f}}
      /\ sent' = [sent EXCEPT ![p] = k + 1]
      /\ stage' = [stage EXCEPT ![p] = IF k + 1 = Len(s) THEN "idle" ELSE "sending"]
  BY DEF Send, At, options, receiverVars
<1>2. /\ k \in Nat /\ s \in Seq(Slice) /\ Len(s) \in Nat /\ k < Len(s)
      /\ SplitSoFar(p) /\ ~MoreToSplit(p) /\ e \in Events
      /\ Chained(s) /\ s # <<>> /\ s[Len(s)].last = Payload(p)
  <2>1. k \in Nat /\ s \in Seq(Slice) /\ Len(s) \in Nat
    BY DEF TypeOK
  <2>2. k < Len(s) /\ SplitSoFar(p) /\ ~MoreToSplit(p)
    BY <1>1 DEF Handling
  <2> QED
    BY <2>1, <2>2 DEF SplitSoFar, MoreToSplit, Payload
<1>3. /\ f \in Fragment /\ f.event = e /\ f.part = k /\ f.parts = Len(s)
      /\ f.first = s[k + 1].first /\ f.last = s[k + 1].last
  <2>1. s[k + 1] \in Slice
    BY <1>2
  <2> QED
    BY <1>2, <2>1 DEF NextFragment, NumDataParts, Fragment, Slice
<1> HIDE DEF f
<1>4. \A g \in Pieces : g \in Fragment /\ g.event \in Events /\ g.part \in Nat /\ g.parts \in Nat
  BY DEF TypeOK, Pieces, Fragment
<1>5. \A g \in Pieces : g.event = e =>
        /\ g.parts = Len(s) /\ g.part < k
        /\ g.first = s[g.part + 1].first /\ g.last = s[g.part + 1].last
  BY <1>1 DEF PiecesOfCurrent
<1>6. /\ sent'[p] = k + 1 /\ stage'[p] \in {"idle", "sending"}
      /\ stage'[p] # "idle" => k + 1 < Len(s)
      /\ \A q \in Publishers : q # p => sent'[q] = sent[q] /\ stage'[q] = stage[q]
      /\ \A q \in Publishers : Current(q)' = Current(q)
      /\ \A q \in Publishers : q # p => Current(q) # e
  BY <1>1, <1>2 DEF TypeOK, Current
<1>7. Pieces' \subseteq Pieces \cup {f}
  BY <1>1 DEF Pieces
<1>8. TypeOK'
  <2>1. inFlight' \subseteq Fragment
    BY <1>1, <1>3 DEF TypeOK
  <2>2. /\ sent' \in [Publishers -> Nat]
        /\ stage' \in [Publishers -> {"idle", "splitting", "sending"}]
    BY <1>1, <1>2 DEF TypeOK
  <2> QED
    BY <1>1, <2>1, <2>2 DEF TypeOK
<1>9. Handling'
  <2>1. ASSUME NEW q \in Publishers
        PROVE  /\ SplitSoFar(q)' <=> SplitSoFar(q)
               /\ MoreToSplit(q)' <=> MoreToSplit(q)
    BY <1>1, <1>6 DEF SplitSoFar, MoreToSplit, Payload
  <2> QED
    BY <1>1, <1>2, <1>6, <2>1 DEF Handling
<1>10. PiecesPlaced'
  <2>1. e[2] <= seq[e[1]]
    <3>1. e[1] = p /\ e[2] = seq[p] /\ seq[p] \in Int
      BY EventsAssumption DEF Current, TypeOK
    <3> QED
      BY <3>1
  <2>2. f.part = 0 => f.first = 0
    BY <1>2, <1>3 DEF Chained
  <2>3. f.part = f.parts - 1 => f.last = Size[f.event]
    BY <1>2, <1>3 DEF Payload
  <2>4. f.part < f.parts
    BY <1>2, <1>3
  <2> QED
    BY <1>1, <1>3, <1>7, <2>1, <2>2, <2>3, <2>4 DEF PiecesPlaced
<1>11. PiecesMatch'
  <2>1. ASSUME NEW g \in Pieces, g.event = e
        PROVE  /\ g.parts = f.parts /\ g.part # f.part /\ g.part # f.part + 1
               /\ f.part = g.part + 1 => g.last = f.first
    <3>1. g.parts = Len(s) /\ g.part < k /\ g.last = s[g.part + 1].last /\ g.part \in Nat
      BY <1>4, <1>5, <2>1
    <3>2. f.part = g.part + 1 => g.part + 1 \in 1..(Len(s) - 1) /\ k + 1 = g.part + 1 + 1
      BY <1>2, <1>3, <3>1
    <3> QED
      BY <1>2, <1>3, <3>1, <3>2 DEF Chained
  <2>2. f.part # f.part + 1
    BY <1>2, <1>3
  <2> QED
    BY <1>3, <1>7, <2>1, <2>2 DEF PiecesMatch
<1>12. NoPieceTwice'
  <2>1. f \notin store
    BY <1>2, <1>3, <1>5 DEF Pieces
  <2> QED
    BY <1>1, <2>1 DEF NoPieceTwice
<1>13. PiecesOfCurrent'
  <2> SUFFICES ASSUME NEW q \in Publishers, NEW g \in Pieces',
                      stage'[q] # "idle", g.event = Current(q)
               PROVE  /\ stage'[q] = "sending"
                      /\ g.parts = Len(fragments[q])
                      /\ g.part < sent'[q]
                      /\ g.first = fragments[q][g.part + 1].first
                      /\ g.last = fragments[q][g.part + 1].last
    BY <1>1, <1>6 DEF PiecesOfCurrent
  <2>1. CASE q = p
    BY <1>2, <1>3, <1>4, <1>5, <1>6, <1>7, <2>1
  <2>2. CASE q # p
    <3>1. g \in Pieces
      BY <1>3, <1>6, <1>7, <2>2
    <3> QED
      BY <1>6, <2>2, <3>1 DEF PiecesOfCurrent
  <2> QED
    BY <2>1, <2>2
<1>14. DeliveredIsOver'
  <2>1. \A i \in 1..Len(delivered) : delivered[i].event # e
    BY <1>1 DEF DeliveredIsOver
  <2> QED
    BY <1>1, <1>3, <1>6, <1>7, <2>1 DEF DeliveredIsOver
<1>15. OrderKept'
  <2>1. ASSUME NEW i \in 1..Len(delivered), delivered[i].event[1] = e[1]
        PROVE  delivered[i].event[2] < e[2]
    <3>1. e[1] = p /\ e[2] = seq[p] /\ seq[p] \in Int
      BY EventsAssumption DEF Current, TypeOK
    <3>2. /\ delivered[i].event \in Events /\ delivered[i].event # e
          /\ delivered[i].event[2] <= seq[p]
      BY <1>1, <2>1, <3>1 DEF DeliveredIsOver
    <3>3. \A c, d \in Events : c[1] = d[1] /\ c # d => c[2] # d[2]
      BY DEF Events
    <3>4. delivered[i].event[2] \in Int
      BY <3>2, EventsAssumption DEF Events
    <3> QED
      BY <1>2, <2>1, <3>1, <3>2, <3>3, <3>4
  <2> QED
    BY <1>1, <1>3, <2>1 DEF OrderKept
<1> QED
  BY <1>8, <1>9, <1>10, <1>11, <1>12, <1>13, <1>14, <1>15

---------------------------------------------------------------------------
(* Steps of the network and of the receiver. *)

Untouched ==
  /\ qos' = qos /\ maxFragmentSize' = maxFragmentSize
  /\ stage' = stage /\ seq' = seq /\ offset' = offset
  /\ fragments' = fragments /\ sent' = sent

\* Pieces may get lost or move into the store.
LEMMA FewerPiecesInv ==
  ASSUME IInv, Untouched,
         failure' = failure, session' \in {"up", "lost"}, listening' \in BOOLEAN,
         inFlight' \subseteq inFlight, store' \subseteq Pieces,
         inFlight' \cap store' = {}, delivered' = delivered
  PROVE  IInv'
<1> USE DEF IInv, Untouched
<1>1. Pieces' \subseteq Pieces
  BY DEF Pieces
<1>2. TypeOK'
  BY DEF TypeOK, Pieces
<1>3. \A q \in Publishers : Current(q)' = Current(q)
  BY DEF Current
<1>4. Handling'
  BY <1>3 DEF Handling, SplitSoFar, Payload, MoreToSplit
<1>5. PiecesPlaced' /\ PiecesMatch' /\ NoPieceTwice' /\ OrderKept'
  BY <1>1 DEF PiecesPlaced, PiecesMatch, NoPieceTwice, OrderKept
<1>6. PiecesOfCurrent'
  BY <1>1, <1>3 DEF PiecesOfCurrent
<1>7. DeliveredIsOver'
  BY <1>1, <1>3 DEF DeliveredIsOver
<1> QED
  BY <1>2, <1>4, <1>5, <1>6, <1>7

AllHere(f) ==
  \A i \in 0..(f.parts - 1) : \E g \in PartsOf(f.event) \cup {f} : g.part = i

Whole(e) == [event |-> e, first |-> 0, last |-> Size[e]]

\* An event all of whose parts are here can be delivered and forgotten.
LEMMA DeliverInv ==
  ASSUME IInv, Untouched, NEW f \in inFlight, AllHere(f), Arrives(f),
         store' = store \ PartsOf(f.event),
         delivered' = Append(delivered, Whole(f.event))
  PROVE  IInv'
<1> USE DEF IInv, Untouched
<1> DEFINE e == f.event
           n == Len(delivered)
<1>1. /\ inFlight' = inFlight \ {f} /\ failure' = failure
      /\ session' = session /\ listening' = listening
      /\ qos = "FIFO" => \A g \in inFlight : ~SentBefore(g, f)
  BY DEF Arrives, handleVars
<1>2. \A g \in Pieces : /\ g \in Fragment /\ g.event \in Events
                        /\ g.part \in Nat /\ g.parts \in Nat
  BY DEF TypeOK, Pieces, Fragment
<1>3. f \in Pieces /\ e \in Events /\ PartsOf(e) \cup {f} \subseteq Pieces
  BY <1>2 DEF Pieces, PartsOf
<1>4. \A g \in Pieces : g.event = e => g \in PartsOf(e) \cup {f}
  <2> SUFFICES ASSUME NEW g \in Pieces, g.event = e
               PROVE  g \in PartsOf(e) \cup {f}
    OBVIOUS
  <2>1. g.parts = f.parts /\ g.part < g.parts
    BY <1>3 DEF PiecesMatch, PiecesPlaced
  <2>2. PICK h \in PartsOf(e) \cup {f} : h.part = g.part
    BY <1>2, <1>3, <2>1 DEF AllHere
  <2>3. h \in Pieces /\ h.event = e
    BY <1>3 DEF PartsOf
  <2> QED
    BY <2>2, <2>3 DEF PiecesMatch
<1>5. Pieces' \subseteq Pieces /\ \A g \in Pieces' : g.event # e
  <2>1. \A g \in Pieces' : g \in Pieces /\ g # f /\ g \notin PartsOf(e)
    BY <1>1 DEF Pieces, PartsOf, NoPieceTwice
  <2> QED
    BY <1>4, <2>1
<1>6. \A q \in Publishers : Current(q)' = Current(q)
  BY DEF Current
<1>7. \A q \in Publishers : stage[q] # "idle" => e # Current(q)
  <2> SUFFICES ASSUME NEW q \in Publishers, stage[q] # "idle", e = Current(q)
               PROVE  FALSE
    OBVIOUS
  <2>1. f.parts = Len(fragments[q]) /\ stage[q] = "sending" /\ f.part < sent[q]
    BY <1>3 DEF PiecesOfCurrent
  <2>2. sent[q] < Len(fragments[q]) /\ sent[q] \in Nat
    BY <2>1 DEF Handling, TypeOK
  <2>3. f.parts - 1 \in 0..(f.parts - 1)
    BY <1>2, <1>3, <2>1, <2>2
  <2>4. PICK h \in PartsOf(e) \cup {f} : h.part = f.parts - 1
    BY <2>3 DEF AllHere
  <2>5. h \in Pieces /\ h.event = e
    BY <1>3 DEF PartsOf
  <2>6. h.part < sent[q]
    BY <2>5 DEF PiecesOfCurrent
  <2> QED
    BY <1>2, <1>3, <2>1, <2>2, <2>4, <2>6
<1>8. /\ n \in Nat /\ Len(delivered') = n + 1
      /\ \A i \in 1..n : delivered'[i] = delivered[i]
      /\ delivered'[n + 1] = Whole(e)
      /\ delivered' \in Seq([event : Events, first : Nat, last : Int])
  <2>1. Size[e] \in Nat
    BY <1>3, EventsAssumption
  <2>2. /\ delivered \in Seq([event : Events, first : Nat, last : Int])
        /\ Whole(e) \in [event : Events, first : Nat, last : Int]
    BY <1>3, <2>1 DEF TypeOK, Whole
  <2> QED
    BY <2>2, AppendProperties
<1>9. TypeOK'
  BY <1>1, <1>8 DEF TypeOK
<1>10. Handling'
  BY <1>6 DEF Handling, SplitSoFar, Payload, MoreToSplit
<1>11. PiecesPlaced' /\ PiecesMatch' /\ NoPieceTwice'
  BY <1>1, <1>5 DEF PiecesPlaced, PiecesMatch, NoPieceTwice
<1>12. PiecesOfCurrent'
  BY <1>5, <1>6 DEF PiecesOfCurrent
<1>13. DeliveredIsOver'
  <2> SUFFICES ASSUME NEW i \in 1..(n + 1)
               PROVE  /\ delivered'[i].event \in Events
                      /\ delivered'[i].event[2] <= seq[delivered'[i].event[1]]
                      /\ \A q \in Publishers : stage[q] # "idle" =>
                           delivered'[i].event # Current(q)
                      /\ \A g \in Pieces' : g.event # delivered'[i].event
    BY <1>6, <1>8 DEF DeliveredIsOver
  <2>1. CASE i \in 1..n
    BY <1>5, <1>8, <2>1 DEF DeliveredIsOver
  <2>2. CASE i = n + 1
    <3>1. e[2] <= seq[e[1]]
      BY <1>3 DEF PiecesPlaced
    <3> QED
      BY <1>3, <1>5, <1>7, <1>8, <2>2, <3>1 DEF Whole
  <2> QED
    BY <1>8, <2>1, <2>2
<1>14. OrderKept'
  <2> SUFFICES ASSUME qos = "FIFO", NEW i \in 1..(n + 1), NEW g \in inFlight',
                      g.event[1] = delivered'[i].event[1]
               PROVE  delivered'[i].event[2] < g.event[2]
    BY <1>8 DEF OrderKept
  <2>1. g \in inFlight /\ g.event # e /\ g.event \in Events
    BY <1>1, <1>2, <1>5 DEF Pieces
  <2>2. CASE i \in 1..n
    BY <1>8, <2>1, <2>2 DEF OrderKept
  <2>3. CASE i = n + 1
    <3>1. delivered'[i].event = e
      BY <1>8, <2>3 DEF Whole
    <3>2. ~(g.event[2] < e[2])
      BY <1>1, <2>1, <3>1 DEF SentBefore
    <3>3. \A c, d \in Events : c[1] = d[1] /\ c # d => c[2] # d[2]
      BY DEF Events
    <3>4. g.event[2] \in Int /\ e[2] \in Int
      BY <1>3, <2>1, EventsAssumption DEF Events
    <3> QED
      BY <1>3, <2>1, <3>1, <3>2, <3>3, <3>4
  <2> QED
    BY <1>8, <2>2, <2>3
<1> QED
  BY <1>9, <1>10, <1>11, <1>12, <1>13, <1>14

\* When as many parts are here as there are, each is: they have different
\* numbers.
LEMMA AllPartsHere ==
  ASSUME IInv, NEW f \in inFlight, CompletedBy(f)
  PROVE  AllHere(f)
<1> USE DEF IInv
<1> DEFINE S == PartsOf(f.event) \cup {f}
           T == 0..(f.parts - 1)
           number == [g \in S |-> g.part]
<1>1. f \in Pieces /\ f \in Fragment /\ f.parts \in Nat /\ f.part < f.parts /\ f.part \in Nat
  BY DEF TypeOK, Pieces, Fragment, PiecesPlaced
<1>2. \A g \in S : g \in Pieces /\ g.event = f.event /\ g.part \in Nat
  BY DEF TypeOK, Pieces, PartsOf, Fragment
<1>3. number \in Injection(S, T)
  <2>1. \A g \in S : g.part \in T
    BY <1>1, <1>2 DEF PiecesMatch, PiecesPlaced
  <2>2. \A g, h \in S : g.part = h.part => g = h
    BY <1>2 DEF PiecesMatch
  <2> QED
    BY <2>1, <2>2 DEF Injection, IsInjective
<1>4. IsFiniteSet(T) /\ Cardinality(T) = f.parts
  <2>1. 0 \in Int /\ f.parts - 1 \in Int
    BY <1>1
  <2>2. IsFiniteSet(T) /\ Cardinality(T) = IF 0 > f.parts - 1 THEN 0 ELSE f.parts - 1 - 0 + 1
    BY ONLY <2>1, FS_Interval
  <2> QED
    BY <1>1, <2>2
<1>5. IsFiniteSet(S) /\ IsFiniteSet(PartsOf(f.event))
  <2>1. IsFiniteSet(S)
    BY <1>3, <1>4, FS_Injection
  <2> QED
    BY <2>1, FS_Subset
<1>6. f \notin PartsOf(f.event)
  BY DEF PartsOf, NoPieceTwice
<1>7. Cardinality(S) = Cardinality(T)
  BY <1>4, <1>5, <1>6, FS_AddElement DEF CompletedBy
<1>8. number \in Surjection(S, T)
  BY <1>3, <1>4, <1>7, FS_Injection
<1>9. \A i \in T : \E g \in S : g.part = i
  BY <1>8 DEF Surjection
<1> QED
  BY <1>9 DEF AllHere

\* A notification of one part has the whole payload.
LEMMA OnePart ==
  ASSUME IInv, NEW f \in inFlight, ReceiveWhole(f)
  PROVE  /\ AllHere(f)
         /\ store' = store \ PartsOf(f.event)
         /\ delivered' = Append(delivered, Whole(f.event))
<1> USE DEF IInv
<1>1. /\ f \in Pieces /\ f \in Fragment /\ f.parts \in Nat /\ f.part \in Nat
      /\ f.part < f.parts /\ f.parts <= 1
  BY DEF ReceiveWhole, TypeOK, Pieces, Fragment, PiecesPlaced
<1>2. f.part = 0 /\ f.parts = 1
  BY <1>1
<1>3. PartsOf(f.event) = {}
  <2> SUFFICES ASSUME NEW g \in store, g.event = f.event PROVE FALSE
    BY DEF PartsOf
  <2>1. g \in Pieces /\ g.part \in Nat
    BY DEF Pieces, TypeOK, Fragment
  <2>2. g.part < 1
    BY <1>1, <1>2, <2>1 DEF PiecesPlaced, PiecesMatch
  <2>3. g = f
    BY <1>1, <1>2, <2>1, <2>2 DEF PiecesMatch
  <2> QED
    BY <2>3 DEF NoPieceTwice
<1>4. f.first = 0 /\ f.last = Size[f.event]
  BY <1>1, <1>2 DEF PiecesPlaced
<1>5. Joined(<<f>>).first = 0 /\ Joined(<<f>>).last = Size[f.event]
  <2>1. Len(<<f>>) = 1 /\ <<f>>[1] = f
    OBVIOUS
  <2>2. Joined(<<f>>) = [first |-> f.first, last |-> f.last]
    BY <2>1 DEF Joined
  <2> QED
    BY <1>4, <2>2
<1>6. AllHere(f)
  BY <1>2 DEF AllHere
<1> QED
  BY <1>3, <1>5, <1>6 DEF ReceiveWhole, DeliverJoined, Whole

\* Joining all parts in the order of their numbers gives the whole payload.
LEMMA ManyParts ==
  ASSUME IInv, NEW f \in inFlight, ReceiveLastPart(f)
  PROVE  /\ AllHere(f)
         /\ delivered' = Append(delivered, Whole(f.event))
<1> USE DEF IInv
<1> DEFINE S == PartsOf(f.event) \cup {f}
           n == f.parts
           slices == [i \in 1..n |-> CHOOSE g \in S : g.part = i - 1]
<1>1. f \in Pieces /\ n \in Nat /\ n > 1
  BY DEF ReceiveLastPart, TypeOK, Pieces, Fragment
<1>2. AllHere(f)
  BY AllPartsHere DEF ReceiveLastPart
<1>3. ASSUME NEW i \in 1..n
      PROVE  /\ slices[i] \in Pieces /\ slices[i].event = f.event
             /\ slices[i].part = i - 1 /\ slices[i].parts = n
  <2>1. i - 1 \in 0..(n - 1)
    BY <1>1
  <2>2. \E g \in S : g.part = i - 1
    BY <1>2, <2>1 DEF AllHere
  <2>3. slices[i] \in S /\ slices[i].part = i - 1
    BY <2>2
  <2>4. \A g \in S : g \in Pieces /\ g.event = f.event
    BY <1>1 DEF PartsOf, Pieces
  <2>5. \A g \in S : g.parts = n
    BY <1>1, <2>4 DEF PiecesMatch
  <2> QED
    BY <2>3, <2>4, <2>5
<1>4. Len(slices) = n
  BY <1>1
<1> HIDE DEF slices
<1>5. slices[1].first = 0
  BY <1>1, <1>3 DEF PiecesPlaced
<1>6. slices[n].last = Size[f.event]
  BY <1>1, <1>3 DEF PiecesPlaced
<1>7. \A i \in 1..(n - 1) : slices[i].last = slices[i + 1].first
  <2> SUFFICES ASSUME NEW i \in 1..(n - 1) PROVE slices[i].last = slices[i + 1].first
    OBVIOUS
  <2>1. i \in 1..n /\ i + 1 \in 1..n /\ i + 1 - 1 = i - 1 + 1
    BY <1>1
  <2>2. slices[i + 1].part = slices[i].part + 1
    BY <1>3, <2>1
  <2> QED
    BY <1>3, <2>1, <2>2 DEF PiecesMatch
<1>8. Joined(slices).first = 0 /\ Joined(slices).last = Size[f.event]
  BY <1>4, <1>5, <1>6, <1>7 DEF Joined
<1> QED
  BY <1>2, <1>8 DEF ReceiveLastPart, DeliverJoined, Whole, slices

\* Every step of the receiver, delivering or not.
LEMMA ReceiveInv ==
  ASSUME IInv, NEW f \in inFlight, Receive(f)
  PROVE  IInv'
<1>1. /\ Arrives(f) /\ inFlight' = inFlight \ {f}
      /\ Untouched /\ failure' = failure /\ session' = session /\ listening' = listening
  BY DEF Receive, ReceiveWhole, ReceivePart, ReceiveLastPart, Arrives, Untouched,
         options, handleVars
<1>2. CASE ReceiveWhole(f)
  BY <1>1, <1>2, OnePart, DeliverInv
<1>3. CASE ReceivePart(f)
  <2>1. session' \in {"up", "lost"} /\ listening' \in BOOLEAN
    BY <1>1 DEF IInv, TypeOK
  <2>2. /\ inFlight' \subseteq inFlight /\ store' \subseteq Pieces
        /\ inFlight' \cap store' = {} /\ delivered' = delivered
    BY <1>1, <1>3 DEF ReceivePart, Pieces, IInv, NoPieceTwice
  <2> QED
    BY <1>1, <2>1, <2>2, FewerPiecesInv
<1>4. CASE ReceiveLastPart(f)
  <2>1. store' = store \ PartsOf(f.event)
    BY <1>4 DEF ReceiveLastPart
  <2> QED
    BY <1>1, <1>4, <2>1, ManyParts, DeliverInv
<1> QED
  BY <1>2, <1>3, <1>4 DEF Receive

\* Steps of the network, and steps that change nothing.
LEMMA NetworkInv ==
  ASSUME IInv,
         \/ SessionLost \/ StartListening
         \/ \E f \in inFlight : FragmentLost(f)
         \/ UNCHANGED vars
  PROVE  IInv'
<1>1. /\ Untouched /\ failure' = failure /\ inFlight' \subseteq inFlight
      /\ store' = store /\ delivered' = delivered
      /\ session' \in {session, "lost"} /\ listening' \in {listening, TRUE}
  BY DEF SessionLost, StartListening, FragmentLost, Untouched, vars, options,
         handleVars, netVars, receiverVars
<1>2. /\ session' \in {"up", "lost"} /\ listening' \in BOOLEAN
      /\ store' \subseteq Pieces /\ inFlight' \cap store' = {}
  BY <1>1 DEF IInv, TypeOK, Pieces, NoPieceTwice
<1> QED
  BY <1>1, <1>2, FewerPiecesInv

\* Every step keeps the invariant.
LEMMA StepInv == IInv /\ [Next]_vars => IInv'
<1> SUFFICES ASSUME IInv, [Next]_vars PROVE IInv'
  OBVIOUS
<1>1. ASSUME NEW p \in Publishers, Handle(p) PROVE IInv'
  BY <1>1, HandleInv
<1>2. ASSUME NEW p \in Publishers, PublisherStep(p) PROVE IInv'
  BY <1>2, SplitInv, GivesUpInv, HandleOutgoingInv, SendInv DEF PublisherStep
<1>3. ASSUME NEW f \in inFlight, Receive(f) PROVE IInv'
  BY <1>3, ReceiveInv
<1>4. CASE \/ SessionLost \/ StartListening
           \/ \E f \in inFlight : FragmentLost(f)
           \/ UNCHANGED vars
  BY <1>4, NetworkInv
<1> QED
  BY <1>1, <1>2, <1>3, <1>4 DEF Next, ReceiverStep

---------------------------------------------------------------------------
(* Theorems. *)

\* The inductive invariant holds in every reachable state.
THEOREM Invariance == Spec => []IInv
BY InitInv, StepInv, PTL DEF Spec

\* Variables keep their types for all events, headers and limits: among
\* others, no offset leaves the range of unsigned int and what is delivered
\* is an event.
THEOREM TypeCorrect == Spec => []TypeOK
<1>1. IInv => TypeOK
  BY DEF IInv
<1> QED
  BY <1>1, Invariance, PTL

\* AssemblyPool::add and Assembly::add never refuse a fragment that
\* BusImpl::sendNotification has sent.
THEOREM AcceptsOwnTraffic == Spec => []OwnTrafficIsAccepted
<1>1. IInv => OwnTrafficIsAccepted
  <2> SUFFICES ASSUME IInv PROVE OwnTrafficIsAccepted
    OBVIOUS
  <2>1. \A f \in inFlight : ~Twice(f)
    BY DEF IInv, PiecesMatch, NoPieceTwice, Pieces, Twice, PartsOf
  <2>2. \A f, g \in inFlight \cup store : f.event = g.event => f.parts = g.parts
    BY DEF IInv, PiecesMatch, Pieces
  <2> QED
    BY <2>1, <2>2 DEF OwnTrafficIsAccepted
<1> QED
  BY <1>1, Invariance, PTL

Published == {e \in Events : e[2] <= seq[e[1]]}

\* Nothing changes for the channel.
LEMMA Unnoticed ==
  ASSUME qos' = qos, seq' = seq, delivered' = delivered
  PROVE  UNCHANGED Promised!vars
<1>1. (qos = "FIFO")' = (qos = "FIFO")
  OBVIOUS
<1>2. Published' = Published
  BY DEF Published
<1> QED
  BY <1>1, <1>2 DEF Promised!vars, Published

\* handle() publishes an event, whatever becomes of it.
LEMMA HandlePublishes ==
  ASSUME IInv, NEW p \in Publishers, Handle(p)
  PROVE  Promised!Next
<1>1. /\ qos' = qos /\ delivered' = delivered
      /\ seq[p] \in Int /\ seq[p] < MaxEvents /\ seq[p] >= 0 /\ MaxEvents \in Nat
      /\ seq'[p] = seq[p] + 1
      /\ \A q \in Publishers : q # p => seq'[q] = seq[q]
  BY EventsAssumption DEF IInv, TypeOK, Handle, options, receiverVars
<1>2. Current(p)' \in Events /\ Current(p)'[1] = p /\ Current(p)'[2] = seq[p] + 1
  BY <1>1 DEF Current, Events
<1>3. ASSUME NEW e \in Events
      PROVE  e[2] <= seq'[e[1]] <=> e[2] <= seq[e[1]] \/ e = Current(p)'
  <2>1. e[1] \in Publishers /\ e[2] \in Int /\ e = <<e[1], e[2]>>
    BY EventsAssumption DEF Events
  <2>2. CASE e[1] = p
    BY <1>1, <2>1, <2>2 DEF Current
  <2>3. CASE e[1] # p
    BY <1>1, <1>2, <2>1, <2>3
  <2> QED
    BY <2>2, <2>3
<1>4. Published' = Published \cup {Current(p)'}
  BY <1>2, <1>3 DEF Published
<1>5. (qos = "FIFO")' = (qos = "FIFO")
  BY <1>1
<1>6. PICK e \in Events : e = Current(p)'
  BY <1>2
<1>7. Promised!Publish(e)
  BY <1>1, <1>4, <1>5, <1>6 DEF Promised!Publish, Published
<1> QED
  BY <1>6, <1>7 DEF Promised!Next, Promised!Events, Events

\* A delivered event is new, published, whole and, with FIFO, later than
\* those of the same publisher delivered before.
LEMMA ReceiveDelivers ==
  ASSUME IInv, NEW f \in inFlight, ReceiveWhole(f) \/ ReceiveLastPart(f)
  PROVE  Promised!Next
<1> DEFINE e == f.event
<1>1. /\ delivered' = Append(delivered, Whole(e))
      /\ qos' = qos /\ seq' = seq
  BY OnePart, ManyParts DEF ReceiveWhole, ReceiveLastPart, Arrives, options, handleVars
<1>2. f \in Pieces /\ e \in Events /\ e \in Published
  <2>1. f \in Pieces /\ e \in Events
    BY DEF IInv, TypeOK, Pieces, Fragment
  <2> QED
    BY <2>1 DEF IInv, PiecesPlaced, Published
<1>3. ASSUME NEW i \in 1..Len(delivered) PROVE Promised!MayFollow(e, delivered[i].event)
  <2>1. e # delivered[i].event
    BY <1>2 DEF IInv, DeliveredIsOver
  <2>2. qos = "FIFO" /\ e[1] = delivered[i].event[1] => delivered[i].event[2] < e[2]
    BY DEF IInv, OrderKept
  <2> QED
    BY <2>1, <2>2 DEF Promised!MayFollow
<1>4. Published' = Published /\ (qos = "FIFO")' = (qos = "FIFO")
  BY <1>1 DEF Published
<1>5. Promised!Deliver(e)
  BY <1>1, <1>2, <1>3, <1>4 DEF Promised!Deliver, Published, Whole
<1> QED
  BY <1>2, <1>5 DEF Promised!Next, Promised!Events, Events

\* Every other step is unnoticed.
LEMMA StepImplements == IInv /\ [Next]_vars => [Promised!Next]_(Promised!vars)
<1> SUFFICES ASSUME IInv, [Next]_vars
             PROVE  Promised!Next \/ UNCHANGED Promised!vars
  OBVIOUS
<1>1. ASSUME NEW p \in Publishers, Handle(p) PROVE Promised!Next
  BY <1>1, HandlePublishes
<1>2. ASSUME NEW p \in Publishers, PublisherStep(p) PROVE UNCHANGED Promised!vars
  <2>1. qos' = qos /\ seq' = seq /\ delivered' = delivered
    BY <1>2 DEF PublisherStep, Split, HandleThrows, HandleAsserts, HandleOutgoing,
                Send, SendThrows, options, receiverVars
  <2> QED
    BY <2>1, Unnoticed
<1>3. ASSUME NEW f \in inFlight, ReceivePart(f) PROVE UNCHANGED Promised!vars
  <2>1. qos' = qos /\ seq' = seq /\ delivered' = delivered
    BY <1>3 DEF ReceivePart, Arrives, options, handleVars
  <2> QED
    BY <2>1, Unnoticed
<1>4. ASSUME NEW f \in inFlight, ReceiveWhole(f) \/ ReceiveLastPart(f) PROVE Promised!Next
  BY <1>4, ReceiveDelivers
<1>5. CASE \/ SessionLost \/ StartListening
           \/ \E f \in inFlight : FragmentLost(f)
           \/ UNCHANGED vars
  <2>1. qos' = qos /\ seq' = seq /\ delivered' = delivered
    BY <1>5 DEF SessionLost, StartListening, FragmentLost, vars, options,
                handleVars, receiverVars
  <2> QED
    BY <2>1, Unnoticed
<1> QED
  BY <1>1, <1>2, <1>3, <1>4, <1>5 DEF Next, ReceiverStep, Receive

\* Nothing is published or delivered at first.
LEMMA InitImplements == Init => Promised!Init
<1> SUFFICES ASSUME Init PROVE Promised!Init
  OBVIOUS
<1>1. (qos = "FIFO") \in BOOLEAN /\ delivered = <<>>
  BY DEF Init
<1>2. Published = {}
  <2>1. \A e \in Events : e[1] \in Publishers /\ e[2] >= 1 /\ e[2] \in Int
    BY EventsAssumption DEF Events
  <2>2. \A p \in Publishers : seq[p] = 0
    BY DEF Init
  <2> QED
    BY <2>1, <2>2 DEF Published
<1> QED
  BY <1>1, <1>2 DEF Promised!Init, Published

\* Splitting, sending, losing, mixing and joining fragments keep what the
\* transport promises: whole events, at most once, in order if asked for.
THEOREM Implements == Spec => ImplementsChannel
BY InitImplements, StepImplements, Invariance, PTL
   DEF Spec, ImplementsChannel, Promised!Spec

\* Another event is delivered: it may follow what is there already.
LEMMA ChannelKeeps ==
  ASSUME TypeOK, Promised!WholeOnceInOrder, [Promised!Next]_(Promised!vars)
  PROVE  Promised!WholeOnceInOrder'
<1> USE DEF Promised!WholeOnceInOrder
<1>1. delivered \in Seq([event : Events, first : Nat, last : Int])
  BY DEF TypeOK
<1>2. ASSUME NEW e, Promised!Publish(e) PROVE Promised!WholeOnceInOrder'
  BY <1>2 DEF Promised!Publish, Promised!MayFollow
<1>3. ASSUME NEW e, Promised!Deliver(e) PROVE Promised!WholeOnceInOrder'
  <2> DEFINE n == Len(delivered)
             d == [event |-> e, first |-> 0, last |-> Size[e]]
  <2>1. /\ n \in Nat /\ delivered' = Append(delivered, d)
        /\ Published' = Published /\ (qos = "FIFO")' = (qos = "FIFO") /\ e \in Published
        /\ \A i \in 1..n : Promised!MayFollow(e, delivered[i].event)
    BY <1>1, <1>3, LenProperties DEF Promised!Deliver, Published
  <2> HIDE DEF d
  <2>2. /\ Len(delivered') = n + 1
        /\ delivered'[n + 1] = d
        /\ \A i \in 1..n : delivered'[i] = delivered[i]
    BY <1>1, <2>1, AppendProperties DEF TypeOK
  <2>3. d.event = e /\ d.first = 0 /\ d.last = Size[e]
    BY DEF d
  <2> QED
    BY <2>1, <2>2, <2>3 DEF Promised!MayFollow, Published
<1>4. CASE UNCHANGED Promised!vars
  BY <1>4 DEF Promised!vars, Promised!MayFollow
<1> QED
  BY <1>2, <1>3, <1>4 DEF Promised!Next

\* What a remote in-connector has been given was published, is whole, has not
\* been given before, and with FIFO is younger than all it has had from the
\* same publisher.
THEOREM WholeOnceAndInOrder == Spec => []Promised!WholeOnceInOrder
<1>1. Init => Promised!WholeOnceInOrder
  BY DEF Init, Promised!WholeOnceInOrder
<1>2. IInv /\ Promised!WholeOnceInOrder /\ [Next]_vars => Promised!WholeOnceInOrder'
  BY StepImplements, ChannelKeeps DEF IInv
<1> QED
  BY <1>1, <1>2, Invariance, PTL DEF Spec

---------------------------------------------------------------------------
(* The number of fragments. *)

\* What was split off so far took all the room of its fragments, and the last
\* one was needed.
Counted(p) ==
  LET n    == Len(fragments[p])
      max  == maxFragmentSize[p]
      rest == max - IdSize
  IN  IF max < MinDataSpace THEN n = 1
      ELSE /\ rest > 0
           /\ offset[p] = max - Header[Current(p)] + (n - 1) * rest
           /\ n > 1 => offset[p] - rest < Payload(p)

AllCounted ==
  \A p \in Publishers : stage[p] # "idle" /\ fragments[p] # <<>> => Counted(p)

\* The quotient is the number it lies at.
LEMMA Quotient ==
  \A a, r, q \in Int : r > 0 /\ q * r <= a /\ a < q * r + r => a \div r = q
BY SMT

\* A turn of the loop takes all the room beside its header.
LEMMA SplitCounts ==
  ASSUME IInv, AllCounted, NEW p \in Publishers, Split(p)
  PROVE  Counted(p)'
<1> DEFINE n == Len(fragments[p])
           max == maxFragmentSize[p]
           d == Minus(max, HeaderSize(p))
           o == (offset[p] + d) % Modulus
           size == Payload(p)
           head == Header[Current(p)]
<1>1. /\ stage[p] = "splitting" /\ MoreToSplit(p) /\ HeaderSize(p) < HeaderLimit(p)
      /\ fragments' = [fragments EXCEPT ![p] = Append(@, SliceAt(p, d))]
      /\ offset' = [offset EXCEPT ![p] = o]
      /\ UNCHANGED <<maxFragmentSize, seq>>
  BY DEF Split, At, options
<1>2. SplitSoFar(p) /\ Current(p) \in Events /\ fragments[p] \in Seq(Slice) /\ TypeOK
  BY <1>1 DEF IInv, Handling, SplitSoFar, TypeOK
<1>3. /\ fragments[p] # <<>> => offset[p] < size
      /\ max < MinDataSpace => fragments[p] = <<>>
      /\ max >= MinDataSpace =>
           HeaderSize(p) < max /\ o = offset[p] + (max - HeaderSize(p))
      /\ SliceAt(p, d) \in Slice
  BY <1>1, <1>2, OneSplit
<1>4. /\ size \in Nat /\ head \in Nat /\ IdSize \in Nat /\ IdSize <= head
      /\ max \in Nat /\ n \in Nat /\ offset[p] \in Nat
  <2>1. max \in 0..(Modulus - 1) /\ offset[p] \in 0..(Modulus - 1)
    BY <1>2, CurrentEvent DEF TypeOK
  <2>2. Modulus \in Nat
    BY WidthAssumption
  <2>3. max \in Nat /\ offset[p] \in Nat
    BY <2>1, <2>2
  <2> QED
    BY <1>2, <2>3, CurrentEvent, EventsAssumption
<1>5. Len(fragments'[p]) = n + 1 /\ offset'[p] = o
  BY <1>1, <1>2, <1>3 DEF TypeOK
<1>6. Current(p)' = Current(p) /\ Payload(p)' = size
  BY <1>1 DEF Current, Payload
<1>7. n = 0 <=> fragments[p] = <<>>
  BY <1>2, EmptySeq
<1> DEFINE rest == max - IdSize
<1>8. ASSUME max >= MinDataSpace
      PROVE  rest > 0 /\ o = max - head + n * rest /\ (n + 1 > 1 => o - rest < size)
  <2>1. CASE n = 0
    <3>1. offset[p] = 0 /\ HeaderSize(p) = head
      BY <1>2, <1>7, <2>1 DEF SplitSoFar, HeaderSize
    <3>2. n * rest = 0
      BY <1>4, <2>1
    <3>3. head < max /\ o = 0 + (max - head)
      BY <1>3, <1>8, <3>1
    <3> HIDE DEF o, n
    <3> QED
      BY <1>4, <2>1, <3>2, <3>3
  <2>2. CASE n > 0
    <3>1. HeaderSize(p) = IdSize /\ offset[p] < size
      BY <1>3, <1>7, <2>2 DEF HeaderSize
    <3>2. Counted(p)
      BY <1>1, <1>7, <2>2 DEF AllCounted
    <3>3. offset[p] = max - head + (n - 1) * rest
      BY <1>8, <1>4, <3>2 DEF Counted, MinDataSpace
    <3>4. (n - 1) * rest + rest = n * rest
      <4>1. \A k, r \in Int : (k - 1) * r + r = k * r
        BY SMT
      <4>2. n \in Int /\ rest \in Int
        BY <1>4
      <4> HIDE DEF n, rest
      <4> QED
        BY <4>1, <4>2
    <3>5. IdSize < max /\ o = offset[p] + rest
      BY <1>3, <1>8, <3>1
    <3> DEFINE before == (n - 1) * rest
               now == n * rest
    <3>6. before \in Int /\ now \in Int
      BY <1>4
    <3> HIDE DEF o, n, before, now
    <3>7. o = max - head + now /\ o - rest = offset[p] /\ rest > 0
      BY <1>4, <3>3, <3>4, <3>5, <3>6 DEF before, now
    <3> QED
      BY <3>1, <3>7 DEF now
  <2> QED
    BY <1>4, <2>1, <2>2
<1>9. max < MinDataSpace => n + 1 = 1
  BY <1>3, <1>7
<1>10. (n + 1) - 1 = n
  BY <1>4
<1>11. maxFragmentSize'[p] = max /\ Header[Current(p)]' = head
  BY <1>1, <1>6
<1>12. IF max < MinDataSpace THEN n + 1 = 1
       ELSE /\ rest > 0
            /\ o = max - head + ((n + 1) - 1) * rest
            /\ n + 1 > 1 => o - rest < size
  <2>1. MinDataSpace \in Nat /\ (max >= MinDataSpace \/ max < MinDataSpace)
    BY <1>4 DEF MinDataSpace
  <2> HIDE DEF o, n, size, head, max, rest
  <2> QED
    BY <1>8, <1>9, <1>10, <2>1
<1> HIDE DEF o, n, size, head, max
<1> QED
  BY <1>5, <1>6, <1>11, <1>12 DEF Counted

\* Other steps leave the fragments of a busy publisher alone.
LEMMA CountStep == IInv /\ AllCounted /\ [Next]_vars => AllCounted'
<1> SUFFICES ASSUME IInv, AllCounted, [Next]_vars PROVE AllCounted'
  OBVIOUS
\* A publisher whose event, fragments and offset stay.
<1>1. ASSUME NEW q \in Publishers, stage'[q] # "idle" => stage[q] # "idle",
             fragments'[q] = fragments[q], offset'[q] = offset[q], seq'[q] = seq[q],
             maxFragmentSize' = maxFragmentSize
      PROVE  stage'[q] # "idle" /\ fragments'[q] # <<>> => Counted(q)'
  BY <1>1 DEF AllCounted, Counted, Current, Payload
<1>2. ASSUME NEW p \in Publishers, Handle(p) PROVE AllCounted'
  <2>1. /\ fragments'[p] = <<>> /\ maxFragmentSize' = maxFragmentSize
        /\ \A q \in Publishers : q # p =>
             /\ stage'[q] = stage[q] /\ fragments'[q] = fragments[q]
             /\ offset'[q] = offset[q] /\ seq'[q] = seq[q]
    BY <1>2 DEF Handle, IInv, TypeOK, options
  <2> QED
    BY <1>1, <2>1 DEF AllCounted
<1>3. ASSUME NEW p \in Publishers, Split(p) PROVE AllCounted'
  <2>1. /\ maxFragmentSize' = maxFragmentSize /\ stage' = stage /\ seq' = seq
        /\ \A q \in Publishers : q # p =>
             fragments'[q] = fragments[q] /\ offset'[q] = offset[q]
    BY <1>3 DEF Split, IInv, TypeOK, options
  <2> QED
    BY <1>1, <1>3, <2>1, SplitCounts DEF AllCounted
<1>4. ASSUME NEW p \in Publishers,
             \/ HandleThrows(p) \/ HandleAsserts(p) \/ HandleOutgoing(p)
             \/ Send(p) \/ SendThrows(p)
      PROVE  AllCounted'
  <2>1. UNCHANGED <<maxFragmentSize, seq, fragments, offset>>
    BY <1>4 DEF HandleThrows, HandleAsserts, HandleOutgoing, Send, SendThrows, options
  <2>2. \A q \in Publishers : stage'[q] # "idle" => stage[q] # "idle"
    BY <1>4 DEF HandleThrows, HandleAsserts, HandleOutgoing, Send, SendThrows, At,
                IInv, TypeOK
  <2> QED
    BY <1>1, <2>1, <2>2 DEF AllCounted
<1>5. ASSUME UNCHANGED <<maxFragmentSize, handleVars>> PROVE AllCounted'
  BY <1>1, <1>5 DEF handleVars, AllCounted
<1> QED
  BY <1>2, <1>3, <1>4, <1>5
  DEF Next, PublisherStep, ReceiverStep, Receive, ReceiveWhole, ReceivePart,
      ReceiveLastPart, Arrives, FragmentLost, SessionLost, StartListening, vars, options

\* handle() makes as many fragments as the arithmetic says, for all payloads,
\* headers and limits, those for which the space wraps around included.
THEOREM SplitsRight == Spec => []SplitsAsReference
<1>1. Init => AllCounted
  BY DEF Init, AllCounted
<1>2. IInv /\ AllCounted => SplitsAsReference
  <2> SUFFICES ASSUME IInv, AllCounted, NEW p \in Publishers, stage[p] = "sending"
               PROVE  Len(fragments[p]) = ReferenceParts(Current(p), maxFragmentSize[p])
    BY DEF SplitsAsReference
  <2> DEFINE n == Len(fragments[p])
             max == maxFragmentSize[p]
             rest == max - IdSize
             head == Header[Current(p)]
             size == Payload(p)
  <2>1. fragments[p] # <<>> /\ ~(offset[p] < size) /\ Current(p) \in Events
    BY DEF IInv, Handling, SplitSoFar, MoreToSplit, Payload
  <2>2. /\ size \in Nat /\ head \in Nat /\ IdSize \in Nat /\ IdSize <= head
        /\ max \in Nat /\ n \in Nat /\ offset[p] \in Nat
    <3>1. max \in 0..(Modulus - 1) /\ offset[p] \in 0..(Modulus - 1)
      BY <2>1, CurrentEvent DEF IInv, TypeOK
    <3>2. Modulus \in Nat /\ fragments[p] \in Seq(Slice)
      BY WidthAssumption DEF IInv, TypeOK
    <3>3. max \in Nat /\ offset[p] \in Nat
      BY <3>1, <3>2
    <3> QED
      BY <2>1, <3>2, <3>3, CurrentEvent, EventsAssumption DEF IInv
  <2>3. n # 0
    BY <2>1, EmptySeq DEF IInv, TypeOK
  <2>4. Counted(p)
    BY <2>1 DEF AllCounted
  <2>5. CASE max < MinDataSpace
    BY <2>4, <2>5 DEF Counted, ReferenceParts
  <2>6. CASE max >= MinDataSpace
    <3>1. /\ rest > 0
          /\ offset[p] = max - head + (n - 1) * rest
          /\ n > 1 => offset[p] - rest < size
      BY <2>2, <2>4, <2>6 DEF Counted, MinDataSpace
    <3>2. CASE n = 1
      <4>1. (n - 1) * rest = 0
        BY <2>2, <3>2
      <4>2. size <= max - head
        BY <2>1, <2>2, <3>1, <4>1
      <4> QED
        BY <3>2, <4>2 DEF ReferenceParts, Payload
    <3>3. CASE n > 1
      <4> DEFINE k == n - 1
                 r == rest
                 a == size - (max - head) + r - 1
      <4>1. k \in Nat /\ k >= 1 /\ r \in Nat /\ r > 0 /\ a \in Int
        <5>1. k \in Nat /\ k >= 1
          BY <2>2, <3>3
        <5>2. rest \in Int /\ rest > 0
          BY <2>2, <3>1
        <5>3. r \in Nat /\ r > 0
          BY <5>2
        <5>4. a \in Int
          BY <2>2, <5>2
        <5> QED
          BY <5>1, <5>3, <5>4
      <4>2. offset[p] = max - head + k * r /\ offset[p] - r < size /\ size <= offset[p]
        BY <2>1, <2>2, <3>1, <3>3
      <4>3. k * r \in Int /\ k * r >= r
        <5>1. \A i, j \in Int : i >= 1 /\ j > 0 => i * j >= j /\ i * j \in Int
          BY SMT
        <5> HIDE DEF k, r
        <5> QED
          BY <4>1, <5>1
      <4> HIDE DEF k, r
      <4>4. k * r <= a /\ a < k * r + r
        BY <2>2, <4>1, <4>2, <4>3
      <4>5. size > max - head
        BY <2>2, <4>1, <4>2, <4>3
      <4> HIDE DEF a
      <4>6. a \div r = k
        BY <4>1, <4>4, Quotient
      <4>7. ~(max < MinDataSpace \/ size <= max - head)
        BY <2>2, <2>6, <4>5 DEF MinDataSpace
      <4>8. ReferenceParts(Current(p), max) = 1 + a \div r
        BY <4>7 DEF ReferenceParts, Payload, a, r
      <4>9. n = 1 + k
        BY <2>2 DEF k
      <4> QED
        BY <4>6, <4>8, <4>9
    <3>4. n = 1 \/ n > 1
      <4>1. \A i \in Nat : i # 0 => i = 1 \/ i > 1
        OBVIOUS
      <4> QED
        BY <2>2, <2>3, <4>1
    <3> QED
      BY <3>2, <3>3, <3>4
  <2> QED
    BY <2>2, <2>5, <2>6 DEF MinDataSpace
<1> QED
  BY <1>1, <1>2, CountStep, Invariance, PTL DEF Spec

\* A turn of the loop of handle() is the last one or gets on by more than
\* MinDataSpace bytes.
GetsOn(p) == ~MoreToSplit(p)' \/ offset'[p] > offset[p] + MinDataSpace

\* Splitting ends: the loop has no turn that leaves the offset where it was or
\* throws it back, not even when the arithmetic of unsigned int wraps around.
THEOREM SplittingGetsOn == Spec => [][\A p \in Publishers : Split(p) => GetsOn(p)]_vars
<1>1. ASSUME IInv, NEW p \in Publishers, Split(p) PROVE GetsOn(p)
  <2> DEFINE d == Minus(maxFragmentSize[p], HeaderSize(p))
             o == (offset[p] + d) % Modulus
  <2>1. /\ TypeOK /\ SplitSoFar(p) /\ MoreToSplit(p) /\ HeaderSize(p) < HeaderLimit(p)
        /\ offset' = [offset EXCEPT ![p] = o]
        /\ fragments' = [fragments EXCEPT ![p] = Append(@, SliceAt(p, d))]
        /\ UNCHANGED seq
    BY <1>1 DEF Split, At, IInv, Handling
  <2>2. /\ SliceAt(p, d) \in Slice
        /\ o < Payload(p) => maxFragmentSize[p] >= MinDataSpace
        /\ maxFragmentSize[p] >= MinDataSpace =>
             o = offset[p] + (maxFragmentSize[p] - HeaderSize(p))
    BY <2>1, OneSplit
  <2>3. offset'[p] = o /\ offset[p] \in Nat /\ fragments[p] \in Seq(Slice)
    BY <2>1 DEF TypeOK
  <2>4. fragments'[p] # <<>>
    BY <2>1, <2>2, <2>3, AppendProperties, EmptySeq DEF TypeOK
  <2>5. MoreToSplit(p)' => o < Payload(p)
    BY <2>1, <2>3, <2>4 DEF MoreToSplit, Payload, Current
  <2>6. /\ maxFragmentSize[p] \in 0..(Modulus - 1) /\ Modulus \in Nat /\ MinDataSpace \in Nat
        /\ HeaderSize(p) \in Nat /\ Payload(p) \in Nat
    BY <2>1, CurrentEvent, EventsAssumption, WidthAssumption
    DEF SplitSoFar, HeaderSize, MinDataSpace
  <2>7. ASSUME maxFragmentSize[p] >= MinDataSpace
        PROVE  HeaderSize(p) < maxFragmentSize[p] - MinDataSpace
    <3>1. MinDataSpace \in 0..(Modulus - 1)
      BY <2>6, <2>7
    <3>2. HeaderLimit(p) = maxFragmentSize[p] - MinDataSpace
      BY <2>6, <2>7, <3>1, Wraps DEF HeaderLimit
    <3> QED
      BY <2>1, <3>2
  <2>8. o < Payload(p) => o > offset[p] + MinDataSpace
    <3> HIDE DEF o
    <3> QED
      BY <2>2, <2>3, <2>6, <2>7
  <2> QED
    BY <2>3, <2>5, <2>8 DEF GetsOn
<1>2. IInv /\ [Next]_vars => [\A p \in Publishers : Split(p) => GetsOn(p)]_vars
  BY <1>1
<1> QED
  BY <1>2, Invariance, PTL DEF Spec
=============================================================================
