------------------------------ MODULE Channel ------------------------------
(***************************************************************************)
(* What the transport promises to a remote in-connector: an event arrives  *)
(* with its whole payload or not at all, at most once, and only if it was  *)
(* published; with ordered quality of service the events of one publisher  *)
(* arrive in the order of publication.  An event is a publisher and a      *)
(* sequence number, its payload the range of bytes from first to last.     *)
(***************************************************************************)
EXTENDS Naturals, Sequences

CONSTANTS
  Publishers,
  MaxEvents,  \* bound: events of one publisher
  Size        \* payload size of each event

Events == Publishers \X (1..MaxEvents)

VARIABLES
  ordered,    \* QualityOfServiceSpec::ORDERED
  published,  \* events handed to the transport
  delivered   \* what the in-connector got, in this order

vars == <<ordered, published, delivered>>

Init ==
  /\ ordered \in BOOLEAN
  /\ published = {}
  /\ delivered = <<>>

Publish(e) ==
  /\ published' = published \cup {e}
  /\ UNCHANGED <<ordered, delivered>>

MayFollow(e, d) ==
  /\ e # d
  /\ ordered /\ e[1] = d[1] => d[2] < e[2]

Deliver(e) ==
  /\ e \in published
  /\ \A i \in 1..Len(delivered) : MayFollow(e, delivered[i].event)
  /\ delivered' = Append(delivered, [event |-> e, first |-> 0, last |-> Size[e]])
  /\ UNCHANGED <<ordered, published>>

Next == \E e \in Events : Publish(e) \/ Deliver(e)

Spec == Init /\ [][Next]_vars

---------------------------------------------------------------------------

\* What follows for the in-connector: all it has got was published and is
\* whole, and of any two events the later one may follow the other.
WholeOnceInOrder ==
  \A i \in 1..Len(delivered) :
    LET d == delivered[i]
    IN  /\ d.event \in published
        /\ d.first = 0 /\ d.last = Size[d.event]
        /\ \A j \in 1..(i - 1) : MayFollow(d.event, delivered[j].event)
=============================================================================
