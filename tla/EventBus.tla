------------------------------ MODULE EventBus ------------------------------
(***************************************************************************)
(* What the bus promises the handlers of in-connectors ("Notifications are *)
(* distributed to all receiving connectors whose scope is a super-scope",  *)
(* Bus.h): a handler is called only with events that were published, on a  *)
(* scope it listens to, at most once, and in the order of each publisher.  *)
(***************************************************************************)
EXTENDS Naturals, Sequences

CONSTANTS
  Listeners,
  Events,  \* records with publisher, number and scope
  Hears    \* the scopes whose events each listener is to get

VARIABLES
  published,  \* the events published so far
  received    \* what each listener has been called with

\* e comes before f if one publisher has published both.
Earlier(e, f) == e.publisher = f.publisher => e.number < f.number

Init ==
  /\ published = {}
  /\ received = [l \in Listeners |-> <<>>]

Publish(e) ==
  /\ \A f \in published : Earlier(f, e)
  /\ published' = published \cup {e}
  /\ UNCHANGED received

Receive(l, e) ==
  /\ e \in published
  /\ e.scope \in Hears[l]
  /\ \A i \in DOMAIN received[l] : Earlier(received[l][i], e)
  /\ received' = [received EXCEPT ![l] = Append(@, e)]
  /\ UNCHANGED published

Next ==
  \E e \in Events :
    \/ Publish(e)
    \/ \E l \in Listeners : Receive(l, e)

Spec == Init /\ [][Next]_<<published, received>>

---------------------------------------------------------------------------

\* What follows for a handler: all it was called with was published, on a
\* scope it hears, and of any two events of one publisher the later call has
\* the later one; none comes twice.
OnceInOrder ==
  \A l \in Listeners : \A i \in DOMAIN received[l] :
    LET e == received[l][i]
    IN  /\ e \in published
        /\ e.scope \in Hears[l]
        /\ \A j \in DOMAIN received[l] : j < i => Earlier(received[l][j], e)
=============================================================================
