------------------------- MODULE SpreadConnection -------------------------
(***************************************************************************)
(* One connection to the Spread daemon: the class SpreadConnection and, as *)
(* an external part, what the daemon and the Spread client library do for  *)
(* it.  The module has no next-state relation of its own; it gives the     *)
(* outcomes of every method (what it does, when it throws) as actions over *)
(* the four variables below, and Bus composes them.                        *)
(*                                                                         *)
(* A message is the scope of the notification it carries, or Interrupt     *)
(* (what interruptReceive sends to the connection's private group), or     *)
(* Garbage (contents for which handling ends in a CommException).          *)
(***************************************************************************)
EXTENDS Naturals, Sequences

CONSTANTS
  Scopes,  \* scopes of notifications and of sinks
  Groups   \* Spread group names

Interrupt == "interrupt"
Garbage == "garbage"

\* Scopes are told apart from the two special messages.
ASSUME MessageAssumption == Scopes \cap {Interrupt, Garbage} = {}

VARIABLES
  connected,  \* the flag SpreadConnection::connected
  session,    \* what the daemon thinks of it: "up", or "lost" for good
  joined,     \* groups the session is a member of, in request order
  mailbox     \* messages the daemon has queued for the session

connVars == <<connected, session, joined, mailbox>>

Message == Scopes \cup {Interrupt, Garbage}

ConnTypeOK ==
  /\ connected \in BOOLEAN
  /\ session \in {"up", "lost"}
  /\ joined \subseteq Groups
  /\ mailbox \in Seq(Message)

\* The state activate() leaves when SP_connect accepts the session.
ConnInit ==
  /\ connected = TRUE
  /\ session = "up"
  /\ joined = {}
  /\ mailbox = <<>>

---------------------------------------------------------------------------
(* Outcomes of the methods. *)

\* SP_join, SP_leave and SP_multicast succeed on a live session only; with
\* the flag down the methods throw IllegalStateException, with the session
\* lost they throw CommException.
Usable == connected /\ session = "up"

ConnJoin(g) ==
  /\ Usable
  /\ joined' = joined \cup {g}
  /\ UNCHANGED <<connected, session, mailbox>>

ConnLeave(g) ==
  /\ Usable
  /\ joined' = joined \ {g}
  /\ UNCHANGED <<connected, session, mailbox>>

\* SP_receive fails once the session is lost: CommException.  (On a closed
\* connection receive() throws IllegalStateException; no caller gets there.)
ReceiveFails ==
  /\ connected
  /\ session = "lost"
  /\ UNCHANGED connVars

\* SP_receive returns the oldest queued message.  What the client library
\* had already read may still be returned after the session was lost.
ReceiveMessage(m) ==
  /\ connected
  /\ mailbox # <<>>
  /\ m = Head(mailbox)
  /\ mailbox' = Tail(mailbox)
  /\ UNCHANGED <<connected, session, joined>>

\* send() uses SELF_DISCARD, so nothing comes back to this mailbox.
SendReturns ==
  /\ Usable
  /\ UNCHANGED connVars

\* Mutant: the interrupt is sent with SELF_DISCARD like everything else.
InterruptDiscarded ==
  /\ connected
  /\ UNCHANGED connVars

\* interruptReceive() multicasts to the private group without SELF_DISCARD
\* and ignores the result.
InterruptReceive ==
  /\ connected
  /\ mailbox' = IF session = "up" THEN Append(mailbox, Interrupt) ELSE mailbox
  /\ UNCHANGED <<connected, session, joined>>

\* deactivate(): the result of SP_disconnect is ignored.
Disconnect ==
  /\ connected
  /\ connected' = FALSE
  /\ joined' = {}
  /\ mailbox' = <<>>
  /\ UNCHANGED session

---------------------------------------------------------------------------
(* The daemon. *)

\* Another client's message arrives.  A leave takes effect after what the
\* daemon has already routed and several scopes can share a group name, so
\* a notification of any scope may come in.
DaemonDelivers(m) ==
  /\ Usable
  /\ mailbox' = Append(mailbox, m)
  /\ UNCHANGED <<connected, session, joined>>

\* The daemon goes away or drops a client that reads too slowly.
DaemonDropsSession ==
  /\ Usable
  /\ session' = "lost"
  /\ joined' = {}
  /\ UNCHANGED <<connected, mailbox>>

===========================================================================
