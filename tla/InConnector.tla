----------------------------- MODULE InConnector -----------------------------
(***************************************************************************)
(* What an in-connector does with a notification (InConnector.cpp): it     *)
(* converts it and calls its handlers one after the other.  Converters and *)
(* handlers may throw; the connector's error strategy then goes on or ends *)
(* the process.  Within a process one call runs at a time, as its callers  *)
(* hold BusImpl::sinkMutex.  Life cycle: see Bus.                          *)
(***************************************************************************)
EXTENDS Naturals, Sequences

CONSTANTS
  Processes,
  Sinks,          \* the in-connectors
  HandlerCount,   \* how many handlers each has
  errorStrategy,  \* of each
  NoCall

Strategies == {"LOG", "PRINT", "EXIT"}

ASSUME HandlersAssumption ==
  /\ HandlerCount \in [Sinks -> Nat]
  /\ errorStrategy \in [Sinks -> Strategies]

\* The i-th handler of s.
AllHandlers == UNION {{s} \X (1..HandlerCount[s]) : s \in Sinks}

VARIABLES
  running,  \* processes that have not exited
  call,     \* the handleNotification of each process, or NoCall
  handled,  \* history: the events each handler has been called for
  blanks    \* history: the handlers that were given a blank one

connectorVars == <<running, call, handled, blanks>>

\* blank: the conversion has failed and the event is as it was constructed.
Calls(events) ==
  [sink : Sinks, event : events, blank : BOOLEAN, next : Nat \ {0}]

ConnectorTypeOK(events) ==
  /\ running \subseteq Processes
  /\ call \in [Processes -> Calls(events) \cup {NoCall}]
  /\ handled \in [AllHandlers -> Seq(events)]
  /\ blanks \subseteq AllHandlers

ConnectorInit ==
  /\ running = Processes
  /\ call = [p \in Processes |-> NoCall]
  /\ handled = [h \in AllHandlers |-> <<>>]
  /\ blanks = {}

\* handleError: logging and printing return to the caller, EXIT does not.
ErrorReturns(s) == errorStrategy[s] \in {"LOG", "PRINT"}

ErrorExits(p, s) ==
  /\ errorStrategy[s] = "EXIT"
  /\ running' = running \ {p}

\* Mutant: one before the first.
LoopFromZero(s, e, b, i) ==
  IF i - 1 < HandlerCount[s]
  THEN [sink |-> s, event |-> e, blank |-> b, next |-> i - 1] ELSE NoCall

\* The loop over the handlers in front of the i-th, or at its end.
Loop(s, e, b, i) ==
  IF i <= HandlerCount[s]
  THEN [sink |-> s, event |-> e, blank |-> b, next |-> i] ELSE NoCall

Calling(p, s, e, b) == call' = [call EXCEPT ![p] = Loop(s, e, b, 1)]

\* notificationToEvent.  A failed conversion is reported and the event, which
\* nothing has been filled into, goes on to the handlers.
HandleNotification(p, s, e) ==
  /\ p \in running
  /\ call[p] = NoCall
  /\ \/ Calling(p, s, e, FALSE) /\ UNCHANGED running
     \/ ErrorReturns(s) /\ Calling(p, s, e, TRUE) /\ UNCHANGED running
     \/ ErrorExits(p, s) /\ UNCHANGED call
  /\ UNCHANGED <<handled, blanks>>

\* (*it)->handle(event): the handler has the event, and returns or throws.  An
\* exception ends the loop; the handlers after this one do not get the event.
CallHandler(p) ==
  LET c == call[p]
      h == <<c.sink, c.next>>
  IN /\ p \in running
     /\ c # NoCall
     /\ handled' = [handled EXCEPT ![h] = Append(@, c.event)]
     /\ blanks' = IF c.blank THEN blanks \cup {h} ELSE blanks
     /\ \/ /\ call' = [call EXCEPT ![p] = Loop(c.sink, c.event, c.blank, c.next + 1)]
           /\ UNCHANGED running
        \/ /\ ErrorReturns(c.sink)
           /\ call' = [call EXCEPT ![p] = NoCall]
           /\ UNCHANGED running
        \/ ErrorExits(p, c.sink) /\ UNCHANGED call

---------------------------------------------------------------------------

\* The message given to the user when a conversion fails: "Continue with next
\* notification".  No handler sees the event that was not converted.
NoBlankEvent == blanks = {}
=============================================================================
