-------------------------- MODULE TicketedExecutor --------------------------
(***************************************************************************)
(* What the storage worker promises to the task that submits requests,     *)
(* with no slots, no queue and no threads: every accepted request gets the *)
(* next ticket; the fate of the tickets is decided one at a time, in       *)
(* ticket order; a ticket whose cancellation was accepted is never         *)
(* executed; results appear in ticket order and are handed back once.      *)
(***************************************************************************)
EXTENDS Naturals

VARIABLES
  issued,     \* tickets 1 .. issued have been handed out
  cancelled,  \* tickets whose cancellation was accepted
  decided,    \* tickets 1 .. decided are executed or dropped for good
  executed,   \* the tickets whose request has been (or is being) executed
  published,  \* the results of tickets 1 .. published are available
  released    \* the tickets whose result was given back

vars == <<issued, cancelled, decided, executed, published, released>>

Init ==
  /\ issued = 0
  /\ cancelled = {}
  /\ decided = 0
  /\ executed = {}
  /\ published = 0
  /\ released = {}

Issue ==
  /\ issued' = issued + 1
  /\ UNCHANGED <<cancelled, decided, executed, published, released>>

\* A cancellation is accepted only while the ticket's fate is open.
Cancel(t) ==
  /\ t \in (decided + 1) .. issued
  /\ t \notin cancelled
  /\ cancelled' = cancelled \cup {t}
  /\ UNCHANGED <<issued, decided, executed, published, released>>

\* The fate of the oldest open ticket: executed unless it was cancelled.
Decide ==
  /\ decided < issued
  /\ decided = published
  /\ decided' = decided + 1
  /\ executed' = IF decided' \in cancelled THEN executed ELSE executed \cup {decided'}
  /\ UNCHANGED <<issued, cancelled, published, released>>

Publish ==
  /\ published < decided
  /\ published' = published + 1
  /\ UNCHANGED <<issued, cancelled, decided, executed, released>>

Release(t) ==
  /\ t \in 1 .. published
  /\ t \notin released
  /\ released' = released \cup {t}
  /\ UNCHANGED <<issued, cancelled, decided, executed, published>>

\* An executor that runs its requests inside the call that submits them.
IssueAndRun ==
  /\ issued = published
  /\ issued' = issued + 1
  /\ decided' = decided + 1
  /\ executed' = executed \cup {decided'}
  /\ published' = published + 1
  /\ UNCHANGED <<cancelled, released>>

Next ==
  \/ Issue
  \/ \E t \in (decided + 1) .. issued : Cancel(t)
  \/ Decide
  \/ Publish
  \/ \E t \in 1 .. published : Release(t)
  \/ IssueAndRun

Spec == Init /\ [][Next]_vars
=============================================================================
