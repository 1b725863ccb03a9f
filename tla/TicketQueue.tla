------------------------------ MODULE TicketQueue ------------------------------
(***************************************************************************)
(* What the inbound pipeline promises, without daemons, leases, timers,    *)
(* tables or retention: a ticket dispenser per route.  An arriving message *)
(* takes the next ticket and holds it; the ticket is then queued or given  *)
(* up.  Queued tickets are served, one at a time and in ticket order, and  *)
(* a service ends the ticket or returns it to its place.  A ticket that is *)
(* over never comes back.                                                  *)
(***************************************************************************)
EXTENDS Naturals

CONSTANT Route

VARIABLES
  next,     \* the next ticket of each route
  held,     \* tickets taken and not yet queued
  waiting,  \* tickets queued
  serving   \* tickets being served

vars == <<next, held, waiting, serving>>

Init ==
  /\ next = [r \in Route |-> 1]
  /\ held = {} /\ waiting = {} /\ serving = {}

Take(r) ==
  /\ held' = held \cup {<<r, next[r]>>}
  /\ next' = [next EXCEPT ![r] = @ + 1]
  /\ UNCHANGED <<waiting, serving>>

Queue(t) ==
  /\ t \in held
  /\ held' = held \ {t} /\ waiting' = waiting \cup {t}
  /\ UNCHANGED <<next, serving>>

\* No ticket of T stands before t on its route.
First(t, T) == \A u \in T : u[1] = t[1] => u[2] >= t[2]

\* Give up some held tickets (D), return (B) and end (E) some services, and
\* perhaps serve a waiting ticket that has none before it.
Settle(D, B, E) ==
  /\ D \subseteq held /\ B \cup E \subseteq serving /\ B \cap E = {}
  /\ held' = held \ D
  /\ \/ waiting' = waiting \cup B /\ serving' = serving \ (B \cup E)
     \/ \E t \in waiting :
          /\ First(t, held' \cup waiting \cup (serving \ E))
          /\ waiting' = (waiting \cup B) \ {t}
          /\ serving' = (serving \ (B \cup E)) \cup {t}
  /\ UNCHANGED next

Next ==
  \/ \E r \in Route : Take(r)
  \/ \E t \in held : Queue(t)
  \/ \E D \in SUBSET held, B \in SUBSET serving, E \in SUBSET serving : Settle(D, B, E)

Spec == Init /\ [][Next]_vars
================================================================================
