--------------------------- MODULE InboundRefinement ---------------------------
(***************************************************************************)
(* The mapping under which the inbound pipeline implements TicketQueue: a  *)
(* ticket is a route and one of its sequence numbers; and the one under    *)
(* which its daemons implement DatabaseOwnership.                          *)
(***************************************************************************)
EXTENDS InboundPipeline

HeldTickets ==
  {<<m[1], admission[m].seq>> : m \in {k \in Message : admission[k].disp = "reserved"}}
WaitingTickets ==
  {<<m[1], inbox[m].seq>> :
     m \in {k \in Message : inbox[k].status \in {"pending", "retry_wait"}}}
ServingTickets ==
  {<<m[1], inbox[m].seq>> : m \in {k \in Message : inbox[k].status = "leased"}}

Queue == INSTANCE TicketQueue WITH
  next <- nextSeq, held <- HeldTickets, waiting <- WaitingTickets, serving <- ServingTickets

\* The pipeline implements the ticket queue: messages are served once their turn
\* comes, in admission order, and none that ended is served again.
ImplementsTicketQueue == Queue!Spec

Ownership == INSTANCE DatabaseOwnership WITH
  Process <- Daemon, lapsed <- ownerDue,
  fresh <- {d \in Daemon : process[d] = "unborn"},
  over <- {d \in Daemon : process[d] = "gone"}

\* The database changes hands as its ownership promises: a process that was
\* superseded or has ended never has it again, one that keeps its lease fresh
\* loses it to nobody, and none gives back what another took over.
ImplementsOwnership == Ownership!Spec
================================================================================
