------------------------------- MODULE MCInbound -------------------------------
(* Model-checking instances of InboundPipeline and its fairness.              *)
EXTENDS InboundRefinement, TLC

CONSTANTS r1, m1, m2, m3

\* Every route has the same sender: the rate limit spans routes.
OneSender == [r \in Route |-> "sender"]

NoCommands == {}
LastCommand == {<<r1, m2>>}

DaemonsAndMessages == Permutations(Daemon) \cup Permutations(MessageId)
RoutesAndMessages == Permutations(Route) \cup Permutations(MessageId)
PlainMessages == Permutations({m1, m3})

----------------------------------------------------------------------------
(* Fairness.  Wall-clock deadlines pass.  Some process is started when the    *)
(* database is free and keeps up its heartbeat; bound sessions poll every     *)
(* 750 ms, and keep doing so however often ownership lapses in between, so a  *)
(* poll that is possible again and again happens.                             *)
Fairness ==
  /\ WF_vars(OwnershipLapses)
  /\ \A d \in Daemon : WF_vars(Start(d)) /\ WF_vars(Renew(d))
  /\ \A d \in Daemon, s \in Session : SF_vars(Lease(d, s))
  /\ \A m \in Message : WF_vars(ReservationLapses(m)) /\ WF_vars(RowFallsDue(m))

FairSpec == Spec /\ Fairness

\* An accepted message on a bound route ends, even if no session ever answers, and
\* even if a reservation before it was abandoned by a process that died during
\* materialize(): no barrier holds back its route for good.
AcceptedEnds ==
  \A m \in Message :
    inbox[m].status \in Outstanding ~> inbox[m].status \notin Outstanding
================================================================================
