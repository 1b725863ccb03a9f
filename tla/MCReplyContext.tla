---------------------------- MODULE MCReplyContext -----------------------------
(* Model-checking instance of ReplyContext and its fairness. *)
EXTENDS ReplyContext

OneSender == [r \in Route |-> "sender"]
OneCommand == {CHOOSE m \in Message : TRUE}

----------------------------------------------------------------------------
(* Fairness.  Deadlines pass, a process runs and keeps up its heartbeat, bound *)
(* sessions poll, and the hourly sweep runs, again and again if ownership lapses *)
(* in between.                                                               *)
ContextFairness ==
  /\ WF_contextVars(OwnershipLapses /\ UNCHANGED <<context, stored>>)
  /\ WF_contextVars(/\ \E d \in Daemon : Start(d) \/ Renew(d)
                    /\ stored' = stored \cap tasks' /\ UNCHANGED context)
  /\ SF_contextVars(\E d \in Daemon : Sweep(d))
  /\ SF_contextVars(/\ \E d \in Daemon, s \in Session : Lease(d, s)
                    /\ UNCHANGED <<context, stored>>)
  /\ \A m \in Message :
       WF_contextVars(/\ ReservationLapses(m) \/ RowFallsDue(m)
                      /\ UNCHANGED <<context, stored>>)

FairContextSpec == ContextSpec /\ ContextFairness

\* An expired token is forgotten, or replaced by a later message's: no work that
\* has ended, failed or been abandoned keeps it.
ContextsForgotten ==
  \A r \in Route : context[r] = "expired" ~> context[r] # "expired"
================================================================================
