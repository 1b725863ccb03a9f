--------------------------- MODULE MCSensitiveState ----------------------------
(* Model-checking instance of SensitiveState and its fairness. *)
EXTENDS SensitiveState

----------------------------------------------------------------------------
(* Fairness.  Deadlines pass and readers finish; a process that is stopping    *)
(* closes the store; heartbeats go on, so that a daemon that lost the database *)
(* stops; the daemon is started again whenever it is down and the database is  *)
(* free.  A process may die any number of times, but not each time at the same *)
(* place: a checkpoint that is possible again and again completes.             *)
Fairness ==
  /\ WF_vars(OwnershipLapses) /\ WF_vars(ReaderEnds)
  /\ \A p \in Process : WF_vars(Close(p))
  /\ \A d \in Daemon : WF_vars(Heartbeat(d))
  /\ WF_vars(\E p \in Process : CheckpointFails(p))
  /\ WF_vars(\E d \in Daemon : Open(d))
  /\ SF_vars(\E p \in Process : Checkpoint(p))

FairSpec == Spec /\ Fairness

\* What must not stay in the files goes in the end: neither a death between the
\* commit and the checkpoint nor a reader keeps it there for good.  security.md: "a
\* reader that pins sensitive WAL frames causes startup to fail closed and a later
\* restart can retry."
TracesGo == Exposed # {} ~> Exposed = {}
================================================================================
