----------------------------- MODULE MCKeyRotation -----------------------------
(* Model-checking instances of KeyRotation and the fairness of its programs. *)
EXTENDS KeyRotation

\* A program that is not killed goes on, and the operator, or whatever supervises
\* the daemon, starts a program again.
FairSpec == Spec /\ \A p \in Proc : WF_vars(Effect(p)) /\ WF_vars(Begin(p))

\* Once programs are no longer killed, an interrupted rotation of an encrypted
\* database is completed or rolled back: no recovery is refused, or thrown out, for
\* ever.  README.md: "Restart recovery deterministically completes or rolls back an
\* interrupted rotation."
RotationSettles ==
  <>[][Work]_vars => (journal # NoJournal /\ db # None ~> journal = NoJournal)
================================================================================
