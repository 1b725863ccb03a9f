------------------------------ MODULE MCKeyHelper ------------------------------
(* Model-checking instance of KeyHelper and the fairness of its programs. *)
EXTENDS KeyHelper

\* A helper that is not killed goes on, and the user starts the gateway again.
FairSpec == Spec /\ WF_vars(Effect) /\ WF_vars(Begin("start"))

\* Everything but death and a cleanup that fails.
Work == (\E k \in Kind : Begin(k)) \/ Effect \/ DaemonEnds

\* Once helpers are no longer killed and cleanups no longer fail, the rotation of an
\* encrypted database is completed or rolled back and its journal put away: there is
\* none whose recovery throws at every start.
HelperSettles ==
  <>[][Work]_vars => (journal # NoJournal /\ db # None ~> journal = NoJournal)
================================================================================
