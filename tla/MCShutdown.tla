-------------------------------- MODULE MCShutdown --------------------------------
(* Model-checking instance of UpgradeGuard: an installed daemon, a later run of   *)
(* it with the same PID, and a gateway of another installation.                   *)
EXTENDS UpgradeGuard, TLC

CONSTANTS first, second, other, c1, c2, n1, n2

Pids == (first :> 1) @@ (second :> 1) @@ (other :> 2)

Issued == {c \in Challenge : challenge[c].state # "unissued"}

\* Two challenges meet in a registry as long as the guard has not begun; one from
\* then on.  Ids and nonces are alike, so c1 is taken first and the guard has n1.
Bound ==
  /\ GuardAt("idle") \/ Cardinality(Issued) <= 1
  /\ c2 \in Issued => c1 \in Issued
  /\ guard.nonce # n2
===================================================================================
