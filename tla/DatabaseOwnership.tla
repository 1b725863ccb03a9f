---------------------------- MODULE DatabaseOwnership ----------------------------
(***************************************************************************)
(* What the ownership of the database promises, without requests, channels *)
(* or the guard of an upgrade: a process takes the database at most once,  *)
(* when nobody has it or when its owner's lease has lapsed; it keeps it by *)
(* renewing the lease; and it gives back nothing but what is its own.      *)
(***************************************************************************)
CONSTANTS
  Process,  \* runs of the gateway program
  None

VARIABLES
  owner,   \* the process that has the database, or None
  lapsed,  \* the owner's lease has lapsed
  fresh,   \* processes that have not taken the database yet
  over     \* processes that have ended

vars == <<owner, lapsed, fresh, over>>

Init ==
  /\ owner = None /\ lapsed = FALSE
  /\ fresh = Process /\ over = {}

Take(p) ==
  /\ p \in fresh \ over
  /\ owner = None \/ lapsed
  /\ owner' = p /\ lapsed' = FALSE
  /\ fresh' = fresh \ {p}
  /\ UNCHANGED over

\* The lease may be renewed after it has lapsed, as long as nobody took the
\* database.
Renew ==
  /\ owner \notin fresh \cup over \cup {None}
  /\ lapsed' = FALSE
  /\ UNCHANGED <<owner, fresh, over>>

Lapse ==
  /\ owner # None
  /\ lapsed' = TRUE
  /\ UNCHANGED <<owner, fresh, over>>

\* The end of a process, which may leave its lease behind.
End(p) ==
  /\ p \notin over
  /\ over' = over \cup {p} /\ fresh' = fresh \ {p}
  /\ \/ owner = p /\ owner' = None /\ lapsed' = FALSE
     \/ UNCHANGED <<owner, lapsed>>

Next == Renew \/ Lapse \/ \E p \in Process : Take(p) \/ End(p)

Spec == Init /\ [][Next]_vars
==================================================================================
