------------------------------- MODULE Permission -------------------------------
(***************************************************************************)
(* What a remote approval promises, without rows, nonces, handlers, polls  *)
(* or lost calls: a permission is asked for once, and by one operation for *)
(* each request id; the administrator or the operation's own identity      *)
(* decides, once, as long as it is open; an approval is used at most once, *)
(* by its operation; and what is over stays over.                          *)
(***************************************************************************)
CONSTANTS
  Op, RequestOf, IdentityOf,
  None, Admin

VARIABLES
  stage,  \* how far the permission of each operation is
  by      \* who decided it

vars == <<stage, by>>

Init ==
  /\ stage = [o \in Op |-> "unasked"]
  /\ by = [o \in Op |-> None]

Goes(o, from, to) == stage[o] = from /\ stage' = [stage EXCEPT ![o] = to]

Ask(o) ==
  /\ \A p \in Op : RequestOf[p] = RequestOf[o] => stage[p] = "unasked"
  /\ Goes(o, "unasked", "open")
  /\ UNCHANGED by

Decide(o) ==
  /\ Goes(o, "open", "approved") \/ Goes(o, "open", "over")
  /\ \E w \in {IdentityOf[o], Admin} : by' = [by EXCEPT ![o] = w]

Use(o) == Goes(o, "approved", "granted") /\ UNCHANGED by

\* It expires, or its approval is lost on the way to the operation.
Lapse(o) ==
  /\ Goes(o, "open", "over") \/ Goes(o, "approved", "over")
  /\ UNCHANGED by

Next == \E o \in Op : Ask(o) \/ Decide(o) \/ Use(o) \/ Lapse(o)

Spec == Init /\ [][Next]_vars
=================================================================================
