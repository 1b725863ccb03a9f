------------------------------ MODULE MCApprovals ------------------------------
(* Model-checking instance of Approvals: a tool call that is asked for again   *)
(* in the session the route was rebound to, and an operation of another route. *)
EXTENDS Approvals, TLC

CONSTANTS o1, o2, o3, q1, q2, r1, r2, s1, s2, writes, shell

Requests   == (o1 :> q1) @@ (o2 :> q1) @@ (o3 :> q2)
Identities == (o1 :> <<r1, s1>>) @@ (o2 :> <<r1, s2>>) @@ (o3 :> <<r2, s2>>)
Scopes     == (o1 :> writes) @@ (o2 :> writes) @@ (o3 :> shell)
================================================================================
