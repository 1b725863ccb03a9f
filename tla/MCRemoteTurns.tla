----------------------------- MODULE MCRemoteTurns -----------------------------
(* Model-checking instances of RemoteTurns.                                   *)
EXTENDS RemoteTurns, TLC

OneSender == [r \in Route |-> "sender"]
NoCommands == {}

SessionsAndMessages == Permutations(Session) \cup Permutations(MessageId)
================================================================================
