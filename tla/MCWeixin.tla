-------------------------------- MODULE MCWeixin --------------------------------
(* Model-checking instance of WeixinChannel.                                    *)
EXTENDS WeixinChannel, TLC

CONSTANTS botA, botB

Feeds == (botA :> 2) @@ (botB :> 0)

\* Bound of the run: a session that expired gives no more messages, where the loop
\* polls on because the report of it failed.
Bound == credentials = None => \A i \in Slot : loop[i].pc # "batch"
================================================================================
