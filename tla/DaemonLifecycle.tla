----------------------------- MODULE DaemonLifecycle -----------------------------
(***************************************************************************)
(* A gateway process from its start to its end (src/daemon/startup.ts,      *)
(* src/daemon/main.ts, reserveGatewayHttpServer of src/daemon/              *)
(* http-server.ts): it reserves the port, opens the database, starts the    *)
(* channels, serves, and gives all of them up in order.  The inbound work of*)
(* a serving process is the subject of InboundPipeline.                     *)
(*                                                                          *)
(* A process is one run of the program: when it has ended it does not come  *)
(* back, and a restart is another process, perhaps with the same PID.       *)
(***************************************************************************)
EXTENDS Naturals, FiniteSets

CONSTANTS
  Process,  \* runs of the gateway program
  PidOf,    \* the PID the operating system gives each of them
  None

ASSUME ProcessConstants == None \notin Process

VARIABLES
  phase,   \* how far each process is
  row,     \* gateway_ownership: the process whose token it holds, or None
  lapsed   \* expires_at of that row is past

daemon == <<phase, row, lapsed>>

Phase == {"off", "starting", "opened", "serving",         \* up
          "aborting", "unwinding", "draining",            \* the listener is closed
         "stopping", "closing",                          \* down
          "exited", "dead"}

Alive(p)     == phase[p] \notin {"off", "exited", "dead"}
Listening(p) == phase[p] \in {"starting", "opened", "serving"}
Handling(p)  == phase[p] \in {"serving", "draining"}
Draining(p)  == phase[p] \in {"aborting", "unwinding", "draining"}
Ending(p)    == Draining(p) \/ phase[p] \in {"stopping", "closing"}
PortFree     == \A p \in Process : ~Listening(p)

Goes(p, to) == phase' = [phase EXCEPT ![p] = to]

DaemonTypeOK ==
  /\ phase \in [Process -> Phase]
  /\ row \in Process \cup {None}
  /\ lapsed \in BOOLEAN

DaemonInit ==
  /\ phase = [p \in Process |-> "off"]
  /\ row = None /\ lapsed = FALSE

----------------------------------------------------------------------------
(* bootstrapGateway(). *)

\* server.listen: a process that finds the port taken ends, and has touched
\* nothing else.  The operating system gives no PID to two live processes.
Reserve(p) ==
  /\ phase[p] = "off"
  /\ \A q \in Process : PidOf[q] = PidOf[p] => ~Alive(q)
  /\ Goes(p, IF PortFree THEN "starting" ELSE "exited")
  /\ UNCHANGED <<row, lapsed>>

\* The store is constructed when the database has no owner, or one whose lease
\* lapsed.
OpenStore(p) ==
  /\ phase[p] = "starting" /\ (row = None \/ lapsed)
  /\ row' = p /\ lapsed' = FALSE
  /\ Goes(p, "opened")

\* The channels are up; activate() puts the handlers behind the port.
StartChannels(p) ==
  /\ phase[p] = "opened"
  /\ Goes(p, "serving")
  /\ UNCHANGED <<row, lapsed>>

\* The keys, the token or the store fail, the database has another owner, or a
\* channel does not start.  What there is by then is given up as by close(), and
\* no request gets more than a 503.
StartFails(p) ==
  /\ phase[p] \in {"starting", "opened"}
  /\ Goes(p, IF phase[p] = "starting" THEN "aborting" ELSE "unwinding")
  /\ UNCHANGED <<row, lapsed>>

----------------------------------------------------------------------------
(* main.ts and close(). *)

\* The heartbeat, every 5 s.
Renew(p) ==
  /\ phase[p] = "serving" /\ row = p
  /\ lapsed' = FALSE
  /\ UNCHANGED <<phase, row>>

\* stop(): a first signal, a heartbeat that fails, or an order that was accepted.
\* The heartbeat ends and the listener closes; a process that is past serving has
\* its stop under way and is left to it.
Stop(p) ==
  /\ phase[p] = "serving"
  /\ Goes(p, "draining")
  /\ UNCHANGED <<row, lapsed>>

\* server.close() calls back when the last connection has ended.  A start that
\* failed before there was a store has nothing else to give up.
Drain(p) ==
  /\ Draining(p)
  /\ Goes(p, IF phase[p] = "aborting" THEN "exited" ELSE "stopping")
  /\ UNCHANGED <<row, lapsed>>

\* Faulty variant: a channel that fails to stop ends close() then and there.
StopChannelsOrGiveUp(p) ==
  /\ phase[p] = "stopping"
  /\ \E to \in {"closing", "exited"} : Goes(p, to)
  /\ UNCHANGED <<row, lapsed>>

\* stopChannels() settles every channel; a failure is kept for the end.
StopChannels(p) ==
  /\ phase[p] = "stopping"
  /\ Goes(p, "closing")
  /\ UNCHANGED <<row, lapsed>>

\* store.close(): a row of this process's own token is deleted.
CloseStore(p) ==
  /\ phase[p] = "closing"
  /\ row' = IF row = p THEN None ELSE row
  /\ lapsed' = (lapsed /\ row # p)
  /\ Goes(p, "exited")

\* store.close() throws; the process ends with that failure.
CloseFails(p) ==
  /\ phase[p] = "closing"
  /\ Goes(p, "dead")
  /\ UNCHANGED <<row, lapsed>>

----------------------------------------------------------------------------
(* What happens to a process. *)

\* It is killed, by a second signal or by one before the handlers are there.
Crash(p) ==
  /\ Alive(p)
  /\ Goes(p, "dead")
  /\ UNCHANGED <<row, lapsed>>

\* 15 s without a heartbeat.
Lapse ==
  /\ row # None /\ ~lapsed
  /\ lapsed' = TRUE
  /\ UNCHANGED <<phase, row>>

\* Everything but Stop and Drain, which depend on what is on the network.
DaemonStep ==
  \/ Lapse
  \/ \E p \in Process :
       \/ Reserve(p) \/ OpenStore(p) \/ StartChannels(p) \/ StartFails(p)
       \/ Renew(p) \/ StopChannels(p) \/ CloseStore(p) \/ CloseFails(p)
       \/ Crash(p)
==================================================================================
