------------------------------- MODULE UpgradeGuard -------------------------------
(***************************************************************************)
(* The upgrade guard (scripts/release/stop-daemon.ps1), which an installer  *)
(* runs before it replaces files, against the daemon it has to stop.        *)
(*                                                                          *)
(* The guard looks at the machine with one query after another: the port,   *)
(* the process behind a PID, the processes of the installation.  Between two*)
(* of them processes end and others start.  It talks to whatever listens on *)
(* the port at the moment it connects, and any query or exchange may fail.  *)
(***************************************************************************)
EXTENDS ShutdownChallenges

CONSTANT Installed  \* processes that run the entrypoint of this installation

ASSUME GuardConstants == Installed \subseteq Process

VARIABLE guard

vars == <<daemon, registry, guard>>

(* found: the process a PID was resolved to.  owner: the validated owner of   *)
(* the port.  challenge: what the owner answered.  conn: the process at the   *)
(* other end of the guard's connection.                                       *)
Guard == [pc : {"idle", "inventory", "listener", "process", "sole", "ask", "asked", "told",
                "connect", "send", "sent", "watch", "port", "last", "done", "failed"},
          pid : {PidOf[p] : p \in Process} \cup {None},
          found : Process \cup {None}, owner : Process \cup {None},
          nonce : Nonce \cup {None}, challenge : Challenge \cup {None},
          conn : Process \cup {None}]

Idle == [pc |-> "idle", pid |-> None, found |-> None, owner |-> None,
         nonce |-> None, challenge |-> None, conn |-> None]

GuardAt(pc) == guard.pc = pc
GuardGoes(pc) == guard' = [guard EXCEPT !.pc = pc]
Fails == guard' = [Idle EXCEPT !.pc = "failed"]

LiveInstalled == {p \in Installed : Alive(p)}

\* The second validation comes after the challenge.
Again == guard.challenge # None

Quiet == UNCHANGED <<daemon, registry>>

TypeOK ==
  /\ DaemonTypeOK /\ RegistryTypeOK
  /\ guard \in Guard
  /\ guard.pc \in {"idle", "inventory", "told", "connect", "watch", "port", "last", "done", "failed"}
       => guard.conn = None

Init == DaemonInit /\ RegistryInit /\ guard = Idle

----------------------------------------------------------------------------
(* Invoke-StopGatewayDaemon begins, anew if an earlier run of it has ended:   *)
(* is the port in use?                                                        *)

Begin ==
  /\ guard.pc \in {"idle", "done", "failed"}
  /\ guard' = [Idle EXCEPT !.pc = IF PortFree THEN "inventory" ELSE "listener"]
  /\ Quiet

\* The port is free, and nothing of the installation may run outside it.
Inventory ==
  /\ GuardAt("inventory")
  /\ IF LiveInstalled = {} THEN GuardGoes("done") ELSE Fails
  /\ Quiet

----------------------------------------------------------------------------
(* Get-ValidatedGatewayListenerOwner: the owning PID of the one listening     *)
(* socket, the process of that PID, and that it is all there is of the        *)
(* installation.                                                              *)

ResolveListener ==
  /\ GuardAt("listener")
  /\ \/ \E p \in Process : Listening(p) /\ guard' = [guard EXCEPT !.pc = "process", !.pid = PidOf[p]]
     \/ PortFree /\ Fails
  /\ Quiet

ResolveProcess ==
  /\ GuardAt("process")
  /\ LET it == {p \in LiveInstalled : PidOf[p] = guard.pid}
     IN  \/ \E p \in it : guard' = [guard EXCEPT !.pc = "sole", !.pid = None, !.found = p]
         \/ it = {} /\ Fails
  /\ Quiet

\* A record of PID, creation marker and paths names one run of the program.
ResolveSole ==
  /\ GuardAt("sole")
  /\ IF LiveInstalled # {guard.found} THEN Fails
     ELSE IF ~Again THEN guard' = [guard EXCEPT !.pc = "ask", !.owner = guard.found, !.found = None]
     ELSE IF guard.found = guard.owner THEN guard' = [guard EXCEPT !.pc = "send", !.found = None]
     ELSE Fails
  /\ Quiet

----------------------------------------------------------------------------
(* Request-AuthenticatedGatewayIdentity.                                      *)

Ask ==
  /\ GuardAt("ask")
  /\ \/ \E p \in Process, n \in Nonce :
          Listening(p) /\ guard' = [guard EXCEPT !.pc = "asked", !.conn = p, !.nonce = n]
     \/ PortFree /\ Fails
  /\ Quiet

\* The answer may come too late or not at all.
AnswerIdentity ==
  /\ GuardAt("asked") /\ Alive(guard.conn)
  /\ \/ \E c \in Challenge :
          /\ Issue(guard.conn, PidOf[guard.owner], guard.nonce, c)
          /\ guard' = [guard EXCEPT !.pc = "told", !.challenge = c, !.conn = None] \/ Fails
     \/ RefuseIdentity(guard.conn, PidOf[guard.owner], guard.nonce) /\ Fails
  /\ UNCHANGED daemon

\* The answer is the registry's, and its ten seconds have to be running.
CheckIdentity ==
  /\ GuardAt("told")
  /\ IF age[guard.challenge] = "running" THEN GuardGoes("connect") ELSE Fails
  /\ Quiet

----------------------------------------------------------------------------
(* Invoke-AuthenticatedGatewayShutdown: the connection is made before the     *)
(* owner is validated again, and the token is written to that connection.     *)

Connect ==
  /\ GuardAt("connect")
  /\ \/ \E p \in Process : Listening(p) /\ guard' = [guard EXCEPT !.pc = "listener", !.conn = p]
     \/ PortFree /\ Fails
  /\ Quiet

\* Faulty variant: a request of its own, to whatever listens by then.
Reconnected == {p \in Process : Listening(p)}

Stream == {guard.conn}

Send ==
  /\ GuardAt("send")
  /\ \/ \E p \in Stream : Alive(p) /\ guard' = [guard EXCEPT !.pc = "sent", !.conn = p]
     \/ (\A p \in Stream : ~Alive(p)) /\ Fails
  /\ Quiet

\* Faulty variant: the connection is left open.
WatchConnected == GuardGoes("watch")

\* 202 was read, and the connection is disposed of.
Watch == guard' = [guard EXCEPT !.pc = "watch", !.conn = None]

AnswerShutdown ==
  /\ GuardAt("sent") /\ Alive(guard.conn)
  /\ \/ Consume(guard.conn, guard.challenge, guard.nonce) /\ (Watch \/ Fails)
     \/ RefuseShutdown(guard.conn, guard.challenge, guard.nonce) /\ Fails
  /\ UNCHANGED daemon

----------------------------------------------------------------------------
(* The guard waits, looking every 100 ms: the owner's record, the port, and   *)
(* the processes of the installation.                                         *)

WatchOwner ==
  /\ GuardAt("watch") /\ ~Alive(guard.owner)
  /\ GuardGoes("port")
  /\ Quiet

WatchPort ==
  /\ GuardAt("port")
  /\ GuardGoes(IF PortFree THEN "last" ELSE "watch")
  /\ Quiet

\* Faulty variant: the port is free, and that is enough.
GoneWithPort == PortFree

NoneInstalled == LiveInstalled = {}

WatchInstalled ==
  /\ GuardAt("last")
  /\ GuardGoes(IF NoneInstalled THEN "done" ELSE "watch")
  /\ Quiet

\* A query fails, an exchange times out after 5 s, or the wait after 30 s.
GiveUp ==
  /\ guard.pc \notin {"idle", "done", "failed"}
  /\ Fails
  /\ Quiet

GuardStep ==
  \/ Begin \/ Inventory \/ ResolveListener \/ ResolveProcess \/ ResolveSole
  \/ Ask \/ AnswerIdentity \/ CheckIdentity \/ Connect \/ Send \/ AnswerShutdown
  \/ WatchOwner \/ WatchPort \/ WatchInstalled \/ GiveUp

----------------------------------------------------------------------------

StopsNow(p) == Stop(p) /\ UNCHANGED <<registry, guard>>

\* The setImmediate that an accepted request has left behind.
StopsAsOrdered(p) == Ordered(p) /\ StopsNow(p)

Drains(p) == guard.conn # p /\ Drain(p) /\ UNCHANGED <<registry, guard>>

Next ==
  \/ DaemonStep /\ UNCHANGED <<registry, guard>>
  \/ RegistryStep /\ UNCHANGED <<daemon, guard>>
  \/ \E p \in Process : StopsNow(p) \/ Drains(p)
  \/ GuardStep

Spec == Init /\ [][Next]_vars

(* Fairness.  Connections other than the guard's end by themselves, channels  *)
(* settle and SQLite answers or throws, so each step of a stop is taken; the  *)
(* guard's exchanges have timeouts, so it does not hold a connection for good.*)
(* Its wait for the end is not assumed to be bounded.                         *)
Fairness ==
  /\ \A p \in Process :
       /\ WF_vars(StopsAsOrdered(p)) /\ WF_vars(Drains(p))
       /\ WF_vars((StopChannels(p) \/ CloseStore(p) \/ CloseFails(p))
                  /\ UNCHANGED <<registry, guard>>)
  /\ WF_vars(guard.conn # None /\ ~GuardAt("watch") /\ GiveUp)

FairSpec == Spec /\ Fairness

----------------------------------------------------------------------------
(* Properties. *)

\* The bearer token is written only to the installed process that was validated
\* as the owner of the port and has answered as such, whoever took the port or
\* the PID in between.
TokenReachesVerified ==
  GuardAt("sent") =>
    /\ guard.conn = guard.owner /\ guard.owner \in Installed
    /\ challenge[guard.challenge].by = guard.owner

\* A challenge that was consumed, that was once refused as expired, or that was
\* forgotten is never accepted again, not even when the clock is set back.
SpentStaysSpent ==
  [][\A c \in Challenge :
       challenge[c].state \in Tombstone \cup {"removed"} => accepted'[c] = accepted[c]]_vars

\* The registry of a process keeps within its limit and holds no nonce twice.
RegistryHolds ==
  \A p \in Process :
    /\ Cardinality(Held(challenge, p)) <= MaxChallenges
    /\ \A c, d \in Held(challenge, p) : challenge[c].nonce = challenge[d].nonce => c = d

\* A process that ends of itself, after a stop or a failed start, has given its
\* database up, so that the next start need not wait for a lease to lapse.
CleanExitFreesDatabase == \A p \in Process : phase[p] = "exited" => row # p

\* The guard lets the installer go on only when nothing of the installation runs,
\* be it on the port, on its way out behind a closed port, or just started.
DoneMeansStopped ==
  [][~GuardAt("done") /\ guard'.pc = "done" => \A p \in Installed : ~Alive(p)]_vars

Untaken == {p \in Process : phase[p] \in {"off", "starting", "aborting"}}
Over    == {p \in Process : phase[p] \in {"exited", "dead"}}

Ownership == INSTANCE DatabaseOwnership WITH owner <- row, fresh <- Untaken, over <- Over

\* Starts that fail, stops, crashes and lapses hand the database on as its
\* ownership promises: once for each process, and never from under a process
\* that renews its lease.
HandsDatabaseOver == Ownership!Spec

\* An accepted shutdown request, and any stop under way, leads to the end of the
\* process; the guard that waits for that end does not hold it up.
StopsEnd ==
  \A p \in Process : (Ordered(p) \/ Ending(p)) ~> phase[p] \in {"exited", "dead"}
===================================================================================
