----------------------------- MODULE SensitiveState -----------------------------
(***************************************************************************)
(* What of the removed secrets and message bodies is still in the          *)
(* database's files (src/daemon/store.ts).  Opening the store migrates an  *)
(* older database in one transaction: channel state in plain text becomes  *)
(* encrypted, or is dropped where the account is unknown.  Later the       *)
(* retention sweep scrubs message bodies and deletes context tokens, and a *)
(* key rotation rewrites the envelopes.  Each of them commits into the     *)
(* write-ahead log: what was removed stays readable in the files until a   *)
(* truncating checkpoint, which is a call of its own after the commit.     *)
(* The process may die in between, and a reader of the database makes the  *)
(* checkpoint fail.  A cursor, token or account that replaces an earlier   *)
(* one leaves that one's envelope there too, with no checkpoint behind it: *)
(* it can be read with the key in force, as the envelope in its place.     *)
(*                                                                         *)
(* Key files and key ids are the subject of KeyRotation: here the key is   *)
(* the right one, and a start under any other changes nothing.             *)
(***************************************************************************)
EXTENDS Naturals, FiniteSets

CONSTANTS
  Daemon,      \* daemon processes; one that went down may be started again
  Maintainer,  \* runs of the offline key rotation
  None,
  MaxReads     \* bound of the model: readers that ever open the database

Process == Daemon \cup Maintainer

ASSUME StateConstants ==
  None \notin Process /\ MaxReads \in Nat /\ Daemon \cap Maintainer = {}

VARIABLES
  version,  \* PRAGMA user_version, committed
  secrets,  \* channel_state, committed
  bodies,   \* a message's body, committed
  traces,   \* what was removed from the database and is still in its files
  owner, ownerDue, \* gateway_ownership
  proc,     \* where each process is
  reading,  \* another program has a read transaction on the database
  reads     \* readers so far

base   == <<version, secrets, bodies, traces>>
lease  == <<owner, ownerDue>>
reader == <<reading, reads>>
vars   == <<base, lease, proc, reader>>

\* "initialized" and "swept" are between a commit and its checkpoint.
Place == {"down", "initialized", "serving", "swept", "rewritten", "stopping"}
\* An "envelope" was sealed under a key that was retired, a "superseded" one under
\* the key in force.
Trace == {"plaintext", "body", "envelope", "superseded"}

Goto(p, place) == proc' = [proc EXCEPT ![p] = place]

Holds(p) == owner = p /\ ~ownerDue

----------------------------------------------------------------------------
(* Opening the store. *)

\* #migrate.  A version 1 database has no account identity: its channel state is
\* dropped and the login has to be repeated.
Migrate ==
  /\ version' = "v4"
  /\ secrets' = IF version = "v1" THEN "none"
                ELSE IF secrets = "none" THEN "none" ELSE "sealed"
  /\ traces'  = IF secrets = "plain" THEN traces \cup {"plaintext"} ELSE traces
  /\ UNCHANGED bodies

\* Faulty variant: only a migration is followed by a checkpoint.
OpenWithoutCheckpoint(p) ==
  /\ proc[p] = "down" /\ (owner = None \/ ownerDue)
  /\ IF version = "v4" THEN UNCHANGED base /\ Goto(p, "serving")
                       ELSE Migrate /\ Goto(p, "initialized")
  /\ owner' = p /\ ownerDue' = FALSE
  /\ UNCHANGED reader

\* #initializeOwnedSchema, one transaction: the database is free, it is migrated or,
\* at the current version, validated, and owned.
Open(p) ==
  /\ proc[p] = "down" /\ (owner = None \/ ownerDue)
  /\ IF version = "v4" THEN UNCHANGED base ELSE Migrate
  /\ owner' = p /\ ownerDue' = FALSE
  /\ Goto(p, "initialized") /\ UNCHANGED reader

----------------------------------------------------------------------------
(* Checkpoints and connections. *)

\* #checkpointSensitiveWrites: complete, or it throws.  secure_delete has zeroed
\* what was deleted in the pages that are copied back.
Checkpointed == ~reading /\ traces' = {} /\ UNCHANGED <<version, secrets, bodies>>

Resumes(p) ==
  CASE proc[p] = "initialized" -> "serving"
    [] proc[p] = "swept"       -> "serving"
    [] proc[p] = "rewritten"   -> "stopping"

Checkpoint(p) ==
  /\ proc[p] \in {"initialized", "swept", "rewritten"}
  /\ Checkpointed /\ Goto(p, Resumes(p))
  /\ UNCHANGED <<lease, reader>>

\* SQLite (external): closing the last connection checkpoints, if it can.
Disconnect(p) ==
  /\ Goto(p, "down")
  /\ IF ~reading /\ \A q \in Process \ {p} : proc[q] = "down"
     THEN Checkpointed ELSE UNCHANGED base

\* Deletes the ownership row if it is this process's.
Releases(p) ==
  /\ owner' = IF owner = p THEN None ELSE owner
  /\ ownerDue' = IF owner = p THEN FALSE ELSE ownerDue

\* Faulty variant: a checkpoint that could not complete is left for later.
CheckpointIgnored(p) ==
  /\ proc[p] \in {"initialized", "swept"} /\ reading
  /\ Goto(p, "serving") /\ UNCHANGED <<base, lease, reader>>

\* A reader holds it up.  The constructor gives the database back and fails; the
\* sweep throws inside the heartbeat, which stops the daemon; the rotation fails
\* and closes the store.
CheckpointFails(p) ==
  /\ reading
  /\ \/ proc[p] = "initialized" /\ Releases(p) /\ Disconnect(p)
     \/ proc[p] \in {"swept", "rewritten"} /\ Goto(p, "stopping") /\ UNCHANGED <<base, lease>>
  /\ UNCHANGED reader

Close(p) ==
  /\ proc[p] = "stopping"
  /\ Releases(p) /\ Disconnect(p) /\ UNCHANGED reader

Crash(p) == proc[p] # "down" /\ Goto(p, "down") /\ UNCHANGED <<base, lease, reader>>

----------------------------------------------------------------------------
(* The daemon at work. *)

\* A login, a cursor or a context token: setChannelState encrypts it, and replaces the
\* envelope that was there.
Seal(d) ==
  /\ proc[d] = "serving" /\ Holds(d)
  /\ secrets' = "sealed"
  /\ traces' = IF secrets = "sealed" THEN traces \cup {"superseded"} ELSE traces
  /\ UNCHANGED <<version, bodies, lease, proc, reader>>

Receive(d) ==
  /\ proc[d] = "serving" /\ Holds(d) /\ bodies = "none"
  /\ bodies' = "held"
  /\ UNCHANGED <<version, secrets, traces, lease, proc, reader>>

\* cleanup scrubs the bodies past their retention and deletes expired context tokens,
\* which may be all the channel state there is; or it deletes other rows only.
Sweep(d) ==
  /\ proc[d] = "serving" /\ Holds(d)
  /\ \E removed \in SUBSET {"body", "superseded"} :
       /\ "body" \in removed <=> bodies = "ended"
       /\ "superseded" \in removed => secrets = "sealed"
       /\ secrets' = secrets \/ ("superseded" \in removed /\ secrets' = "none")
       /\ traces' = traces \cup removed
  /\ bodies' = IF bodies = "ended" THEN "none" ELSE bodies
  /\ Goto(d, "swept")
  /\ UNCHANGED <<version, lease, reader>>

\* The heartbeat, whose failure stops the daemon.
Heartbeat(d) ==
  /\ proc[d] = "serving"
  /\ IF owner = d
     THEN ownerDue' = FALSE /\ UNCHANGED <<owner, proc>>
     ELSE Goto(d, "stopping") /\ UNCHANGED lease
  /\ UNCHANGED <<base, reader>>

Stop(d) == proc[d] = "serving" /\ Goto(d, "stopping") /\ UNCHANGED <<base, lease, reader>>

\* rotateSecrets, in a run of the rotation.
Rewrite(x) ==
  /\ proc[x] = "serving"
  /\ IF Holds(x)
     THEN /\ Goto(x, "rewritten")
          /\ traces' = IF secrets = "sealed" \/ "superseded" \in traces
                       THEN (traces \ {"superseded"}) \cup {"envelope"} ELSE traces
          /\ UNCHANGED <<version, secrets, bodies>>
     ELSE Goto(x, "stopping") /\ UNCHANGED base
  /\ UNCHANGED <<lease, reader>>

----------------------------------------------------------------------------
(* Around the processes. *)

\* The message of the body ends, and its retention passes.
BodyEnds ==
  /\ bodies = "held" /\ bodies' = "ended"
  /\ UNCHANGED <<version, secrets, traces, lease, proc, reader>>

OwnershipLapses ==
  /\ owner # None /\ ~ownerDue /\ ownerDue' = TRUE
  /\ UNCHANGED <<base, owner, proc, reader>>

ReaderStarts ==
  /\ ~reading /\ reads < MaxReads
  /\ reading' = TRUE /\ reads' = reads + 1 /\ UNCHANGED <<base, lease, proc>>

ReaderEnds == reading /\ reading' = FALSE /\ UNCHANGED <<base, lease, proc, reads>>

----------------------------------------------------------------------------
\* A new database, one of an earlier schema with or without secrets, or a current one.
Init ==
  /\ \E start \in {<<"absent", "none">>, <<"v1", "none">>, <<"v1", "plain">>,
                   <<"v3", "none">>, <<"v3", "plain">>, <<"v4", "none">>, <<"v4", "sealed">>} :
       version = start[1] /\ secrets = start[2]
  /\ bodies = "none" /\ traces = {}
  /\ owner = None /\ ownerDue = FALSE
  /\ proc = [p \in Process |-> "down"]
  /\ reading = FALSE /\ reads = 0

Lifetime(p) == Open(p) \/ Checkpoint(p) \/ CheckpointFails(p) \/ Close(p) \/ Crash(p)

Serve(d) == Seal(d) \/ Receive(d) \/ Sweep(d) \/ Heartbeat(d) \/ Stop(d)

Next ==
  \/ \E p \in Process : Lifetime(p)
  \/ \E d \in Daemon : Serve(d)
  \/ \E x \in Maintainer : Rewrite(x)
  \/ BodyEnds \/ OwnershipLapses \/ ReaderStarts \/ ReaderEnds

Spec == Init /\ [][Next]_vars
----------------------------------------------------------------------------
(* Correctness. *)

\* Types of the database, its files and the processes.
TypeOK ==
  /\ version \in {"absent", "v1", "v3", "v4"}
  /\ secrets \in {"none", "plain", "sealed"} /\ bodies \in {"none", "held", "ended"}
  /\ traces \subseteq Trace
  /\ owner \in Process \cup {None} /\ ownerDue \in BOOLEAN
  /\ proc \in [Process -> Place] /\ reading \in BOOLEAN /\ reads \in Nat

\* What must not stay in the files; a superseded envelope is as safe as the one that
\* took its place.
Exposed == traces \ {"superseded"}

\* A process that has the database and works on it leaves no plain text, no body and
\* no envelope under a retired key in the files that it removed, or that an earlier
\* process removed before it died; nor is there a secret in plain text.  security.md:
\* "Startup requires a fully successful truncating WAL checkpoint after migration or
\* secret rewrites".
NothingLeftBehind ==
  \A p \in Process :
    proc[p] = "serving" =>
      /\ version = "v4" /\ secrets # "plain"
      /\ owner = p => Exposed = {}
================================================================================
