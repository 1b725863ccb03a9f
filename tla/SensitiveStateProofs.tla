-------------------------- MODULE SensitiveStateProofs --------------------------
(***************************************************************************)
(* Nothing a process removed is in the database's files while it works,    *)
(* but for envelopes it superseded, for any numbers of daemons,            *)
(* maintenance runs and readers.                                           *)
(*                                                                         *)
(* A trace that must not stay is added only by a step that opens the       *)
(* database, sweeps it or rewrites it; Seal adds only an envelope under    *)
(* the key in force.  Sweep and Rewrite are steps of the owner and leave   *)
(* it short of "serving"; Open makes its process the owner, so whoever     *)
(* served before no longer owns the database; and the way to "serving" is  *)
(* Checkpoint, which leaves no trace.  What NothingLeftBehind lacks to be  *)
(* inductive is that the database is migrated already when a process is    *)
(* about to checkpoint: it is, from the first Open on.                     *)
(***************************************************************************)
EXTENDS SensitiveState, TLAPS

CurrentIsSealed == version = "v4" => secrets # "plain"

OpenIsCurrent == \A p \in Process : proc[p] # "down" => version = "v4"

ServingIsClean == \A p \in Process : proc[p] = "serving" /\ owner = p => Exposed = {}

IInv == TypeOK /\ CurrentIsSealed /\ OpenIsCurrent /\ ServingIsClean

LEMMA Goes ==
  ASSUME TypeOK, NEW p \in Process, NEW place \in Place, Goto(p, place)
  PROVE  /\ proc' \in [Process -> Place]
         /\ proc'[p] = place
         /\ \A q \in Process : q # p => proc'[q] = proc[q]
BY DEF TypeOK, Goto

LEMMA InitInv == Init => IInv
<1> SUFFICES ASSUME Init PROVE IInv
  OBVIOUS
<1>0. \/ version \in {"absent", "v1", "v3"} /\ secrets \in {"none", "plain"}
      \/ version = "v4" /\ secrets \in {"none", "sealed"}
  BY DEF Init
<1>1. TypeOK
  BY <1>0, StateConstants DEF Init, TypeOK, Place
<1>2. CurrentIsSealed
  BY <1>0 DEF CurrentIsSealed
<1>3. OpenIsCurrent /\ ServingIsClean
  BY DEF Init, OpenIsCurrent, ServingIsClean
<1> QED BY <1>1, <1>2, <1>3 DEF IInv

----------------------------------------------------------------------------
(* Opening and closing. *)

LEMMA OpenInv == ASSUME IInv, NEW p \in Process, Open(p) PROVE IInv'
<1> USE DEF IInv
<1>1. /\ proc' \in [Process -> Place]
      /\ proc'[p] = "initialized"
      /\ \A q \in Process : q # p => proc'[q] = proc[q]
  <2>1. "initialized" \in Place /\ Goto(p, "initialized")
    BY DEF Open, Place
  <2> QED BY <2>1, Goes
<1>2. /\ version' = "v4" /\ bodies' = bodies /\ traces' \subseteq Trace
      /\ secrets' \in {"none", "sealed"} \/ (version = "v4" /\ secrets' = secrets)
  BY DEF Open, Migrate, base, TypeOK, Trace
<1>3. TypeOK'
  BY <1>1, <1>2 DEF Open, TypeOK, reader
<1>4. CurrentIsSealed'
  BY <1>2 DEF CurrentIsSealed
<1>5. OpenIsCurrent'
  BY <1>2 DEF OpenIsCurrent
<1>6. ServingIsClean'
  BY <1>1 DEF Open, ServingIsClean
<1> QED BY <1>3, <1>4, <1>5, <1>6

\* Closing, with or without its checkpoint, having given the database back.
LEMMA DisconnectInv ==
  ASSUME IInv, NEW p \in Process, Disconnect(p), Releases(p), UNCHANGED reader
  PROVE  IInv'
<1> USE DEF IInv
<1>1. /\ proc' \in [Process -> Place]
      /\ proc'[p] = "down"
      /\ \A q \in Process : q # p => proc'[q] = proc[q]
  <2>1. "down" \in Place /\ Goto(p, "down")
    BY DEF Disconnect, Place
  <2> QED BY <2>1, Goes
<1>2. /\ version' = version /\ secrets' = secrets /\ bodies' = bodies
      /\ traces' = traces \/ traces' = {}
  BY DEF Disconnect, Checkpointed, base
<1>3. TypeOK'
  BY <1>1, <1>2 DEF TypeOK, Releases, reader
<1>4. CurrentIsSealed' /\ OpenIsCurrent'
  BY <1>1, <1>2 DEF CurrentIsSealed, OpenIsCurrent
<1>5. ASSUME NEW q \in Process, proc'[q] = "serving", owner' = q PROVE Exposed' = {}
  <2>1. q # p /\ proc[q] = "serving"
    BY <1>1, <1>5
  <2>2. owner = q
    BY <1>5, <2>1, StateConstants DEF Releases, TypeOK
  <2> QED BY <1>2, <2>1, <2>2 DEF ServingIsClean, Exposed
<1> QED BY <1>3, <1>4, <1>5 DEF ServingIsClean

\* A step of one process that changes neither the database nor its owner, and does not
\* take it to "serving", disturbs nothing.
LEMMA QuietInv ==
  ASSUME IInv, NEW p \in Process, proc[p] # "down",
         NEW place \in Place \ {"serving"}, Goto(p, place),
         UNCHANGED <<version, secrets, bodies, lease, reader>>,
         \/ UNCHANGED traces
         \/ traces' \subseteq Trace /\ owner = p
  PROVE  IInv'
<1> USE DEF IInv
<1>1. /\ proc' \in [Process -> Place]
      /\ proc'[p] = place
      /\ \A q \in Process : q # p => proc'[q] = proc[q]
  BY Goes
<1>2. TypeOK'
  BY <1>1 DEF TypeOK, lease, reader
<1>3. CurrentIsSealed' /\ OpenIsCurrent'
  BY <1>1 DEF CurrentIsSealed, OpenIsCurrent
<1>4. ServingIsClean'
  BY <1>1 DEF ServingIsClean, Exposed, lease
<1> QED BY <1>2, <1>3, <1>4

LEMMA LifetimeInv == ASSUME IInv, NEW p \in Process, Lifetime(p) PROVE IInv'
<1> USE DEF IInv
<1>1. CASE Open(p)
  BY <1>1, OpenInv
<1>2. CASE Checkpoint(p)
  <2>1. Resumes(p) \in Place
    BY <1>2 DEF Checkpoint, Resumes, Place
  <2>2. proc' \in [Process -> Place] /\ (\A q \in Process : q # p => proc'[q] = proc[q])
    BY <1>2, <2>1, Goes DEF Checkpoint
  <2>3. traces' = {} /\ UNCHANGED <<version, secrets, bodies, lease, reader>>
    BY <1>2 DEF Checkpoint, Checkpointed
  <2>4. TypeOK'
    BY <2>2, <2>3 DEF TypeOK, lease, reader
  <2>5. CurrentIsSealed' /\ OpenIsCurrent'
    BY <1>2, <2>2, <2>3 DEF Checkpoint, CurrentIsSealed, OpenIsCurrent
  <2>6. Exposed' = {}
    BY <2>3 DEF Exposed
  <2> QED BY <2>4, <2>5, <2>6 DEF ServingIsClean
<1>3. CASE CheckpointFails(p)
  <2>1. CASE proc[p] = "initialized" /\ Releases(p) /\ Disconnect(p)
    BY <1>3, <2>1, DisconnectInv DEF CheckpointFails
  <2>2. CASE proc[p] \in {"swept", "rewritten"} /\ Goto(p, "stopping") /\ UNCHANGED <<base, lease>>
    BY <1>3, <2>2, QuietInv DEF CheckpointFails, Place, base
  <2> QED BY <1>3, <2>1, <2>2 DEF CheckpointFails
<1>4. CASE Close(p)
  BY <1>4, DisconnectInv DEF Close
<1>5. CASE Crash(p)
  BY <1>5, QuietInv DEF Crash, Place, base
<1> QED BY <1>1, <1>2, <1>3, <1>4, <1>5 DEF Lifetime

----------------------------------------------------------------------------
(* The daemon and the rotation at work. *)

LEMMA ServeInv == ASSUME IInv, NEW d \in Daemon, Serve(d) PROVE IInv'
<1> USE DEF IInv
<1>0. d \in Process
  BY DEF Process
<1>1. CASE Seal(d)
  <2>1. TypeOK'
    BY <1>1 DEF Seal, TypeOK, Trace, lease, reader
  <2>2. CurrentIsSealed' /\ OpenIsCurrent'
    BY <1>1 DEF Seal, CurrentIsSealed, OpenIsCurrent
  <2>3. ServingIsClean'
    BY <1>1 DEF Seal, ServingIsClean, Exposed, lease
  <2> QED BY <2>1, <2>2, <2>3
<1>2. CASE Receive(d)
  BY <1>2 DEF Receive, TypeOK, CurrentIsSealed, OpenIsCurrent, ServingIsClean, Exposed, lease,
     reader
<1>3. CASE Sweep(d)
  <2>1. /\ proc' \in [Process -> Place]
        /\ proc'[d] = "swept"
        /\ \A q \in Process : q # d => proc'[q] = proc[q]
    BY <1>0, <1>3, Goes DEF Sweep, Place
  <2>2. /\ traces' \subseteq Trace /\ secrets' \in {secrets, "none"}
        /\ bodies' \in {bodies, "none"} /\ UNCHANGED <<version, lease, reader>>
    BY <1>3 DEF Sweep, TypeOK, Trace
  <2>3. TypeOK'
    BY <2>1, <2>2 DEF TypeOK, lease, reader
  <2>5. CurrentIsSealed' /\ OpenIsCurrent'
    BY <1>0, <1>3, <2>1, <2>2 DEF Sweep, CurrentIsSealed, OpenIsCurrent
  <2>4. ServingIsClean'
    BY <1>3, <2>1 DEF Sweep, Holds, ServingIsClean, lease
  <2> QED BY <2>3, <2>4, <2>5
<1>4. CASE Heartbeat(d)
  <2>1. CASE owner = d /\ ownerDue' = FALSE /\ UNCHANGED <<owner, proc>>
    BY <1>4, <2>1 DEF Heartbeat, TypeOK, CurrentIsSealed, OpenIsCurrent, ServingIsClean,
       Exposed, base, reader
  <2>2. CASE Goto(d, "stopping") /\ UNCHANGED lease
    BY <1>0, <1>4, <2>2, QuietInv DEF Heartbeat, Place, base
  <2> QED BY <1>4, <2>1, <2>2 DEF Heartbeat
<1>5. CASE Stop(d)
  BY <1>0, <1>5, QuietInv DEF Stop, Place, base
<1> QED BY <1>1, <1>2, <1>3, <1>4, <1>5 DEF Serve

LEMMA RewriteInv == ASSUME IInv, NEW x \in Maintainer, Rewrite(x) PROVE IInv'
<1> USE DEF IInv
<1>0. x \in Process
  BY DEF Process
<1>1. CASE Holds(x)
  <2>1. Goto(x, "rewritten") /\ traces' \subseteq Trace /\ owner = x
    BY <1>1 DEF Rewrite, Holds, TypeOK, Trace
  <2>2. proc[x] # "down" /\ UNCHANGED <<version, secrets, bodies, lease, reader>>
    BY <1>1 DEF Rewrite
  <2> QED BY <1>0, <2>1, <2>2, QuietInv DEF Place
<1>2. CASE ~Holds(x)
  BY <1>0, <1>2, QuietInv DEF Rewrite, Place, base
<1> QED BY <1>1, <1>2

LEMMA NextInv == ASSUME IInv, [Next]_vars PROVE IInv'
<1> USE DEF IInv, TypeOK, CurrentIsSealed, OpenIsCurrent, ServingIsClean, Exposed, base, lease,
           reader
<1>1. CASE \E p \in Process : Lifetime(p)
  BY <1>1, LifetimeInv
<1>2. CASE \E d \in Daemon : Serve(d)
  BY <1>2, ServeInv
<1>3. CASE \E x \in Maintainer : Rewrite(x)
  BY <1>3, RewriteInv
<1>4. CASE BodyEnds
  BY <1>4 DEF BodyEnds
<1>5. CASE OwnershipLapses
  BY <1>5 DEF OwnershipLapses
<1>6. CASE ReaderStarts
  BY <1>6 DEF ReaderStarts
<1>7. CASE ReaderEnds
  BY <1>7 DEF ReaderEnds
<1>8. CASE UNCHANGED vars
  BY <1>8 DEF vars
<1> QED BY <1>1, <1>2, <1>3, <1>4, <1>5, <1>6, <1>7, <1>8 DEF Next

----------------------------------------------------------------------------
\* The inductive invariant holds of every behaviour of the store's processes.
THEOREM InvariantHolds == Spec => []IInv
<1> QED BY InitInv, NextInv, PTL DEF Spec

\* The database, the traces in its files and the processes keep their types.
THEOREM TypesHold == Spec => []TypeOK
<1>1. IInv => TypeOK
  BY DEF IInv
<1> QED BY <1>1, InvariantHolds, PTL

\* A serving owner has the files free of what must not stay in them, and there is no
\* secret in plain text: the checkpoints of the constructor, cleanup and
\* rotateSecrets are enough, whoever dies in between.
THEOREM ServesCleanFiles == Spec => []NothingLeftBehind
<1>1. IInv => NothingLeftBehind
  BY DEF IInv, CurrentIsSealed, OpenIsCurrent, ServingIsClean, NothingLeftBehind
<1> QED BY <1>1, InvariantHolds, PTL
================================================================================
