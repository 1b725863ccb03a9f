---------------------------- MODULE InboundPipeline ----------------------------
(***************************************************************************)
(* The durable inbound pipeline of the gateway: GatewayStore's admission,  *)
(* inbox, sequence, rate and ownership tables (src/daemon/store.ts), the   *)
(* asynchronous GatewayService.onInbound that fills them                   *)
(* (src/daemon/gateway.ts), the lease and completion calls of the Copilot  *)
(* extensions, the retention sweep, and the daemon processes that start,   *)
(* lose the database, stop and crash around all of this.                   *)
(*                                                                         *)
(* Every store method is one SQLite BEGIN IMMEDIATE transaction, so it is  *)
(* one atomic step.  The gap is onInbound: it reserves, awaits the         *)
(* channel's materialize(), and only then finalizes.  A pending onInbound  *)
(* is a record of `tasks`, and everything else may happen in between.      *)
(*                                                                         *)
(* The code compares stored deadlines with the wall clock.  Here each      *)
(* deadline is a Boolean "due", raised by a step of its own at any moment  *)
(* after it was set: this covers every relation between the durations.     *)
(***************************************************************************)
EXTENDS Naturals, FiniteSets

CONSTANTS
  Route,               \* route keys: one remote conversation with one sender
  MessageId,           \* provider message ids
  Commands,            \* the messages whose text is "/approve ..." or "/deny ..."
  SenderOf,            \* the rate-limit identity a route belongs to
  Session,             \* Copilot sessions that poll for work
  Daemon,              \* ownership tokens: one per daemon process ever started
  RateLimit, MaxPendingGlobal, MaxPendingPerRoute, MaxAttempts, CleanupBatchSize,
  None,                \* SQL NULL, or no row
  MaxReservations      \* bound of the model: reservation ids handed out

Message == Route \X MessageId
OnRoute(r) == {m \in Message : m[1] = r}

ASSUME PipelineConstants ==
  /\ Commands \subseteq Message
  /\ None \notin Daemon /\ None \notin Session
  /\ RateLimit \in Nat \ {0} /\ MaxAttempts \in Nat \ {0}
  /\ MaxPendingGlobal \in Nat \ {0} /\ MaxPendingPerRoute \in Nat \ {0}
  /\ CleanupBatchSize \in Nat \ {0} /\ MaxReservations \in Nat

VARIABLES
  owner,      \* gateway_ownership.owner_token
  ownerDue,   \* gateway_ownership.expires_at has passed
  process,    \* life of each daemon process
  binding,    \* session_bindings: the session a route talks to
  authorized, \* routes whose sender is allowed and whose alias is 'personal'
  admission,  \* inbound_admissions, one row per message
  inbox,      \* inbound_messages, one row per message
  nextSeq,    \* route_sequences.next_sequence
  nextId,     \* the AUTOINCREMENT id of inbound_messages
  nextRid,    \* stands for randomUUID(): reservation ids never repeat
  rated,      \* messages with a rate_events row inside the rate window
  tasks       \* onInbound calls awaiting materialize()

ownership == <<owner, ownerDue, process>>
policy    == <<binding, authorized>>
counters  == <<nextSeq, nextId, nextRid>>
vars      == <<ownership, policy, admission, inbox, counters, rated, tasks>>

----------------------------------------------------------------------------
(* The rows. *)

\* 'rejected' stands for denied, route_denied, rate_limited, capacity_rejected;
\* 'none' is the absence of the row.
Disposition == {"none", "reserved", "accepted", "control", "rejected",
                "materialization_failed"}
Outstanding == {"pending", "leased", "retry_wait"}
Terminal    == {"completed", "failed", "control"}

NoAdmission == [disp |-> "none", rid |-> 0, by |-> None, due |-> FALSE, seq |-> 0]
NoRow       == [status |-> "none", seq |-> 0, id |-> 0, tries |-> 0, due |-> FALSE]

Admission == [disp : Disposition, rid : Nat, by : Daemon \cup {None},
              due : BOOLEAN, seq : Nat]
Row  == [status : Outstanding \cup Terminal \cup {"none"},
         seq : Nat, id : Nat, tries : Nat, due : BOOLEAN]
Task == [daemon : Daemon, msg : Message, rid : Nat]

\* An admission that leaves 'reserved' keeps its sequence and loses the rest.
Settled(a, disp) == [a EXCEPT !.disp = disp, !.rid = 0, !.by = None, !.due = FALSE]

\* A row that reached a terminal status.
Ended(r, status) == [r EXCEPT !.status = status, !.due = FALSE]

Retried(r) == [r EXCEPT !.status = "retry_wait", !.due = FALSE]

----------------------------------------------------------------------------
(* Processes and the ownership of the database. *)

\* #assertOwnership, the first statement of every transaction.
Holds(d) == process[d] = "running" /\ owner = d /\ ~ownerDue

\* The constructor takes the database when no unexpired row holds it.
Start(d) ==
  /\ process[d] = "unborn"
  /\ owner = None \/ ownerDue
  /\ owner' = d /\ ownerDue' = FALSE
  /\ process' = [process EXCEPT ![d] = "running"]
  /\ UNCHANGED <<policy, admission, inbox, counters, rated, tasks>>

\* The heartbeat.  It matches the token and not the expiry: a process that
\* stalled past its lease gets the database back if nobody took it.
Renew(d) ==
  /\ process[d] = "running" /\ owner = d
  /\ ownerDue' = FALSE
  /\ UNCHANGED <<owner, process, policy, admission, inbox, counters, rated, tasks>>

\* Bound of the model: the last process generation keeps running.
MayStop(d) == owner # d \/ \E e \in Daemon : process[e] = "unborn"

\* Its pending onInbound calls end with the process.
Gone(d) ==
  /\ process[d] = "running" /\ MayStop(d)
  /\ process' = [process EXCEPT ![d] = "gone"]
  /\ tasks' = {t \in tasks : t.daemon # d}
  /\ UNCHANGED <<policy, admission, inbox, counters, rated>>

\* Faulty variant: closing releases whatever ownership row is there.
CloseAnyRow(d) == Gone(d) /\ owner' = None /\ ownerDue' = FALSE

\* close() deletes the ownership row when it carries this process's token.
Close(d) ==
  /\ Gone(d)
  /\ owner' = IF owner = d THEN None ELSE owner
  /\ ownerDue' = IF owner = d THEN FALSE ELSE ownerDue

Crash(d) == Gone(d) /\ UNCHANGED <<owner, ownerDue>>

OwnershipLapses ==
  /\ owner # None /\ ~ownerDue
  /\ ownerDue' = TRUE
  /\ UNCHANGED <<owner, process, policy, admission, inbox, counters, rated, tasks>>

----------------------------------------------------------------------------
(* Administration: POST /v1/bindings, /v1/senders, /v1/workspaces. *)

Bind(d, r, s) ==
  /\ Holds(d)
  /\ binding' = [binding EXCEPT ![r] = s]
  /\ UNCHANGED <<ownership, authorized, admission, inbox, counters, rated, tasks>>

SetPolicy(d, r) ==
  /\ Holds(d)
  /\ \/ authorized' = authorized \cup {r}
     \/ authorized' = authorized \ {r}
  /\ UNCHANGED <<ownership, binding, admission, inbox, counters, rated, tasks>>

----------------------------------------------------------------------------
(* Admission: reserveInbound, then await materialize(), then finalize. *)

LiveReservation(m) == admission[m].disp = "reserved" /\ ~admission[m].due

\* Faulty variant: only inbox rows count, not the reservations under way.
RowsOnly(M, m) == Cardinality({k \in M : inbox[k].status \in Outstanding})

\* #pendingCount over the messages M, leaving m's own reservation out.
PendingCount(M, m) ==
  Cardinality({k \in M : inbox[k].status \in Outstanding})
    + Cardinality({k \in M \ {m} : LiveReservation(k)})

AtCapacity(m) ==
  \/ PendingCount(Message, m) >= MaxPendingGlobal
  \/ PendingCount(OnRoute(m[1]), m) >= MaxPendingPerRoute

\* Faulty variant: the window's events are compared one too late.
RateExceededLate(m) ==
  Cardinality({k \in rated \ {m} : SenderOf[k[1]] = SenderOf[m[1]]}) > RateLimit

RateExceeded(m) ==
  Cardinality({k \in rated \ {m} : SenderOf[k[1]] = SenderOf[m[1]]}) >= RateLimit

Refused(m) ==
  \/ m[1] \notin authorized \/ binding[m[1]] = None
  \/ RateExceeded(m)
  \/ AtCapacity(m)

\* A new message, or a reservation that lapsed or belongs to another process.
\* Anything else is a duplicate or in progress, and changes nothing.
Admissible(d, m) ==
  \/ admission[m].disp = "none"
  \/ admission[m].disp = "reserved" /\ (admission[m].by # d \/ admission[m].due)

\* Faulty variant: the sequence is derived from the rows the route has.
TicketFromRows(m) == 1 + Cardinality({k \in OnRoute(m[1]) : inbox[k].status # "none"})

\* A reclaimed reservation keeps its place in the route.
Ticket(m) ==
  IF admission[m].disp = "reserved" THEN admission[m].seq ELSE nextSeq[m[1]]

Reserve(d, m) ==
  /\ Holds(d) /\ Admissible(d, m) /\ ~Refused(m)
  /\ nextRid <= MaxReservations
  /\ admission' = [admission EXCEPT ![m] =
       [disp |-> "reserved", rid |-> nextRid, by |-> d, due |-> FALSE,
        seq |-> Ticket(m)]]
  /\ nextSeq' = IF admission[m].disp = "none"
                THEN [nextSeq EXCEPT ![m[1]] = @ + 1] ELSE nextSeq
  /\ nextRid' = nextRid + 1
  /\ rated' = rated \cup {m}
  /\ tasks' = tasks \cup {[daemon |-> d, msg |-> m, rid |-> nextRid]}
  /\ UNCHANGED <<ownership, policy, inbox, nextId>>

\* A redelivered message whose lapsed reservation no longer passes the policy.
\* (A new message that is refused leaves no admission row.)
RejectReclaim(d, m) ==
  /\ Holds(d) /\ Admissible(d, m) /\ Refused(m)
  /\ admission[m].disp = "reserved"
  /\ admission' = [admission EXCEPT ![m] = Settled(@, "rejected")]
  /\ UNCHANGED <<ownership, policy, inbox, counters, rated, tasks>>

\* #validateReservationOwnership inside a transaction of the task's process.
Valid(t) ==
  /\ Holds(t.daemon) /\ LiveReservation(t.msg)
  /\ admission[t.msg].rid = t.rid /\ admission[t.msg].by = t.daemon

Finish(t, disp) ==
  /\ admission' = [admission EXCEPT ![t.msg] = Settled(@, disp)]
  /\ tasks' = tasks \ {t}
  /\ UNCHANGED <<ownership, policy, nextSeq, nextRid, rated>>

Insert(m, status) ==
  /\ inbox' = [inbox EXCEPT ![m] =
       [status |-> status, seq |-> admission[m].seq, id |-> nextId,
        tries |-> 0, due |-> FALSE]]
  /\ nextId' = nextId + 1

\* Faulty variant: only the route sequence is unique, not the message.
InsertIgnoredBySeq(m) ==
  \E k \in OnRoute(m[1]) :
    inbox[k].status # "none" /\ inbox[k].seq = admission[m].seq

\* INSERT OR IGNORE does nothing when the message, or its sequence on the route,
\* already has a row.
InsertIgnored(m) ==
  \/ inbox[m].status # "none"
  \/ \E k \in OnRoute(m[1]) :
       inbox[k].status # "none" /\ inbox[k].seq = admission[m].seq

\* finalizeInbound.
Finalize(t) ==
  /\ t.msg \notin Commands /\ Valid(t)
  /\ IF InsertIgnored(t.msg)
     THEN Finish(t, "materialization_failed") /\ UNCHANGED <<inbox, nextId>>
     ELSE Finish(t, "accepted") /\ Insert(t.msg, "pending")

\* finalizeApprovalCommand when the decision is recorded; a plain INSERT.
FinalizeControl(t) ==
  /\ t.msg \in Commands /\ Valid(t)
  /\ binding[t.msg[1]] # None /\ ~InsertIgnored(t.msg)
  /\ Finish(t, "control") /\ Insert(t.msg, "control")

\* materialize() or the decision failed: failMaterialization.
FailMaterialization(t) ==
  /\ Valid(t)
  /\ Finish(t, "materialization_failed") /\ UNCHANGED <<inbox, nextId>>

\* The reservation, or the database, was lost meanwhile: the call only throws.
Superseded(t) ==
  /\ ~Valid(t)
  /\ tasks' = tasks \ {t}
  /\ UNCHANGED <<ownership, policy, admission, inbox, counters, rated>>

----------------------------------------------------------------------------
(* The inbox: leaseInbound, completeInbound, cleanup. *)

Min2(a, b) == IF a < b THEN a ELSE b

\* Faulty variant: lapsed reservations are left in place.
NoBarriers == {{}}

\* #expireReservationBarriers takes at most a batch of the lapsed reservations.
BarrierBatches ==
  LET lapsed == {m \in Message : admission[m].disp = "reserved" /\ admission[m].due}
  IN  {E \in SUBSET lapsed :
         Cardinality(E) = Min2(CleanupBatchSize, Cardinality(lapsed))}

Lifted(E) ==
  [m \in Message |-> IF m \in E THEN Settled(admission[m], "materialization_failed")
                                ELSE admission[m]]

\* Faulty variant: a lapsed lease is retried however often it was tried.
RecoveredForever ==
  [m \in Message |->
     IF inbox[m].status = "leased" /\ inbox[m].due THEN Retried(inbox[m]) ELSE inbox[m]]

\* #recoverExpiredLeases, over every session's leases.
Recovered ==
  [m \in Message |->
     IF inbox[m].status = "leased" /\ inbox[m].due
     THEN IF inbox[m].tries >= MaxAttempts THEN Ended(inbox[m], "failed")
                                           ELSE Retried(inbox[m])
     ELSE inbox[m]]

\* Faulty variant: reservations still being materialized do not hold the route.
FirstAmongRows(A, I, m) ==
  \A k \in OnRoute(m[1]) : I[k].seq < I[m].seq => I[k].status \notin Outstanding

\* Faulty variant: only leased rows hold the route, not rows waiting to retry.
FirstAmongLeased(A, I, m) ==
  \A k \in OnRoute(m[1]) :
    /\ I[k].seq < I[m].seq => I[k].status \notin {"leased", "pending"}
    /\ A[k].seq < I[m].seq => A[k].disp # "reserved"

\* Nothing earlier on the route is outstanding or still being materialized.
FirstOnRoute(A, I, m) ==
  \A k \in OnRoute(m[1]) :
    /\ I[k].seq < I[m].seq => I[k].status \notin Outstanding
    /\ A[k].seq < I[m].seq => A[k].disp # "reserved"

Ready(A, I, s) ==
  {m \in Message :
     /\ I[m].status = "pending" \/ (I[m].status = "retry_wait" /\ I[m].due)
     /\ binding[m[1]] = s
     /\ FirstOnRoute(A, I, m)}

Leased(r) == [r EXCEPT !.status = "leased", !.tries = @ + 1, !.due = FALSE]

\* leaseInbound for session s: lift barriers, recover leases, then lease the
\* oldest ready row, if any.
Lease(d, s) ==
  /\ Holds(d)
  /\ \E E \in BarrierBatches :
       LET A     == Lifted(E)
           ready == Ready(A, Recovered, s)
       IN  /\ admission' = A
           /\ \/ ready = {} /\ inbox' = Recovered
              \/ \E m \in ready :
                   /\ \A k \in ready : Recovered[m].id <= Recovered[k].id
                   /\ inbox' = [Recovered EXCEPT ![m] = Leased(@)]
  /\ UNCHANGED <<ownership, policy, counters, rated, tasks>>

\* completeInbound under the current lease, which may already have lapsed.
Complete(d, m) ==
  /\ Holds(d) /\ inbox[m].status = "leased"
  /\ \E status \in {"completed", "failed"} :
       inbox' = [inbox EXCEPT ![m] = Ended(@, status)]
  /\ UNCHANGED <<ownership, policy, admission, counters, rated, tasks>>

\* completeInbound with a retryable failure and attempts left.
Retry(d, m) ==
  /\ Holds(d) /\ inbox[m].status = "leased"
  /\ inbox[m].tries < MaxAttempts
  /\ inbox' = [inbox EXCEPT ![m] = Retried(@)]
  /\ UNCHANGED <<ownership, policy, admission, counters, rated, tasks>>

Purgeable == {m \in Message : inbox[m].status \in Terminal}

\* cleanup: lift barriers, then purge terminal rows and settled admissions that
\* are past retention (any of them may be).
Cleanup(d) ==
  /\ Holds(d)
  /\ \E E \in BarrierBatches,
        R \in SUBSET Purgeable,
        S \in SUBSET {m \in Message : admission[m].disp \notin {"none", "reserved"}} :
       /\ Cardinality(R) <= CleanupBatchSize /\ Cardinality(S) <= CleanupBatchSize
       /\ inbox' = [m \in Message |-> IF m \in R THEN NoRow ELSE inbox[m]]
       /\ admission' = [m \in Message |-> IF m \in S THEN NoAdmission ELSE Lifted(E)[m]]
  /\ UNCHANGED <<ownership, policy, counters, rated, tasks>>

----------------------------------------------------------------------------
(* The passage of time. *)

\* A reservation's expiry passes.
ReservationLapses(m) ==
  /\ admission[m].disp = "reserved" /\ ~admission[m].due
  /\ admission' = [admission EXCEPT ![m].due = TRUE]
  /\ UNCHANGED <<ownership, policy, inbox, counters, rated, tasks>>

\* A lease's expiry, or the end of a retry's backoff, passes.
RowFallsDue(m) ==
  /\ inbox[m].status \in {"leased", "retry_wait"} /\ ~inbox[m].due
  /\ inbox' = [inbox EXCEPT ![m].due = TRUE]
  /\ UNCHANGED <<ownership, policy, admission, counters, rated, tasks>>

LeavesRateWindow(m) ==
  /\ m \in rated
  /\ rated' = rated \ {m}
  /\ UNCHANGED <<ownership, policy, admission, inbox, counters, tasks>>

----------------------------------------------------------------------------
Init ==
  /\ owner = None /\ ownerDue = FALSE
  /\ process = [d \in Daemon |-> "unborn"]
  /\ binding = [r \in Route |-> None] /\ authorized = {}
  /\ admission = [m \in Message |-> NoAdmission]
  /\ inbox = [m \in Message |-> NoRow]
  /\ nextSeq = [r \in Route |-> 1] /\ nextId = 1 /\ nextRid = 1
  /\ rated = {} /\ tasks = {}

Life(d) == Start(d) \/ Renew(d) \/ Close(d) \/ Crash(d)

Ingress(d) == \E m \in Message : Reserve(d, m) \/ RejectReclaim(d, m)

Resume ==
  \E t \in tasks :
    Finalize(t) \/ FinalizeControl(t) \/ FailMaterialization(t) \/ Superseded(t)

Extension(d) ==
  \/ \E s \in Session : Lease(d, s)
  \/ \E m \in Message : Complete(d, m) \/ Retry(d, m)

Admin(d) == \E r \in Route : SetPolicy(d, r) \/ \E s \in Session : Bind(d, r, s)

Time ==
  \/ OwnershipLapses
  \/ \E m \in Message : ReservationLapses(m) \/ RowFallsDue(m) \/ LeavesRateWindow(m)

Next ==
  \/ \E d \in Daemon : Life(d) \/ Ingress(d) \/ Extension(d) \/ Admin(d) \/ Cleanup(d)
  \/ Resume
  \/ Time

Spec == Init /\ [][Next]_vars
----------------------------------------------------------------------------
(* Correctness. *)

\* Types of the tables and of the calls under way.
TypeOK ==
  /\ owner \in Daemon \cup {None} /\ ownerDue \in BOOLEAN
  /\ process \in [Daemon -> {"unborn", "running", "gone"}]
  /\ binding \in [Route -> Session \cup {None}] /\ authorized \subseteq Route
  /\ admission \in [Message -> Admission] /\ inbox \in [Message -> Row]
  /\ nextSeq \in [Route -> Nat] /\ nextId \in Nat /\ nextRid \in Nat
  /\ rated \subseteq Message /\ tasks \subseteq Task

\* A route sequence names one message: no two rows, no two reservations, and no
\* row and reservation of a route share one, through reclaims, purges and
\* redelivery.  So UNIQUE(route_key, route_sequence) never drops a message.
TicketsUnique ==
  \A r \in Route : \A m, k \in OnRoute(r) :
    /\ m # k /\ inbox[m].status # "none" /\ inbox[k].status # "none"
         => inbox[m].seq # inbox[k].seq
    /\ m # k /\ admission[m].disp = "reserved" /\ admission[k].disp = "reserved"
         => admission[m].seq # admission[k].seq
    /\ admission[m].disp = "reserved" /\ inbox[k].status # "none"
         => admission[m].seq # inbox[k].seq

\* Messages of a route are worked on in the order they were admitted: once a
\* message has been leased, nothing before it is outstanding, and nothing before
\* it can still arrive from a reservation.  At most one row of a route is leased.
FifoPerRoute ==
  \A r \in Route : \A m, k \in OnRoute(r) :
    inbox[m].tries > 0 =>
      /\ inbox[k].seq < inbox[m].seq => inbox[k].status \notin Outstanding
      /\ admission[k].seq < inbox[m].seq => admission[k].disp # "reserved"

\* Reservations under way and outstanding rows together stay within the
\* gateway's and each route's capacity, whoever reclaims or finalizes them.
WithinCapacity ==
  LET Load(M) == Cardinality({k \in M : inbox[k].status \in Outstanding})
                   + Cardinality({k \in M : LiveReservation(k)})
  IN  /\ Load(Message) <= MaxPendingGlobal
      /\ \A r \in Route : Load(OnRoute(r)) <= MaxPendingPerRoute

\* A sender never has more than RateLimit admitted messages in the window, over
\* all its routes, counting a redelivered message once.
WithinRate ==
  \A r \in Route :
    Cardinality({m \in rated : SenderOf[m[1]] = SenderOf[r]}) <= RateLimit

\* A message is handed to a session at most MaxAttempts times, over lapsed
\* leases, reported failures, rebinding and restarts of the daemon.
LeaseBudget == \A m \in Message : inbox[m].tries <= MaxAttempts

\* A superseded process never gets the database back, and a process that keeps
\* its ownership fresh loses it to nobody.
OwnershipHandover ==
  [][\A d \in Daemon :
       /\ owner # d /\ owner' = d => process[d] = "unborn"
       /\ owner = d /\ owner' # d => ownerDue \/ process'[d] # "running"]_vars

\* An accepted message keeps its one row until it has ended: neither a crash, a
\* purge nor a redelivery loses it or queues it a second time.
AcceptedOnce ==
  [][\A m \in Message :
       inbox[m].status \in Outstanding =>
         inbox'[m].status # "none" /\ inbox'[m].id = inbox[m].id]_vars
================================================================================
