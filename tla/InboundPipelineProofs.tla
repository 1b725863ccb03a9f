------------------------- MODULE InboundPipelineProofs -------------------------
(***************************************************************************)
(* Safety of the inbound pipeline for every set of routes, messages,       *)
(* sessions and daemon processes and every setting of the limits: types,   *)
(* the order of a route, what a step may make of a row, the limits, and    *)
(* the refinement of the ticket queue.                                     *)
(***************************************************************************)
EXTENDS InboundRefinement, FiniteSetTheorems, TLAPS

----------------------------------------------------------------------------
(* What the rows become. *)

LEMMA SettledType ==
  ASSUME NEW a \in Admission, NEW disp \in Disposition
  PROVE  /\ Settled(a, disp) \in Admission
         /\ Settled(a, disp).seq = a.seq /\ Settled(a, disp).disp = disp
BY DEF Settled, Admission

LEMMA EndedType ==
  ASSUME NEW r \in Row, NEW status \in Terminal
  PROVE  /\ Ended(r, status) \in Row /\ Ended(r, status).status = status
         /\ Ended(r, status).seq = r.seq /\ Ended(r, status).id = r.id
         /\ Ended(r, status).tries = r.tries
BY DEF Ended, Row

LEMMA RetriedType ==
  ASSUME NEW r \in Row
  PROVE  /\ Retried(r) \in Row /\ Retried(r).status = "retry_wait"
         /\ Retried(r).seq = r.seq /\ Retried(r).id = r.id
         /\ Retried(r).tries = r.tries
BY DEF Retried, Row, Outstanding

LEMMA LeasedType ==
  ASSUME NEW r \in Row
  PROVE  /\ Leased(r) \in Row /\ Leased(r).status = "leased"
         /\ Leased(r).seq = r.seq /\ Leased(r).id = r.id
         /\ Leased(r).tries = r.tries + 1
<1>1. r.tries + 1 \in Nat BY DEF Row
<1>2. Leased(r) \in Row BY <1>1 DEF Leased, Row, Outstanding
<1>3. Leased(r).status = "leased" BY DEF Leased, Row
<1>4. Leased(r).seq = r.seq /\ Leased(r).id = r.id BY DEF Leased, Row
<1>5. Leased(r).tries = r.tries + 1 BY DEF Leased, Row
<1>. QED BY <1>2, <1>3, <1>4, <1>5

\* Lifting barriers only takes reservations away.
LEMMA LiftedFacts ==
  ASSUME admission \in [Message -> Admission],
         NEW E \in SUBSET {m \in Message : admission[m].disp = "reserved"}
  PROVE  /\ Lifted(E) \in [Message -> Admission]
         /\ \A m \in Message :
              /\ Lifted(E)[m].seq = admission[m].seq
              /\ Lifted(E)[m].disp = "reserved" => admission[m].disp = "reserved"
<1>1. "materialization_failed" \in Disposition BY DEF Disposition
<1>2. \A m \in Message : admission[m] \in Admission OBVIOUS
<1>3. ASSUME NEW m \in Message
      PROVE  /\ Lifted(E)[m] \in Admission
             /\ Lifted(E)[m].seq = admission[m].seq
             /\ Lifted(E)[m].disp = "reserved" => admission[m].disp = "reserved"
  BY <1>1, <1>2, <1>3, SettledType DEF Lifted
<1>. QED BY <1>3 DEF Lifted

\* Recovering lapsed leases keeps every row's place and adds no outstanding row.
LEMMA RecoveredFacts ==
  ASSUME inbox \in [Message -> Row]
  PROVE  /\ Recovered \in [Message -> Row]
         /\ \A m \in Message :
              /\ Recovered[m].seq = inbox[m].seq /\ Recovered[m].id = inbox[m].id
              /\ Recovered[m].tries = inbox[m].tries
              /\ Recovered[m].status \in Outstanding => inbox[m].status \in Outstanding
              /\ Recovered[m].status = "none" <=> inbox[m].status = "none"
<1>1. ASSUME NEW m \in Message
      PROVE  /\ Recovered[m] \in Row
             /\ Recovered[m].seq = inbox[m].seq /\ Recovered[m].id = inbox[m].id
             /\ Recovered[m].tries = inbox[m].tries
             /\ Recovered[m].status \in Outstanding => inbox[m].status \in Outstanding
             /\ Recovered[m].status = "none" <=> inbox[m].status = "none"
  <2>1. inbox[m] \in Row OBVIOUS
  <2>2. CASE ~(inbox[m].status = "leased" /\ inbox[m].due)
    BY <2>1, <2>2 DEF Recovered
  <2>3. CASE inbox[m].status = "leased" /\ inbox[m].due /\ inbox[m].tries >= MaxAttempts
    <3>1. Recovered[m] = Ended(inbox[m], "failed") BY <2>3 DEF Recovered
    <3>. QED BY <2>1, <2>3, <3>1, EndedType DEF Terminal, Outstanding
  <2>4. CASE inbox[m].status = "leased" /\ inbox[m].due /\ ~(inbox[m].tries >= MaxAttempts)
    <3>1. Recovered[m] = Retried(inbox[m]) BY <2>4 DEF Recovered
    <3>. QED BY <2>1, <2>4, <3>1, RetriedType DEF Outstanding
  <2>. QED BY <2>2, <2>3, <2>4
<1>. QED BY <1>1 DEF Recovered

LEMMA BarrierBatchFacts ==
  ASSUME NEW E \in BarrierBatches
  PROVE  E \in SUBSET {m \in Message : admission[m].disp = "reserved"}
BY DEF BarrierBatches
----------------------------------------------------------------------------
(* Type correctness. *)

LEMMA SettleTypes ==
  ASSUME TypeOK, NEW m \in Message, NEW disp \in Disposition,
         admission' = [admission EXCEPT ![m] = Settled(@, disp)]
  PROVE  admission' \in [Message -> Admission]
<1>1. admission[m] \in Admission BY DEF TypeOK
<1>2. Settled(admission[m], disp) \in Admission BY <1>1, SettledType
<1>. QED BY <1>2 DEF TypeOK

LEMMA InsertTypes ==
  ASSUME TypeOK, NEW m \in Message, NEW status \in {"pending", "control"},
         Insert(m, status)
  PROVE  inbox' \in [Message -> Row] /\ nextId' \in Nat
<1>1. admission[m].seq \in Nat BY DEF TypeOK, Admission
<1>2. [status |-> status, seq |-> admission[m].seq, id |-> nextId,
       tries |-> 0, due |-> FALSE] \in Row
  BY <1>1 DEF TypeOK, Row, Outstanding, Terminal
<1>. QED BY <1>2 DEF TypeOK, Insert

LEMMA LeaseTypes ==
  ASSUME TypeOK, NEW d, NEW s, Lease(d, s)
  PROVE  admission' \in [Message -> Admission] /\ inbox' \in [Message -> Row]
<1>1. PICK E \in BarrierBatches :
        /\ admission' = Lifted(E)
        /\ \/ inbox' = Recovered
           \/ \E m \in Message : inbox' = [Recovered EXCEPT ![m] = Leased(@)]
  BY DEF Lease, Ready
<1>2. admission' \in [Message -> Admission]
  BY <1>1, BarrierBatchFacts, LiftedFacts DEF TypeOK
<1>3. Recovered \in [Message -> Row] BY RecoveredFacts DEF TypeOK
<1>4. ASSUME NEW m \in Message, inbox' = [Recovered EXCEPT ![m] = Leased(@)]
      PROVE  inbox' \in [Message -> Row]
  <2>1. Leased(Recovered[m]) \in Row BY <1>3, LeasedType
  <2>. QED BY <1>3, <1>4, <2>1
<1>. QED BY <1>1, <1>2, <1>3, <1>4

LEMMA CleanupTypes ==
  ASSUME TypeOK, NEW d, Cleanup(d)
  PROVE  admission' \in [Message -> Admission] /\ inbox' \in [Message -> Row]
<1>1. PICK E \in BarrierBatches, R \in SUBSET Purgeable,
           S \in SUBSET {m \in Message : admission[m].disp \notin {"none", "reserved"}} :
        /\ inbox' = [m \in Message |-> IF m \in R THEN NoRow ELSE inbox[m]]
        /\ admission' = [m \in Message |-> IF m \in S THEN NoAdmission ELSE Lifted(E)[m]]
  BY DEF Cleanup
<1>2. NoRow \in Row BY DEF NoRow, Row
<1>3. NoAdmission \in Admission BY DEF NoAdmission, Admission, Disposition
<1>4. Lifted(E) \in [Message -> Admission]
  BY BarrierBatchFacts, LiftedFacts DEF TypeOK
<1>5. inbox' \in [Message -> Row] BY <1>1, <1>2 DEF TypeOK
<1>6. admission' \in [Message -> Admission] BY <1>1, <1>3, <1>4
<1>. QED BY <1>5, <1>6

LEMMA ReserveTypes ==
  ASSUME TypeOK, NEW d \in Daemon, NEW m \in Message, Reserve(d, m)
  PROVE  TypeOK'
<1>1. Ticket(m) \in Nat BY DEF TypeOK, Ticket, Admission, Message
<1>2. [disp |-> "reserved", rid |-> nextRid, by |-> d, due |-> FALSE,
       seq |-> Ticket(m)] \in Admission
  BY <1>1 DEF TypeOK, Admission, Disposition
<1>3. admission' \in [Message -> Admission] BY <1>2 DEF TypeOK, Reserve
<1>4. nextSeq' \in [Route -> Nat] BY DEF TypeOK, Reserve, Message
<1>5. nextRid' \in Nat /\ rated' \subseteq Message BY DEF TypeOK, Reserve
<1>6. tasks' \subseteq Task BY DEF TypeOK, Reserve, Task
<1>. QED
  BY <1>3, <1>4, <1>5, <1>6 DEF TypeOK, Reserve, ownership, policy

LEMMA TypeStep ==
  ASSUME TypeOK, [Next]_vars
  PROVE  TypeOK'
<1>. USE DEF ownership, policy, counters
<1>1. ASSUME NEW d \in Daemon, Life(d) PROVE TypeOK'
  BY <1>1 DEF TypeOK, Life, Start, Renew, Close, Crash, Gone
<1>2. ASSUME NEW d \in Daemon, Ingress(d) PROVE TypeOK'
  <2>1. ASSUME NEW m \in Message, RejectReclaim(d, m) PROVE TypeOK'
    <3>1. "rejected" \in Disposition BY DEF Disposition
    <3>2. admission' \in [Message -> Admission]
      BY <2>1, <3>1, SettleTypes DEF RejectReclaim
    <3>. QED BY <2>1, <3>2 DEF TypeOK, RejectReclaim
  <2>. QED BY <1>2, <2>1, ReserveTypes DEF Ingress
<1>3. ASSUME NEW d \in Daemon, Extension(d) PROVE TypeOK'
  <2>1. ASSUME NEW s \in Session, Lease(d, s) PROVE TypeOK'
    BY <2>1, LeaseTypes DEF TypeOK, Lease
  <2>2. ASSUME NEW m \in Message, Complete(d, m) PROVE TypeOK'
    <3>1. PICK status \in {"completed", "failed"} :
            inbox' = [inbox EXCEPT ![m] = Ended(@, status)]
      BY <2>2 DEF Complete
    <3>2. Ended(inbox[m], status) \in Row BY EndedType DEF TypeOK, Terminal
    <3>3. inbox' \in [Message -> Row] BY <3>1, <3>2 DEF TypeOK
    <3>. QED BY <2>2, <3>3 DEF TypeOK, Complete
  <2>3. ASSUME NEW m \in Message, Retry(d, m) PROVE TypeOK'
    <3>1. Retried(inbox[m]) \in Row BY RetriedType DEF TypeOK
    <3>2. inbox' \in [Message -> Row] BY <2>3, <3>1 DEF TypeOK, Retry
    <3>. QED BY <2>3, <3>2 DEF TypeOK, Retry
  <2>. QED BY <1>3, <2>1, <2>2, <2>3 DEF Extension
<1>4. ASSUME NEW d \in Daemon, Admin(d) PROVE TypeOK'
  BY <1>4 DEF TypeOK, Admin, Bind, SetPolicy
<1>5. ASSUME NEW d \in Daemon, Cleanup(d) PROVE TypeOK'
  BY <1>5, CleanupTypes DEF TypeOK, Cleanup
<1>6. CASE Resume
  <2>0. PICK t \in tasks : \/ Finalize(t) \/ FinalizeControl(t)
                           \/ FailMaterialization(t) \/ Superseded(t)
    BY <1>6 DEF Resume
  <2>1. t.msg \in Message BY <2>0 DEF TypeOK, Task
  <2>2. ASSUME NEW disp \in Disposition, Finish(t, disp)
        PROVE  /\ admission' \in [Message -> Admission] /\ tasks' \subseteq Task
               /\ UNCHANGED <<ownership, policy, nextSeq, nextRid, rated>>
    BY <2>1, <2>2, SettleTypes DEF Finish, TypeOK
  <2>3. {"accepted", "control", "materialization_failed"} \subseteq Disposition
    BY DEF Disposition
  <2>4. CASE Finalize(t)
    BY <2>1, <2>2, <2>3, <2>4, InsertTypes DEF Finalize, TypeOK
  <2>5. CASE FinalizeControl(t)
    BY <2>1, <2>2, <2>3, <2>5, InsertTypes DEF FinalizeControl, TypeOK
  <2>6. CASE FailMaterialization(t)
    BY <2>2, <2>3, <2>6 DEF FailMaterialization, TypeOK
  <2>7. CASE Superseded(t)
    BY <2>7 DEF Superseded, TypeOK
  <2>. QED BY <2>0, <2>4, <2>5, <2>6, <2>7
<1>7. CASE Time
  <2>1. CASE OwnershipLapses BY <2>1 DEF TypeOK, OwnershipLapses
  <2>2. ASSUME NEW m \in Message, ReservationLapses(m) PROVE TypeOK'
    <3>1. [admission[m] EXCEPT !.due = TRUE] \in Admission BY DEF TypeOK, Admission
    <3>2. admission' \in [Message -> Admission]
      BY <2>2, <3>1 DEF TypeOK, ReservationLapses
    <3>. QED BY <2>2, <3>2 DEF TypeOK, ReservationLapses
  <2>3. ASSUME NEW m \in Message, RowFallsDue(m) PROVE TypeOK'
    <3>1. [inbox[m] EXCEPT !.due = TRUE] \in Row BY DEF TypeOK, Row
    <3>2. inbox' \in [Message -> Row] BY <2>3, <3>1 DEF TypeOK, RowFallsDue
    <3>. QED BY <2>3, <3>2 DEF TypeOK, RowFallsDue
  <2>4. ASSUME NEW m \in Message, LeavesRateWindow(m) PROVE TypeOK'
    BY <2>4 DEF TypeOK, LeavesRateWindow
  <2>. QED BY <1>7, <2>1, <2>2, <2>3, <2>4 DEF Time
<1>8. CASE UNCHANGED vars BY <1>8 DEF TypeOK, vars
<1>. QED BY <1>1, <1>2, <1>3, <1>4, <1>5, <1>6, <1>7, <1>8 DEF Next

LEMMA TypeInit ==
  ASSUME Init
  PROVE  TypeOK
<1>1. NoAdmission \in Admission BY DEF NoAdmission, Admission, Disposition
<1>2. NoRow \in Row BY DEF NoRow, Row
<1>3. admission \in [Message -> Admission] /\ inbox \in [Message -> Row]
  BY <1>1, <1>2 DEF Init
<1>4. process \in [Daemon -> {"unborn", "running", "gone"}] BY DEF Init
<1>5. binding \in [Route -> Session \cup {None}] /\ authorized \subseteq Route
  BY DEF Init
<1>6. nextSeq \in [Route -> Nat] /\ nextId \in Nat /\ nextRid \in Nat BY DEF Init
<1>7. rated \subseteq Message /\ tasks \subseteq Task BY DEF Init
<1>8. owner \in Daemon \cup {None} /\ ownerDue \in BOOLEAN BY DEF Init
<1>. QED BY <1>3, <1>4, <1>5, <1>6, <1>7, <1>8 DEF TypeOK

\* The tables and the pending calls always have their types.
THEOREM TypeCorrect == Spec => []TypeOK
BY TypeInit, TypeStep, PTL DEF Spec
----------------------------------------------------------------------------
(* Order.  FifoPerRoute alone is not inductive: that a reservation never     *)
(* lands before a leased message rests on sequences being issued in          *)
(* increasing order and never shared.                                        *)

\* Every sequence in use was issued by the route's counter.
Issued ==
  \A m \in Message :
    /\ admission[m].disp = "reserved" => admission[m].seq < nextSeq[m[1]]
    /\ inbox[m].status # "none" => inbox[m].seq < nextSeq[m[1]]

Untried == \A m \in Message : inbox[m].tries > 0 => inbox[m].status # "none"

OrderInv == TypeOK /\ Issued /\ Untried /\ TicketsUnique /\ FifoPerRoute

\* A step that issues no sequence and inserts no row, and hands a message out
\* for the first time only when it is first on its route.
Settles ==
  /\ nextSeq' = nextSeq
  /\ \A m \in Message :
       admission'[m].disp = "reserved" =>
         admission[m].disp = "reserved" /\ admission'[m].seq = admission[m].seq
  /\ \A m \in Message :
       inbox'[m].status # "none" =>
         inbox[m].status # "none" /\ inbox'[m].seq = inbox[m].seq
  /\ \A m \in Message :
       inbox'[m].status \in Outstanding => inbox[m].status \in Outstanding
  /\ \A m \in Message :
       inbox'[m].tries > 0 =>
         /\ inbox'[m].status # "none"
         /\ inbox[m].tries > 0 \/ FirstOnRoute(admission', inbox', m)

LEMMA SettlesKeepsOrder ==
  ASSUME OrderInv, TypeOK', Settles
  PROVE  OrderInv'
<1>. USE DEF OrderInv
<1>1. Issued' BY DEF Issued, Settles
<1>2. Untried' BY DEF Untried, Settles
<1>3. TicketsUnique' BY DEF TicketsUnique, Settles, OnRoute
<1>4. FifoPerRoute'
  <2>. SUFFICES ASSUME NEW r \in Route, NEW m \in OnRoute(r), NEW k \in OnRoute(r),
                       inbox'[m].tries > 0
                PROVE  /\ inbox'[k].seq < inbox'[m].seq => inbox'[k].status \notin Outstanding
                       /\ admission'[k].seq < inbox'[m].seq => admission'[k].disp # "reserved"
    BY DEF FifoPerRoute
  <2>1. m \in Message /\ k \in Message /\ m[1] = r BY DEF OnRoute
  <2>2. CASE FirstOnRoute(admission', inbox', m)
    BY <2>1, <2>2 DEF FirstOnRoute
  <2>3. CASE inbox[m].tries > 0
    <3>1. inbox'[m].seq = inbox[m].seq BY <2>1 DEF Settles
    <3>2. ASSUME inbox'[k].status \in Outstanding
          PROVE  inbox[k].status \in Outstanding /\ inbox'[k].seq = inbox[k].seq
      BY <2>1, <3>2 DEF Settles, Outstanding
    <3>3. ASSUME admission'[k].disp = "reserved"
          PROVE  admission[k].disp = "reserved" /\ admission'[k].seq = admission[k].seq
      BY <2>1, <3>3 DEF Settles
    <3>. QED BY <2>3, <3>1, <3>2, <3>3 DEF FifoPerRoute
  <2>. QED BY <2>1, <2>2, <2>3 DEF Settles
<1>. QED BY <1>1, <1>2, <1>3, <1>4

LEMMA ReserveKeepsOrder ==
  ASSUME OrderInv, TypeOK', NEW d \in Daemon, NEW m \in Message, Reserve(d, m)
  PROVE  OrderInv'
<1>. USE DEF OrderInv
<1>1. /\ m[1] \in Route /\ inbox' = inbox
      /\ admission'[m].disp = "reserved" /\ admission'[m].seq = Ticket(m)
      /\ \A k \in Message : k # m => admission'[k] = admission[k]
  BY DEF Reserve, TypeOK, Message
<1>2. \A k \in Message : nextSeq[k[1]] \in Nat /\ inbox[k].seq \in Nat /\ admission[k].seq \in Nat
  BY DEF TypeOK, Message, Row, Admission
<1>3. CASE admission[m].disp = "reserved"
  <2>1. nextSeq' = nextSeq /\ Ticket(m) = admission[m].seq
    BY <1>3 DEF Reserve, Ticket
  <2>2. \A k \in Message : admission'[k].disp = "reserved" =>
          admission[k].disp = "reserved" /\ admission'[k].seq = admission[k].seq
    BY <1>1, <1>3, <2>1
  <2>3. Settles BY <1>1, <2>1, <2>2 DEF Settles, Untried
  <2>. QED BY <2>3, SettlesKeepsOrder
<1>4. CASE admission[m].disp = "none"
  <2>1. /\ Ticket(m) = nextSeq[m[1]]
        /\ nextSeq' = [nextSeq EXCEPT ![m[1]] = @ + 1]
    BY <1>4 DEF Reserve, Ticket
  <2>2. \A k \in Message : nextSeq'[k[1]] \in Nat /\ nextSeq[k[1]] <= nextSeq'[k[1]]
    BY <1>1, <1>2, <2>1 DEF TypeOK, Message
  <2>3. nextSeq'[m[1]] = nextSeq[m[1]] + 1 BY <1>1, <2>1 DEF TypeOK
  <2>4. Issued' BY <1>1, <1>2, <2>1, <2>2, <2>3 DEF Issued
  <2>5. Untried' BY <1>1 DEF Untried
  <2>6. TicketsUnique' BY <1>1, <1>2, <2>1 DEF TicketsUnique, Issued, OnRoute
  <2>7. FifoPerRoute' BY <1>1, <1>2, <2>1 DEF FifoPerRoute, Issued, Untried, OnRoute
  <2>. QED BY <2>4, <2>5, <2>6, <2>7
<1>. QED BY <1>3, <1>4 DEF Reserve, Admissible

LEMMA InsertKeepsOrder ==
  ASSUME OrderInv, TypeOK', NEW t \in tasks, NEW disp \in {"accepted", "control"},
         NEW status \in {"pending", "control"},
         Valid(t), ~InsertIgnored(t.msg), Finish(t, disp), Insert(t.msg, status)
  PROVE  OrderInv'
<1>. USE DEF OrderInv
<1>. DEFINE m == t.msg
<1>1. m \in Message BY DEF TypeOK, Task
<1>2. /\ admission[m].disp = "reserved" /\ inbox[m].status = "none"
  BY DEF Valid, LiveReservation, InsertIgnored
<1>3. /\ nextSeq' = nextSeq
      /\ admission'[m].disp # "reserved"
      /\ \A k \in Message : k # m => admission'[k] = admission[k] /\ inbox'[k] = inbox[k]
  <2>1. Settled(admission[m], disp).disp = disp
    BY <1>1, SettledType DEF TypeOK, Disposition
  <2>. QED BY <1>1, <2>1 DEF Finish, Insert, TypeOK
<1>4. /\ inbox'[m].seq = admission[m].seq /\ inbox'[m].status = status
      /\ inbox'[m].tries = 0
  BY <1>1 DEF Insert, TypeOK
<1>5. Issued' BY <1>1, <1>2, <1>3, <1>4 DEF Issued
<1>6. Untried' BY <1>1, <1>3, <1>4 DEF Untried
<1>7. TicketsUnique' BY <1>1, <1>2, <1>3, <1>4 DEF TicketsUnique, OnRoute
<1>8. FifoPerRoute' BY <1>1, <1>2, <1>3, <1>4 DEF FifoPerRoute, OnRoute
<1>. QED BY <1>5, <1>6, <1>7, <1>8
LEMMA LeaseKeepsOrder ==
  ASSUME OrderInv, TypeOK', NEW d, NEW s, Lease(d, s)
  PROVE  OrderInv'
<1>. USE DEF OrderInv
<1>1. PICK E \in BarrierBatches :
        /\ admission' = Lifted(E)
        /\ \/ inbox' = Recovered
           \/ \E p \in Ready(Lifted(E), Recovered, s) :
                inbox' = [Recovered EXCEPT ![p] = Leased(@)]
  BY DEF Lease
<1>2. \A m \in Message :
        admission'[m].disp = "reserved" =>
          admission[m].disp = "reserved" /\ admission'[m].seq = admission[m].seq
  BY <1>1, BarrierBatchFacts, LiftedFacts DEF TypeOK
<1>3. nextSeq' = nextSeq BY DEF Lease, counters
<1>4. CASE inbox' = Recovered
  BY <1>2, <1>3, <1>4, RecoveredFacts, SettlesKeepsOrder DEF Settles, TypeOK, Untried
<1>5. ASSUME NEW p \in Ready(Lifted(E), Recovered, s),
             inbox' = [Recovered EXCEPT ![p] = Leased(@)]
      PROVE  OrderInv'
  <2>1. /\ p \in Message /\ Recovered[p].status \in Outstanding
        /\ FirstOnRoute(Lifted(E), Recovered, p)
    BY DEF Ready, Outstanding
  <2>2. /\ Recovered \in [Message -> Row] /\ Recovered[p] \in Row
        /\ \A m \in Message : Recovered[m].seq \in Nat
    BY <2>1, RecoveredFacts DEF TypeOK, Row
  <2>3. /\ inbox'[p].status = "leased" /\ inbox'[p].seq = Recovered[p].seq
        /\ \A m \in Message : m # p => inbox'[m] = Recovered[m]
    BY <1>5, <2>1, <2>2, LeasedType
  <2>4. FirstOnRoute(admission', inbox', p)
    BY <1>1, <2>1, <2>2, <2>3 DEF FirstOnRoute, OnRoute
  <2>5. Settles
    BY <1>2, <1>3, <2>1, <2>3, <2>4, RecoveredFacts
    DEF Settles, TypeOK, Untried, Outstanding
  <2>. QED BY <2>5, SettlesKeepsOrder
<1>. QED BY <1>1, <1>4, <1>5

LEMMA CleanupKeepsOrder ==
  ASSUME OrderInv, TypeOK', NEW d, Cleanup(d)
  PROVE  OrderInv'
<1>. USE DEF OrderInv
<1>1. PICK E \in BarrierBatches, R \in SUBSET Purgeable,
           S \in SUBSET {m \in Message : admission[m].disp \notin {"none", "reserved"}} :
        /\ inbox' = [m \in Message |-> IF m \in R THEN NoRow ELSE inbox[m]]
        /\ admission' = [m \in Message |-> IF m \in S THEN NoAdmission ELSE Lifted(E)[m]]
  BY DEF Cleanup
<1>2. \A m \in Message :
        admission'[m].disp = "reserved" =>
          admission[m].disp = "reserved" /\ admission'[m].seq = admission[m].seq
  BY <1>1, BarrierBatchFacts, LiftedFacts DEF TypeOK, NoAdmission
<1>3. /\ nextSeq' = nextSeq
      /\ \A m \in Message : inbox'[m] = NoRow \/ inbox'[m] = inbox[m]
  BY <1>1 DEF Cleanup, counters
<1>4. Settles BY <1>2, <1>3 DEF Settles, NoRow, Outstanding, Untried
<1>. QED BY <1>4, SettlesKeepsOrder

LEMMA OrderStep ==
  ASSUME OrderInv, [Next]_vars
  PROVE  OrderInv'
<1>. USE DEF OrderInv
<1>0. TypeOK' BY TypeStep
<1>1. ASSUME UNCHANGED <<admission, inbox, nextSeq>> PROVE OrderInv'
  BY <1>0, <1>1, SettlesKeepsOrder DEF Settles, Untried
<1>2. ASSUME NEW d \in Daemon, Life(d) \/ Admin(d) PROVE OrderInv'
  BY <1>1, <1>2 DEF Life, Start, Renew, Close, Crash, Gone, Admin, Bind, SetPolicy, counters
<1>3. ASSUME NEW m \in Message, NEW disp \in Disposition, disp # "reserved",
             admission' = [admission EXCEPT ![m] = Settled(@, disp)],
             UNCHANGED <<inbox, nextSeq>>
      PROVE  OrderInv'
  <2>1. Settled(admission[m], disp).disp = disp BY SettledType DEF TypeOK
  <2>2. \A k \in Message :
          admission'[k].disp = "reserved" =>
            admission[k].disp = "reserved" /\ admission'[k].seq = admission[k].seq
    BY <1>3, <2>1 DEF TypeOK
  <2>3. Settles BY <1>3, <2>2 DEF Settles, Untried
  <2>. QED BY <1>0, <2>3, SettlesKeepsOrder
<1>4. ASSUME NEW d \in Daemon, Ingress(d) PROVE OrderInv'
  <2>1. ASSUME NEW m \in Message, RejectReclaim(d, m) PROVE OrderInv'
    BY <1>3, <2>1 DEF RejectReclaim, Disposition, counters
  <2>. QED BY <1>0, <1>4, <2>1, ReserveKeepsOrder DEF Ingress
<1>5. ASSUME NEW m \in Message, NEW row \in Row,
             inbox[m].status \in Outstanding, row.status # "none",
             row.seq = inbox[m].seq, row.tries = inbox[m].tries,
             inbox' = [inbox EXCEPT ![m] = row],
             UNCHANGED <<admission, nextSeq>>
      PROVE  OrderInv'
  <2>1. /\ inbox'[m] = row
        /\ \A k \in Message : k # m => inbox'[k] = inbox[k]
    BY <1>5 DEF TypeOK
  <2>2. Settles BY <1>5, <2>1 DEF Settles, Untried, Outstanding
  <2>. QED BY <1>0, <2>2, SettlesKeepsOrder
<1>6. ASSUME NEW d \in Daemon, Extension(d) PROVE OrderInv'
  <2>1. ASSUME NEW m \in Message, Complete(d, m) PROVE OrderInv'
    <3>1. PICK status \in {"completed", "failed"} :
            inbox' = [inbox EXCEPT ![m] = Ended(@, status)]
      BY <2>1 DEF Complete
    <3>2. inbox[m] \in Row /\ status \in Terminal BY DEF TypeOK, Terminal
    <3>3. inbox' = [inbox EXCEPT ![m] = Ended(inbox[m], status)] BY <3>1
    <3>. QED
      BY <1>5, <2>1, <3>2, <3>3, EndedType DEF Complete, Outstanding, counters
  <2>2. ASSUME NEW m \in Message, Retry(d, m) PROVE OrderInv'
    <3>1. inbox[m] \in Row BY DEF TypeOK
    <3>2. inbox' = [inbox EXCEPT ![m] = Retried(inbox[m])] BY <2>2 DEF Retry
    <3>. QED
      BY <1>5, <2>2, <3>1, <3>2, RetriedType DEF Retry, Outstanding, counters
  <2>. QED BY <1>0, <1>6, <2>1, <2>2, LeaseKeepsOrder DEF Extension
<1>7. ASSUME NEW d \in Daemon, Cleanup(d) PROVE OrderInv'
  BY <1>0, <1>7, CleanupKeepsOrder
<1>8. CASE Resume
  <2>0. PICK t \in tasks : \/ Finalize(t) \/ FinalizeControl(t)
                           \/ FailMaterialization(t) \/ Superseded(t)
    BY <1>8 DEF Resume
  <2>1. t.msg \in Message BY <2>0 DEF TypeOK, Task
  <2>2. ASSUME Finish(t, "materialization_failed"), UNCHANGED inbox PROVE OrderInv'
    BY <1>3, <2>1, <2>2 DEF Finish, Disposition
  <2>3. CASE Finalize(t)
    BY <1>0, <2>0, <2>2, <2>3, InsertKeepsOrder DEF Finalize
  <2>4. CASE FinalizeControl(t)
    BY <1>0, <2>0, <2>4, InsertKeepsOrder DEF FinalizeControl
  <2>5. CASE FailMaterialization(t) BY <2>2, <2>5 DEF FailMaterialization
  <2>6. CASE Superseded(t) BY <1>1, <2>6 DEF Superseded, counters
  <2>. QED BY <2>0, <2>3, <2>4, <2>5, <2>6
<1>9. CASE Time
  <2>1. CASE OwnershipLapses BY <1>1, <2>1 DEF OwnershipLapses, counters
  <2>2. ASSUME NEW m \in Message, ReservationLapses(m) PROVE OrderInv'
    <3>1. \A k \in Message : /\ admission'[k].disp = admission[k].disp
                             /\ admission'[k].seq = admission[k].seq
      BY <2>2 DEF ReservationLapses, TypeOK, Admission
    <3>2. Settles BY <2>2, <3>1 DEF ReservationLapses, Settles, Untried, counters
    <3>. QED BY <1>0, <3>2, SettlesKeepsOrder
  <2>3. ASSUME NEW m \in Message, RowFallsDue(m) PROVE OrderInv'
    <3>1. \A k \in Message :
            /\ inbox'[k].status = inbox[k].status
            /\ inbox'[k].seq = inbox[k].seq /\ inbox'[k].tries = inbox[k].tries
      BY <2>3 DEF RowFallsDue, TypeOK, Row
    <3>2. Settles BY <2>3, <3>1 DEF RowFallsDue, Settles, Untried, counters
    <3>. QED BY <1>0, <3>2, SettlesKeepsOrder
  <2>4. ASSUME NEW m \in Message, LeavesRateWindow(m) PROVE OrderInv'
    BY <1>1, <2>4 DEF LeavesRateWindow, counters
  <2>. QED BY <1>9, <2>1, <2>2, <2>3, <2>4 DEF Time
<1>10. CASE UNCHANGED vars BY <1>1, <1>10 DEF vars, counters
<1>. QED BY <1>2, <1>4, <1>6, <1>7, <1>8, <1>9, <1>10 DEF Next

LEMMA OrderInit ==
  ASSUME Init
  PROVE  OrderInv
<1>1. \A m \in Message : /\ admission[m].disp = "none"
                         /\ inbox[m].status = "none" /\ inbox[m].tries = 0
  BY DEF Init, NoAdmission, NoRow
<1>2. Issued /\ Untried BY <1>1 DEF Issued, Untried
<1>3. TicketsUnique BY <1>1 DEF TicketsUnique, OnRoute
<1>4. FifoPerRoute BY <1>1 DEF FifoPerRoute, OnRoute
<1>. QED BY <1>2, <1>3, <1>4, TypeInit DEF OrderInv

LEMMA OrderAlways == Spec => []OrderInv
BY OrderInit, OrderStep, PTL DEF Spec

\* Route sequences never collide, so no accepted message is dropped by the
\* uniqueness of its sequence.
THEOREM SequencesNeverCollide == Spec => []TicketsUnique
BY OrderAlways, PTL DEF OrderInv

\* Messages of a route are handed out in the order they were admitted, whatever
\* lapses, crashes, is redelivered or purged meanwhile.
THEOREM HandedOutInOrder == Spec => []FifoPerRoute
BY OrderAlways, PTL DEF OrderInv
----------------------------------------------------------------------------
(* The life of a row: what one step of anyone may make of it. *)

Waits(r) == r.status \in {"pending", "retry_wait"}

\* A lapsed lease or a reported failure with attempts left.
Requeued(r, n) == r.status = "leased" /\ r.tries < MaxAttempts /\ n = Retried(r)

RowStep(r, n) ==
  \/ n = r
  \/ r.status = "none" /\ n.tries = 0 /\ n.status \in {"pending", "control"}
  \/ r.status \in Terminal /\ n = NoRow
  \/ r.status = "leased" /\ \E status \in Terminal : n = Ended(r, status)
  \/ Requeued(r, n)
  \/ \E w \in Row : (w = r \/ Requeued(r, w)) /\ Waits(w) /\ n = Leased(w)
  \/ r.status \in {"leased", "retry_wait"} /\ n = [r EXCEPT !.due = TRUE]

LEMMA RecoveredRow ==
  ASSUME TypeOK, NEW m \in Message
  PROVE  /\ Recovered[m] \in Row
         /\ \/ Recovered[m] = inbox[m]
            \/ inbox[m].status = "leased" /\ Recovered[m] = Ended(inbox[m], "failed")
            \/ Requeued(inbox[m], Recovered[m])
<1>1. inbox[m] \in Row /\ inbox[m].tries \in Nat BY DEF TypeOK, Row
<1>2. Recovered[m] \in Row BY RecoveredFacts DEF TypeOK
<1>3. CASE ~(inbox[m].status = "leased" /\ inbox[m].due) BY <1>2, <1>3 DEF Recovered
<1>4. CASE inbox[m].status = "leased" /\ inbox[m].due /\ inbox[m].tries >= MaxAttempts
  BY <1>2, <1>4 DEF Recovered
<1>5. CASE inbox[m].status = "leased" /\ inbox[m].due /\ ~(inbox[m].tries >= MaxAttempts)
  BY <1>1, <1>2, <1>5, PipelineConstants DEF Recovered, Requeued
<1>. QED BY <1>3, <1>4, <1>5

LEMMA LeaseRow ==
  ASSUME TypeOK, NEW d, NEW s, Lease(d, s), NEW m \in Message
  PROVE  RowStep(inbox[m], inbox'[m])
<1>1. CASE inbox' = Recovered
  BY <1>1, RecoveredRow DEF RowStep, Terminal
<1>2. ASSUME NEW p \in Message, Waits(Recovered[p]),
             inbox' = [Recovered EXCEPT ![p] = Leased(@)]
      PROVE  RowStep(inbox[m], inbox'[m])
  <2>1. Recovered \in [Message -> Row] BY RecoveredFacts DEF TypeOK
  <2>2. CASE m # p
    <3>1. inbox'[m] = Recovered[m] BY <1>2, <2>1, <2>2
    <3>. QED BY <3>1, RecoveredRow DEF RowStep, Terminal
  <2>3. CASE m = p
    <3>1. inbox'[m] = Leased(Recovered[m]) BY <1>2, <2>1, <2>3
    <3>2. Recovered[m] = inbox[m] \/ Requeued(inbox[m], Recovered[m])
      <4>1. inbox[m] \in Row BY DEF TypeOK
      <4>2. Ended(inbox[m], "failed").status = "failed"
        BY <4>1, EndedType DEF Terminal
      <4>. QED BY <1>2, <2>3, <4>2, RecoveredRow DEF Waits
    <3>3. Recovered[m] \in Row BY <2>1
    <3>. QED BY <1>2, <2>3, <3>1, <3>2, <3>3 DEF RowStep
  <2>. QED BY <2>2, <2>3
<1>. QED BY <1>1, <1>2 DEF Lease, Ready, Waits

LEMMA InsertRow ==
  ASSUME TypeOK, NEW k \in Message, NEW status \in {"pending", "control"},
         Insert(k, status), ~InsertIgnored(k), NEW m \in Message
  PROVE  RowStep(inbox[m], inbox'[m])
<1>1. CASE m # k BY <1>1 DEF Insert, TypeOK, RowStep
<1>2. CASE m = k
  <2>1. inbox[m].status = "none" BY <1>2 DEF InsertIgnored
  <2>2. inbox'[m].tries = 0 /\ inbox'[m].status = status BY <1>2 DEF Insert, TypeOK
  <2>. QED BY <2>1, <2>2 DEF RowStep
<1>. QED BY <1>1, <1>2

LEMMA RowLife ==
  ASSUME TypeOK, [Next]_vars, NEW m \in Message
  PROVE  RowStep(inbox[m], inbox'[m])
<1>1. ASSUME UNCHANGED inbox PROVE RowStep(inbox[m], inbox'[m])
  BY <1>1 DEF RowStep
<1>2. ASSUME NEW d \in Daemon, Life(d) \/ Admin(d) \/ Ingress(d)
      PROVE  RowStep(inbox[m], inbox'[m])
  BY <1>1, <1>2 DEF Life, Start, Renew, Close, Crash, Gone, Admin, Bind, SetPolicy,
                    Ingress, Reserve, RejectReclaim
<1>3. ASSUME NEW d \in Daemon, Extension(d) PROVE RowStep(inbox[m], inbox'[m])
  <2>1. ASSUME NEW k \in Message, Complete(d, k) PROVE RowStep(inbox[m], inbox'[m])
    <3>1. PICK status \in Terminal : inbox' = [inbox EXCEPT ![k] = Ended(@, status)]
      BY <2>1 DEF Complete, Terminal
    <3>. QED BY <2>1, <3>1 DEF Complete, TypeOK, RowStep
  <2>2. ASSUME NEW k \in Message, Retry(d, k) PROVE RowStep(inbox[m], inbox'[m])
    BY <2>2 DEF Retry, TypeOK, RowStep, Requeued
  <2>. QED BY <1>3, <2>1, <2>2, LeaseRow DEF Extension
<1>4. ASSUME NEW d \in Daemon, Cleanup(d) PROVE RowStep(inbox[m], inbox'[m])
  <2>1. inbox'[m] = inbox[m] \/ (inbox'[m] = NoRow /\ m \in Purgeable)
    BY <1>4 DEF Cleanup
  <2>. QED BY <2>1 DEF Purgeable, RowStep
<1>5. CASE Resume
  <2>1. PICK t \in tasks : \/ Finalize(t) \/ FinalizeControl(t)
                           \/ FailMaterialization(t) \/ Superseded(t)
    BY <1>5 DEF Resume
  <2>2. t.msg \in Message BY <2>1 DEF TypeOK, Task
  <2>3. CASE FailMaterialization(t) \/ Superseded(t)
    BY <1>1, <2>3 DEF FailMaterialization, Superseded
  <2>4. CASE Finalize(t) BY <1>1, <2>2, <2>4, InsertRow DEF Finalize
  <2>5. CASE FinalizeControl(t) BY <2>2, <2>5, InsertRow DEF FinalizeControl
  <2>. QED BY <2>1, <2>3, <2>4, <2>5
<1>6. CASE Time
  <2>1. ASSUME NEW k \in Message, RowFallsDue(k) PROVE RowStep(inbox[m], inbox'[m])
    BY <2>1 DEF RowFallsDue, TypeOK, RowStep
  <2>. QED BY <1>1, <1>6, <2>1 DEF Time, OwnershipLapses, ReservationLapses, LeavesRateWindow
<1>7. CASE UNCHANGED vars BY <1>1, <1>7 DEF vars
<1>. QED BY <1>2, <1>3, <1>4, <1>5, <1>6, <1>7 DEF Next
----------------------------------------------------------------------------
(* Attempts.  A row that waits to be handed out has an attempt left. *)

InBudget(r) ==
  /\ r.tries <= MaxAttempts
  /\ Waits(r) => r.tries < MaxAttempts

BudgetInv == TypeOK /\ \A m \in Message : InBudget(inbox[m])

LEMMA RowKeepsBudget ==
  ASSUME NEW r \in Row, NEW n, InBudget(r), RowStep(r, n)
  PROVE  InBudget(n)
<1>1. r.tries \in Nat /\ MaxAttempts \in Nat \ {0}
  BY PipelineConstants DEF Row
<1>2. CASE n = r BY <1>2
<1>3. CASE r.status = "none" /\ n.tries = 0 /\ n.status \in {"pending", "control"}
  BY <1>1, <1>3 DEF InBudget
<1>4. CASE r.status \in Terminal /\ n = NoRow
  BY <1>1, <1>4 DEF InBudget, NoRow, Waits
<1>5. ASSUME NEW status \in Terminal, n = Ended(r, status) PROVE InBudget(n)
  BY <1>1, <1>5, EndedType DEF InBudget, Waits, Terminal
<1>6. ASSUME NEW w, Requeued(r, w) PROVE InBudget(w) /\ w.tries = r.tries
  BY <1>1, <1>6, RetriedType DEF InBudget, Requeued
<1>7. ASSUME NEW w \in Row, w = r \/ Requeued(r, w), Waits(w), n = Leased(w)
      PROVE  InBudget(n)
  <2>1. w.tries \in Nat /\ w.tries < MaxAttempts BY <1>6, <1>7 DEF InBudget, Row
  <2>2. n.tries = w.tries + 1 /\ n.status = "leased" BY <1>7, LeasedType
  <2>. QED BY <1>1, <2>1, <2>2 DEF InBudget, Waits
<1>8. CASE r.status \in {"leased", "retry_wait"} /\ n = [r EXCEPT !.due = TRUE]
  <2>1. n.tries = r.tries /\ n.status = r.status BY <1>8 DEF Row
  <2>. QED BY <2>1 DEF InBudget, Waits
<1>. QED BY <1>2, <1>3, <1>4, <1>5, <1>6, <1>7, <1>8 DEF RowStep

LEMMA BudgetInit ==
  ASSUME Init
  PROVE  BudgetInv
<1>1. \A m \in Message : InBudget(inbox[m])
  BY PipelineConstants DEF Init, NoRow, InBudget, Waits
<1>. QED BY <1>1, TypeInit DEF BudgetInv

LEMMA BudgetStep ==
  ASSUME BudgetInv, [Next]_vars
  PROVE  BudgetInv'
<1>1. ASSUME NEW m \in Message PROVE InBudget(inbox'[m])
  BY RowLife, RowKeepsBudget DEF BudgetInv, TypeOK
<1>. QED BY <1>1, TypeStep DEF BudgetInv, InBudget, Waits

\* Over lapsed leases, reported failures, rebinding and restarts together, no
\* message is handed out more than maxAttempts times (leaseInbound,
\* #recoverExpiredLeases, completeInbound).
THEOREM AttemptsBounded == Spec => []LeaseBudget
<1>1. BudgetInv => LeaseBudget BY DEF BudgetInv, InBudget, LeaseBudget
<1>. QED BY <1>1, BudgetInit, BudgetStep, PTL DEF Spec
----------------------------------------------------------------------------
(* What no step does. *)

\* A row is purged only after it has ended, and a redelivery never replaces it:
\* INSERT OR IGNORE and the purge of cleanup both leave an outstanding row alone.
THEOREM AcceptedKept == Spec => AcceptedOnce
<1>1. ASSUME TypeOK, [Next]_vars, NEW m \in Message, inbox[m].status \in Outstanding
      PROVE  inbox'[m].status # "none" /\ inbox'[m].id = inbox[m].id
  <2>1. RowStep(inbox[m], inbox'[m]) /\ inbox[m] \in Row
    BY <1>1, RowLife DEF TypeOK
  <2>2. inbox[m].status # "none" /\ inbox[m].status \notin Terminal
    BY <1>1 DEF Outstanding, Terminal
  <2>3. ASSUME NEW status \in Terminal, inbox'[m] = Ended(inbox[m], status)
        PROVE  inbox'[m].status # "none" /\ inbox'[m].id = inbox[m].id
    BY <2>1, <2>3, EndedType DEF Terminal
  <2>4. ASSUME NEW w, Requeued(inbox[m], w)
        PROVE  w.status # "none" /\ w.id = inbox[m].id
    BY <2>1, <2>4, RetriedType DEF Requeued
  <2>5. ASSUME NEW w \in Row, w = inbox[m] \/ Requeued(inbox[m], w), inbox'[m] = Leased(w)
        PROVE  inbox'[m].status # "none" /\ inbox'[m].id = inbox[m].id
    BY <2>4, <2>5, LeasedType
  <2>6. CASE inbox'[m] = [inbox[m] EXCEPT !.due = TRUE]
    BY <2>1, <2>2, <2>6 DEF Row
  <2>. QED BY <2>1, <2>2, <2>3, <2>4, <2>5, <2>6 DEF RowStep
<1>2. TypeOK /\ [Next]_vars =>
        [\A m \in Message :
           inbox[m].status \in Outstanding =>
             inbox'[m].status # "none" /\ inbox'[m].id = inbox[m].id]_vars
  BY <1>1
<1>. QED BY <1>2, TypeCorrect, PTL DEF Spec, AcceptedOnce

\* Ownership goes only to a process that was just started, and is only taken from
\* one that let it lapse or that ended (#assertOwnershipAvailable, renewOwnership,
\* close).
THEOREM OwnershipHandedOver == Spec => OwnershipHandover
<1>1. ASSUME TypeOK, [Next]_vars, NEW d \in Daemon
      PROVE  /\ owner # d /\ owner' = d => process[d] = "unborn"
             /\ owner = d /\ owner' # d => ownerDue \/ process'[d] # "running"
  <2>1. ASSUME owner' = owner PROVE ~(owner # d /\ owner' = d) /\ ~(owner = d /\ owner' # d)
    BY <2>1
  <2>2. ASSUME NEW e \in Daemon, Start(e)
        PROVE  /\ owner # d /\ owner' = d => process[d] = "unborn"
               /\ owner = d /\ owner' # d => ownerDue
    BY <2>2, PipelineConstants DEF Start
  <2>3. ASSUME NEW e \in Daemon, Close(e)
        PROVE  /\ ~(owner # d /\ owner' = d)
               /\ owner = d /\ owner' # d => process'[d] # "running"
    BY <1>1, <2>3, PipelineConstants DEF Close, Gone, TypeOK
  <2>4. ASSUME NEW e \in Daemon,
               Renew(e) \/ Crash(e) \/ Admin(e) \/ Ingress(e) \/ Extension(e) \/ Cleanup(e)
        PROVE  owner' = owner
    BY <2>4 DEF Renew, Crash, Admin, Bind, SetPolicy, Ingress, Reserve, RejectReclaim,
                Extension, Lease, Complete, Retry, Cleanup, ownership
  <2>5. CASE Resume
    BY <2>1, <2>5 DEF Resume, Finalize, FinalizeControl, FailMaterialization, Superseded,
                Finish, ownership
  <2>6. CASE Time
    BY <2>1, <2>6 DEF Time, OwnershipLapses, ReservationLapses, RowFallsDue,
                LeavesRateWindow, ownership
  <2>7. CASE UNCHANGED vars BY <2>1, <2>7 DEF vars, ownership
  <2>. QED BY <1>1, <2>1, <2>2, <2>3, <2>4, <2>5, <2>6, <2>7 DEF Next, Life
<1>2. TypeOK /\ [Next]_vars =>
        [\A d \in Daemon :
           /\ owner # d /\ owner' = d => process[d] = "unborn"
           /\ owner = d /\ owner' # d => ownerDue \/ process'[d] # "running"]_vars
  BY <1>1
<1>. QED BY <1>2, TypeCorrect, PTL DEF Spec, OwnershipHandover

\* The daemons of the pipeline, taken alone, are what DatabaseOwnership describes:
\* every other step leaves the row and the processes as they are.
LEMMA OwnershipStep ==
  ASSUME TypeOK, [Next]_vars
  PROVE  [Ownership!Next]_(Ownership!vars)
<1>. DEFINE fresh == {d \in Daemon : process[d] = "unborn"}
            over  == {d \in Daemon : process[d] = "gone"}
<1>1. CASE UNCHANGED ownership
  BY <1>1 DEF ownership, Ownership!vars
<1>2. ASSUME NEW d \in Daemon, Start(d) PROVE Ownership!Take(d)
  <2>1. d \in fresh \ over /\ over' = over /\ fresh' = fresh \ {d}
    BY <1>2 DEF Start, TypeOK
  <2>. QED BY <1>2, <2>1 DEF Start, Ownership!Take
<1>3. ASSUME NEW d \in Daemon, Renew(d) PROVE Ownership!Renew
  BY <1>3, PipelineConstants DEF Renew, Ownership!Renew
<1>4. ASSUME NEW d \in Daemon, Gone(d)
      PROVE  d \notin over /\ over' = over \cup {d} /\ fresh' = fresh \ {d}
  BY <1>4 DEF Gone, TypeOK
<1>5. ASSUME NEW d \in Daemon, Close(d) \/ Crash(d) PROVE Ownership!End(d)
  <2>1. Gone(d) BY <1>5 DEF Close, Crash
  <2>2. \/ owner = d /\ owner' = None /\ ownerDue' = FALSE
        \/ UNCHANGED <<owner, ownerDue>>
    BY <1>5 DEF Close, Crash
  <2>. QED BY <1>4, <2>1, <2>2 DEF Ownership!End
<1>6. CASE OwnershipLapses
  BY <1>6 DEF OwnershipLapses, Ownership!Lapse, Ownership!Next
<1>7. ASSUME NEW d \in Daemon, Admin(d) \/ Ingress(d) \/ Extension(d) \/ Cleanup(d)
      PROVE  UNCHANGED ownership
  BY <1>7 DEF Admin, Bind, SetPolicy, Ingress, Reserve, RejectReclaim, Extension, Lease,
              Complete, Retry, Cleanup
<1>8. CASE Resume
  BY <1>1, <1>8 DEF Resume, Finalize, FinalizeControl, FailMaterialization, Superseded, Finish
<1>9. CASE \E m \in Message : ReservationLapses(m) \/ RowFallsDue(m) \/ LeavesRateWindow(m)
  BY <1>1, <1>9 DEF ReservationLapses, RowFallsDue, LeavesRateWindow
<1>10. CASE UNCHANGED vars
  BY <1>1, <1>10 DEF vars
<1>. QED
  BY <1>1, <1>2, <1>3, <1>5, <1>6, <1>7, <1>8, <1>9, <1>10
     DEF Next, Life, Time, Ownership!Next

\* The pipeline's processes implement the abstract ownership of the database, for
\* any number of them (the store's constructor, renewOwnership, close).
THEOREM PipelineImplementsOwnership == Spec => ImplementsOwnership
<1>1. Init => Ownership!Init BY DEF Init, Ownership!Init
<1>2. TypeOK /\ [Next]_vars => [Ownership!Next]_(Ownership!vars) BY OwnershipStep
<1>. QED BY <1>1, <1>2, TypeCorrect, PTL DEF Spec, ImplementsOwnership, Ownership!Spec
----------------------------------------------------------------------------
(* Rate.  A reclaim replaces the event of its own message. *)

RateInv == IsFiniteSet(rated) /\ WithinRate

LEMMA RateShrinks ==
  ASSUME RateInv, rated' \subseteq rated
  PROVE  RateInv'
<1>1. IsFiniteSet(rated') BY FS_Subset DEF RateInv
<1>2. ASSUME NEW r \in Route
      PROVE  Cardinality({m \in rated' : SenderOf[m[1]] = SenderOf[r]}) <= RateLimit
  <2>. DEFINE T == {m \in rated' : SenderOf[m[1]] = SenderOf[r]}
              U == {m \in rated : SenderOf[m[1]] = SenderOf[r]}
  <2>1. T \subseteq U OBVIOUS
  <2>2. IsFiniteSet(U) BY FS_Subset DEF RateInv
  <2>3. Cardinality(U) \in Nat /\ Cardinality(T) \in Nat /\ Cardinality(T) <= Cardinality(U)
    <3>1. IsFiniteSet(T) /\ Cardinality(T) <= Cardinality(U) BY <2>1, <2>2, FS_Subset
    <3>. QED BY <2>2, <3>1, FS_CardinalityType
  <2>4. Cardinality(U) <= RateLimit BY DEF RateInv, WithinRate
  <2>. HIDE DEF T, U
  <2>5. Cardinality(T) <= RateLimit BY <2>3, <2>4, PipelineConstants
  <2>. QED BY <2>5 DEF T
<1>. QED BY <1>1, <1>2 DEF RateInv, WithinRate

LEMMA ReserveKeepsRate ==
  ASSUME RateInv, NEW d, NEW m \in Message, Reserve(d, m)
  PROVE  RateInv'
<1>1. rated' = (rated \ {m}) \cup {m} BY DEF Reserve
<1>2. IsFiniteSet(rated \ {m}) BY FS_Subset DEF RateInv
<1>3. IsFiniteSet(rated') BY <1>1, <1>2, FS_AddElement
<1>4. ASSUME NEW r \in Route
      PROVE  Cardinality({k \in rated' : SenderOf[k[1]] = SenderOf[r]}) <= RateLimit
  <2>1. CASE SenderOf[m[1]] # SenderOf[r]
    <3>. DEFINE T == {k \in rated' : SenderOf[k[1]] = SenderOf[r]}
                U == {k \in rated : SenderOf[k[1]] = SenderOf[r]}
    <3>1. T = U BY <1>1, <2>1
    <3>2. Cardinality(U) <= RateLimit BY DEF RateInv, WithinRate
    <3>. QED BY <3>1, <3>2
  <2>2. CASE SenderOf[m[1]] = SenderOf[r]
    <3>. DEFINE T == {k \in rated' : SenderOf[k[1]] = SenderOf[r]}
                U == {k \in rated \ {m} : SenderOf[k[1]] = SenderOf[m[1]]}
    <3>1. T = U \cup {m} BY <1>1, <2>2
    <3>2. IsFiniteSet(U) BY <1>2, FS_Subset
    <3>3. m \notin U OBVIOUS
    <3>4. ~(Cardinality(U) >= RateLimit) BY DEF Reserve, Refused, RateExceeded
    <3>. HIDE DEF T, U
    <3>5. Cardinality(U) \in Nat /\ Cardinality(T) = Cardinality(U) + 1
      BY <3>1, <3>2, <3>3, FS_CardinalityType, FS_AddElement
    <3>6. Cardinality(T) <= RateLimit BY <3>4, <3>5, PipelineConstants
    <3>. QED BY <3>6 DEF T
  <2>. QED BY <2>1, <2>2
<1>. QED BY <1>3, <1>4 DEF RateInv, WithinRate

LEMMA RatedStep ==
  ASSUME [Next]_vars, ~\E d \in Daemon, m \in Message : Reserve(d, m)
  PROVE  rated' \subseteq rated
BY DEF Next, vars, Life, Start, Renew, Close, Crash, Gone, Ingress, RejectReclaim, Extension,
       Lease, Complete, Retry, Admin, Bind, SetPolicy, Cleanup, Resume, Finalize,
       FinalizeControl, FailMaterialization, Superseded, Finish, Time, OwnershipLapses,
       ReservationLapses, RowFallsDue, LeavesRateWindow

\* No sender has more than its limit of admitted messages in the window, over all
\* its routes and through redelivery and reclaims (reserveInbound).
THEOREM RateBounded == Spec => []WithinRate
<1>1. Init => RateInv
  <2>. SUFFICES ASSUME Init PROVE RateInv OBVIOUS
  <2>1. rated = {} BY DEF Init
  <2>2. ASSUME NEW r \in Route
        PROVE  Cardinality({m \in rated : SenderOf[m[1]] = SenderOf[r]}) <= RateLimit
    <3>1. {m \in rated : SenderOf[m[1]] = SenderOf[r]} = {} BY <2>1
    <3>2. Cardinality({m \in rated : SenderOf[m[1]] = SenderOf[r]}) = 0
      BY <3>1, FS_EmptySet
    <3>. QED BY <3>2, PipelineConstants
  <2>. QED BY <2>1, <2>2, FS_EmptySet DEF RateInv, WithinRate
<1>2. RateInv /\ [Next]_vars => RateInv'
  BY RatedStep, RateShrinks, ReserveKeepsRate
<1>3. RateInv => WithinRate BY DEF RateInv
<1>. QED BY <1>1, <1>2, <1>3, PTL DEF Spec
----------------------------------------------------------------------------
(* Capacity.  A reservation counts until its row replaces it. *)

PendingOf(M) == {k \in M : inbox[k].status \in Outstanding}
LiveOf(M) == {k \in M : LiveReservation(k)}

Fits(P, L, n) ==
  IsFiniteSet(P) /\ IsFiniteSet(L) /\ Cardinality(P) + Cardinality(L) <= n

CapacityInv ==
  /\ Fits(PendingOf(Message), LiveOf(Message), MaxPendingGlobal)
  /\ \A r \in Route : Fits(PendingOf(OnRoute(r)), LiveOf(OnRoute(r)), MaxPendingPerRoute)

LEMMA FitsLess ==
  ASSUME NEW P, NEW L, NEW n \in Nat, Fits(P, L, n), NEW Q \in SUBSET P, NEW K \in SUBSET L
  PROVE  Fits(Q, K, n)
<1>1. IsFiniteSet(Q) /\ Cardinality(Q) <= Cardinality(P) BY FS_Subset DEF Fits
<1>2. IsFiniteSet(K) /\ Cardinality(K) <= Cardinality(L) BY FS_Subset DEF Fits
<1>3. /\ Cardinality(P) \in Nat /\ Cardinality(L) \in Nat
      /\ Cardinality(Q) \in Nat /\ Cardinality(K) \in Nat
  BY <1>1, <1>2, FS_CardinalityType DEF Fits
<1>. QED BY <1>1, <1>2, <1>3 DEF Fits

LEMMA FitsOneMore ==
  ASSUME NEW P, NEW L, NEW m, NEW n \in Nat, IsFiniteSet(P), IsFiniteSet(L), m \notin L,
         ~(Cardinality(P) + Cardinality(L) >= n)
  PROVE  Fits(P, L \cup {m}, n)
<1>1. /\ IsFiniteSet(L \cup {m}) /\ Cardinality(L \cup {m}) = Cardinality(L) + 1
  BY FS_AddElement
<1>2. Cardinality(P) \in Nat /\ Cardinality(L) \in Nat BY FS_CardinalityType
<1>. QED BY <1>1, <1>2 DEF Fits

LEMMA FitsMoved ==
  ASSUME NEW P, NEW L, NEW m \in L, NEW n \in Nat, Fits(P, L, n), m \notin P
  PROVE  Fits(P \cup {m}, L \ {m}, n)
<1>1. IsFiniteSet(P \cup {m}) /\ Cardinality(P \cup {m}) = Cardinality(P) + 1
  BY FS_AddElement DEF Fits
<1>2. IsFiniteSet(L \ {m}) /\ Cardinality(L \ {m}) = Cardinality(L) - 1
  BY FS_RemoveElement DEF Fits
<1>3. Cardinality(P) \in Nat /\ Cardinality(L) \in Nat
  BY FS_CardinalityType DEF Fits
<1>. QED BY <1>1, <1>2, <1>3 DEF Fits

\* A step that starts no reservation and inserts no outstanding row.
Frees ==
  /\ \A m \in Message : inbox'[m].status \in Outstanding => inbox[m].status \in Outstanding
  /\ \A m \in Message : LiveReservation(m)' => LiveReservation(m)

LEMMA FreesCapacity ==
  ASSUME CapacityInv, Frees
  PROVE  CapacityInv'
<1>1. ASSUME NEW M \in SUBSET Message, NEW n \in Nat, Fits(PendingOf(M), LiveOf(M), n)
      PROVE  Fits(PendingOf(M)', LiveOf(M)', n)
  <2>1. PendingOf(M)' \subseteq PendingOf(M) BY DEF Frees, PendingOf
  <2>2. LiveOf(M)' \subseteq LiveOf(M) BY DEF Frees, LiveOf
  <2>. QED BY <1>1, <2>1, <2>2, FitsLess
<1>2. MaxPendingGlobal \in Nat /\ MaxPendingPerRoute \in Nat BY PipelineConstants
<1>3. \A r \in Route : OnRoute(r) \in SUBSET Message BY DEF OnRoute
<1>. QED BY <1>1, <1>2, <1>3 DEF CapacityInv

LEMMA ReserveKeepsCapacity ==
  ASSUME CapacityInv, TypeOK, NEW d, NEW m \in Message, Reserve(d, m)
  PROVE  CapacityInv'
<1>1. inbox' = inbox /\ \A k \in Message : k # m => admission'[k] = admission[k]
  BY DEF Reserve, TypeOK
<1>2. admission'[m].disp = "reserved" /\ ~admission'[m].due
  BY DEF Reserve, TypeOK
<1>3. ASSUME NEW M \in SUBSET Message, NEW n \in Nat, m \in M,
             Fits(PendingOf(M), LiveOf(M), n), ~(PendingCount(M, m) >= n)
      PROVE  Fits(PendingOf(M)', LiveOf(M)', n)
  <2>1. PendingOf(M)' = PendingOf(M) BY <1>1 DEF PendingOf
  <2>2. LiveOf(M)' = (LiveOf(M) \ {m}) \cup {m}
    BY <1>1, <1>2, <1>3 DEF LiveOf, LiveReservation
  <2>3. {k \in M \ {m} : LiveReservation(k)} = LiveOf(M) \ {m} BY DEF LiveOf
  <2>4. ~(Cardinality(PendingOf(M)) + Cardinality(LiveOf(M) \ {m}) >= n)
    BY <1>3, <2>3 DEF PendingCount, PendingOf
  <2>5. IsFiniteSet(PendingOf(M)) /\ IsFiniteSet(LiveOf(M) \ {m})
    BY <1>3, FS_Subset DEF Fits
  <2>6. m \notin LiveOf(M) \ {m} OBVIOUS
  <2>7. Fits(PendingOf(M), (LiveOf(M) \ {m}) \cup {m}, n)
    BY <2>4, <2>5, <2>6, FitsOneMore
  <2>. QED BY <2>1, <2>2, <2>7
<1>4. ASSUME NEW M \in SUBSET Message, m \notin M
      PROVE  PendingOf(M)' = PendingOf(M) /\ LiveOf(M)' = LiveOf(M)
  BY <1>1, <1>4 DEF PendingOf, LiveOf, LiveReservation
<1>5. ~AtCapacity(m) BY DEF Reserve, Refused
<1>6. Fits(PendingOf(Message)', LiveOf(Message)', MaxPendingGlobal)
  BY <1>3, <1>5, PipelineConstants DEF AtCapacity, CapacityInv
<1>7. ASSUME NEW r \in Route
      PROVE  Fits(PendingOf(OnRoute(r))', LiveOf(OnRoute(r))', MaxPendingPerRoute)
  <2>1. OnRoute(r) \in SUBSET Message BY DEF OnRoute
  <2>2. CASE m \in OnRoute(r)
    <3>1. m[1] = r BY <2>2 DEF OnRoute
    <3>. QED BY <1>3, <1>5, <2>1, <2>2, <3>1, PipelineConstants DEF AtCapacity, CapacityInv
  <2>3. CASE m \notin OnRoute(r) BY <1>4, <2>1, <2>3 DEF CapacityInv
  <2>. QED BY <2>2, <2>3
<1>. QED BY <1>6, <1>7 DEF CapacityInv, OnRoute

LEMMA InsertKeepsCapacity ==
  ASSUME CapacityInv, TypeOK, NEW t \in tasks, NEW disp \in Disposition, disp # "reserved",
         NEW status \in {"pending", "control"},
         Valid(t), ~InsertIgnored(t.msg), Finish(t, disp), Insert(t.msg, status)
  PROVE  CapacityInv'
<1>. DEFINE m == t.msg
<1>0. m \in Message BY DEF TypeOK, Task
<1>1. \A k \in Message : k # m => admission'[k] = admission[k] /\ inbox'[k] = inbox[k]
  BY <1>0 DEF Finish, Insert, TypeOK
<1>2. /\ LiveReservation(m) /\ inbox[m].status = "none" /\ admission'[m].disp # "reserved"
  <2>1. Settled(admission[m], disp).disp = disp BY <1>0, SettledType DEF TypeOK
  <2>. QED BY <1>0, <2>1 DEF Valid, InsertIgnored, Finish, TypeOK
<1>3. ASSUME NEW M \in SUBSET Message, NEW n \in Nat, Fits(PendingOf(M), LiveOf(M), n)
      PROVE  Fits(PendingOf(M)', LiveOf(M)', n)
  <2>1. CASE m \notin M
    <3>1. PendingOf(M)' = PendingOf(M) /\ LiveOf(M)' = LiveOf(M)
      BY <1>1, <2>1 DEF PendingOf, LiveOf, LiveReservation
    <3>. QED BY <1>3, <3>1
  <2>2. CASE m \in M
    <3>1. m \in LiveOf(M) /\ m \notin PendingOf(M)
      BY <1>2, <2>2 DEF LiveOf, PendingOf, Outstanding
    <3>2. LiveOf(M)' = LiveOf(M) \ {m}
      BY <1>1, <1>2 DEF LiveOf, LiveReservation
    <3>3. PendingOf(M)' \subseteq PendingOf(M) \cup {m} BY <1>1 DEF PendingOf
    <3>4. Fits(PendingOf(M) \cup {m}, LiveOf(M) \ {m}, n) BY <1>3, <3>1, FitsMoved
    <3>. QED BY <3>2, <3>3, <3>4, FitsLess
  <2>. QED BY <2>1, <2>2
<1>4. MaxPendingGlobal \in Nat /\ MaxPendingPerRoute \in Nat BY PipelineConstants
<1>5. \A r \in Route : OnRoute(r) \in SUBSET Message BY DEF OnRoute
<1>. QED BY <1>3, <1>4, <1>5 DEF CapacityInv

LEMMA CapacityStep ==
  ASSUME CapacityInv, TypeOK, [Next]_vars
  PROVE  CapacityInv'
<1>1. ASSUME UNCHANGED <<admission, inbox>> PROVE CapacityInv'
  BY <1>1, FreesCapacity DEF Frees, LiveReservation
<1>2. ASSUME NEW d \in Daemon, Life(d) \/ Admin(d) PROVE CapacityInv'
  BY <1>1, <1>2 DEF Life, Start, Renew, Close, Crash, Gone, Admin, Bind, SetPolicy
<1>3. ASSUME NEW m \in Message, NEW disp \in Disposition, disp # "reserved",
             admission' = [admission EXCEPT ![m] = Settled(@, disp)], UNCHANGED inbox
      PROVE  CapacityInv'
  <2>1. Settled(admission[m], disp).disp = disp BY SettledType DEF TypeOK
  <2>2. Frees BY <1>3, <2>1 DEF Frees, LiveReservation, TypeOK
  <2>. QED BY <2>2, FreesCapacity
<1>4. ASSUME NEW d \in Daemon, Ingress(d) PROVE CapacityInv'
  <2>1. ASSUME NEW m \in Message, RejectReclaim(d, m) PROVE CapacityInv'
    BY <1>3, <2>1 DEF RejectReclaim, Disposition
  <2>. QED BY <1>4, <2>1, ReserveKeepsCapacity DEF Ingress
<1>5. ASSUME NEW d \in Daemon, Extension(d) PROVE CapacityInv'
  <2>1. ASSUME NEW s \in Session, Lease(d, s) PROVE CapacityInv'
    <3>1. PICK E \in BarrierBatches : /\ admission' = Lifted(E)
                                     /\ \/ inbox' = Recovered
                                        \/ \E p \in Ready(Lifted(E), Recovered, s) :
                                             inbox' = [Recovered EXCEPT ![p] = Leased(@)]
      BY <2>1 DEF Lease
    <3>2. \A m \in Message : LiveReservation(m)' => LiveReservation(m)
      <4>. SUFFICES ASSUME NEW m \in Message, LiveReservation(m)' PROVE LiveReservation(m)
        OBVIOUS
      <4>1. CASE m \in E
        <5>1. Settled(admission[m], "materialization_failed").disp = "materialization_failed"
          BY SettledType DEF TypeOK, Disposition
        <5>. QED BY <3>1, <4>1, <5>1 DEF Lifted, LiveReservation
      <4>2. CASE m \notin E BY <3>1, <4>2 DEF Lifted, LiveReservation
      <4>. QED BY <4>1, <4>2
    <3>3. \A m \in Message : inbox'[m].status \in Outstanding => inbox[m].status \in Outstanding
      BY <3>1, RecoveredFacts DEF TypeOK, Ready, Outstanding
    <3>. QED BY <3>2, <3>3, FreesCapacity DEF Frees
  <2>2. ASSUME NEW m \in Message, Complete(d, m) \/ Retry(d, m) PROVE CapacityInv'
    <3>1. Frees
      BY <2>2 DEF Frees, Complete, Retry, Outstanding, LiveReservation, TypeOK
    <3>. QED BY <3>1, FreesCapacity
  <2>. QED BY <1>5, <2>1, <2>2 DEF Extension
<1>6. ASSUME NEW d \in Daemon, Cleanup(d) PROVE CapacityInv'
  <2>1. PICK E \in BarrierBatches, R \in SUBSET Purgeable,
             S \in SUBSET {m \in Message : admission[m].disp \notin {"none", "reserved"}} :
          /\ inbox' = [m \in Message |-> IF m \in R THEN NoRow ELSE inbox[m]]
          /\ admission' = [m \in Message |-> IF m \in S THEN NoAdmission ELSE Lifted(E)[m]]
    BY <1>6 DEF Cleanup
  <2>2. ASSUME NEW m \in Message, LiveReservation(m)' PROVE LiveReservation(m)
    <3>1. m \notin S BY <2>1, <2>2 DEF LiveReservation, NoAdmission
    <3>2. CASE m \in E
      <4>1. Settled(admission[m], "materialization_failed").disp = "materialization_failed"
        BY SettledType DEF TypeOK, Disposition
      <4>. QED BY <2>1, <2>2, <3>1, <3>2, <4>1 DEF Lifted, LiveReservation
    <3>3. CASE m \notin E BY <2>1, <2>2, <3>1, <3>3 DEF Lifted, LiveReservation
    <3>. QED BY <3>2, <3>3
  <2>3. \A m \in Message : inbox'[m].status \in Outstanding => inbox[m].status \in Outstanding
    BY <2>1 DEF NoRow, Outstanding
  <2>. QED BY <2>2, <2>3, FreesCapacity DEF Frees
<1>7. CASE Resume
  <2>0. PICK t \in tasks : \/ Finalize(t) \/ FinalizeControl(t)
                           \/ FailMaterialization(t) \/ Superseded(t)
    BY <1>7 DEF Resume
  <2>1. t.msg \in Message BY <2>0 DEF TypeOK, Task
  <2>2. ASSUME Finish(t, "materialization_failed"), UNCHANGED inbox PROVE CapacityInv'
    BY <1>3, <2>1, <2>2 DEF Finish, Disposition
  <2>3. CASE Finalize(t)
    BY <2>0, <2>2, <2>3, InsertKeepsCapacity DEF Finalize, Disposition
  <2>4. CASE FinalizeControl(t)
    BY <2>0, <2>4, InsertKeepsCapacity DEF FinalizeControl, Disposition
  <2>5. CASE FailMaterialization(t) BY <2>2, <2>5 DEF FailMaterialization
  <2>6. CASE Superseded(t) BY <1>1, <2>6 DEF Superseded
  <2>. QED BY <2>0, <2>3, <2>4, <2>5, <2>6
<1>8. CASE Time
  <2>1. CASE OwnershipLapses BY <1>1, <2>1 DEF OwnershipLapses
  <2>2. ASSUME NEW m \in Message, ReservationLapses(m) PROVE CapacityInv'
    <3>1. Frees BY <2>2 DEF ReservationLapses, Frees, LiveReservation, TypeOK
    <3>. QED BY <3>1, FreesCapacity
  <2>3. ASSUME NEW m \in Message, RowFallsDue(m) PROVE CapacityInv'
    <3>1. \A k \in Message : inbox'[k].status = inbox[k].status
      BY <2>3 DEF RowFallsDue, TypeOK, Row
    <3>2. Frees BY <2>3, <3>1 DEF RowFallsDue, Frees, LiveReservation
    <3>. QED BY <3>2, FreesCapacity
  <2>4. ASSUME NEW m \in Message, LeavesRateWindow(m) PROVE CapacityInv'
    BY <1>1, <2>4 DEF LeavesRateWindow
  <2>. QED BY <1>8, <2>1, <2>2, <2>3, <2>4 DEF Time
<1>9. CASE UNCHANGED vars BY <1>1, <1>9 DEF vars
<1>. QED BY <1>2, <1>4, <1>5, <1>6, <1>7, <1>8, <1>9 DEF Next

\* Outstanding rows and reservations under way never exceed the gateway's or a
\* route's capacity, though a row is inserted only after an await
\* (reserveInbound, finalizeInbound, #pendingCount).
THEOREM CapacityBounded == Spec => []WithinCapacity
<1>1. Init => CapacityInv
  <2>. SUFFICES ASSUME Init PROVE CapacityInv OBVIOUS
  <2>1. ASSUME NEW M \in SUBSET Message, NEW n \in Nat
        PROVE  Fits(PendingOf(M), LiveOf(M), n)
    <3>1. PendingOf(M) = {} /\ LiveOf(M) = {}
      BY DEF Init, PendingOf, LiveOf, LiveReservation, NoRow, NoAdmission, Outstanding
    <3>. QED BY <3>1, FS_EmptySet DEF Fits
  <2>. QED BY <2>1, PipelineConstants DEF CapacityInv, OnRoute
<1>2. TypeOK /\ TypeOK' /\ CapacityInv /\ [Next]_vars => CapacityInv'
  BY CapacityStep
<1>3. CapacityInv => WithinCapacity
  BY DEF CapacityInv, Fits, PendingOf, LiveOf, WithinCapacity
<1>. QED BY <1>1, <1>2, <1>3, TypeCorrect, PTL DEF Spec
----------------------------------------------------------------------------
(* The pipeline implements the ticket queue: the initial state maps to the *)
(* initial state, and every step to a step or a stutter.                   *)

\* A step that issues no sequence, inserts no outstanding row, and serves the
\* messages of P, which are first on their routes.
Moves(P) ==
  /\ nextSeq' = nextSeq
  /\ \A m \in Message :
       admission'[m].disp = "reserved" =>
         admission[m].disp = "reserved" /\ admission'[m].seq = admission[m].seq
  /\ \A m \in Message :
       inbox'[m].status \in Outstanding =>
         inbox[m].status \in Outstanding /\ inbox'[m].seq = inbox[m].seq
  /\ \A m \in Message \ P :
       /\ Waits(inbox[m]) => Waits(inbox'[m])
       /\ inbox'[m].status = "leased" => inbox[m].status = "leased"
  /\ \A p \in P :
       /\ p \in Message /\ Waits(inbox[p]) /\ inbox'[p].status = "leased"
       /\ FirstOnRoute(admission', inbox', p)

LEMMA TicketSets ==
  /\ \A t : t \in HeldTickets <=>
       \E m \in Message : admission[m].disp = "reserved" /\ t = <<m[1], admission[m].seq>>
  /\ \A t : t \in WaitingTickets <=>
       \E m \in Message : Waits(inbox[m]) /\ t = <<m[1], inbox[m].seq>>
  /\ \A t : t \in ServingTickets <=>
       \E m \in Message : inbox[m].status = "leased" /\ t = <<m[1], inbox[m].seq>>
BY DEF HeldTickets, WaitingTickets, ServingTickets, Waits

\* No two rows have the same place, and none has a reservation's.
LEMMA PlacesDiffer ==
  ASSUME TypeOK, TicketsUnique, NEW m \in Message, NEW k \in Message, m[1] = k[1]
  PROVE  /\ inbox[m].status # "none" /\ inbox[k].status # "none"
              /\ inbox[m].seq = inbox[k].seq => m = k
         /\ admission[m].disp = "reserved" /\ admission[k].disp = "reserved"
              /\ admission[m].seq = admission[k].seq => m = k
<1>1. m[1] \in Route /\ m \in OnRoute(m[1]) /\ k \in OnRoute(m[1]) BY DEF Message, OnRoute
<1>. QED BY <1>1 DEF TicketsUnique

LEMMA HeldMove ==
  ASSUME NEW P, Moves(P)
  PROVE  HeldTickets' \subseteq HeldTickets
BY TicketSets DEF Moves, HeldTickets

LEMMA NobodyServed ==
  ASSUME OrderInv, OrderInv', Moves({})
  PROVE  Queue!Next
<1>. DEFINE D == HeldTickets \ HeldTickets'
            B == ServingTickets \cap WaitingTickets'
            E == ServingTickets \ (WaitingTickets' \cup ServingTickets')
<1>1. HeldTickets' = HeldTickets \ D BY HeldMove
<1>2. WaitingTickets \subseteq WaitingTickets'
  <2>. SUFFICES ASSUME NEW m \in Message, Waits(inbox[m])
                PROVE  <<m[1], inbox[m].seq>> \in WaitingTickets'
    BY DEF WaitingTickets, Waits
  <2>1. Waits(inbox'[m]) /\ inbox'[m].seq = inbox[m].seq
    BY DEF Moves, Waits, Outstanding
  <2>. QED BY <2>1 DEF WaitingTickets, Waits
<1>3. WaitingTickets' \subseteq WaitingTickets \cup ServingTickets
  <2>. SUFFICES ASSUME NEW m \in Message, Waits(inbox'[m])
                PROVE  <<m[1], inbox'[m].seq>> \in WaitingTickets \cup ServingTickets
    BY DEF WaitingTickets, Waits
  <2>. QED BY DEF Moves, Waits, Outstanding, WaitingTickets, ServingTickets
<1>4. ServingTickets' \subseteq ServingTickets
  <2>. SUFFICES ASSUME NEW m \in Message, inbox'[m].status = "leased"
                PROVE  <<m[1], inbox'[m].seq>> \in ServingTickets
    BY DEF ServingTickets
  <2>. QED BY DEF Moves, Outstanding, ServingTickets
<1>5. WaitingTickets' \cap ServingTickets' = {}
  <2>. SUFFICES ASSUME NEW m \in Message, NEW k \in Message, Waits(inbox'[m]),
                       inbox'[k].status = "leased", m[1] = k[1], inbox'[m].seq = inbox'[k].seq
                PROVE  FALSE
    BY DEF WaitingTickets, ServingTickets, Waits
  <2>1. m = k
    <3>1. inbox'[m].status # "none" /\ inbox'[k].status # "none" BY DEF Waits
    <3>2. m \in OnRoute(m[1]) /\ k \in OnRoute(m[1]) /\ m[1] \in Route
      BY DEF OnRoute, Message
    <3>. QED BY <3>1, <3>2 DEF OrderInv, TicketsUnique, OnRoute
  <2>. QED BY <2>1 DEF Waits
<1>6. WaitingTickets' = WaitingTickets \cup B BY <1>2, <1>3
<1>7. ServingTickets' = ServingTickets \ (B \cup E) BY <1>4, <1>5
<1>8. nextSeq' = nextSeq BY DEF Moves
<1>9. D \subseteq HeldTickets /\ B \cup E \subseteq ServingTickets /\ B \cap E = {}
  OBVIOUS
<1>10. Queue!Settle(D, B, E)
  <2>. HIDE DEF D, B, E
  <2>. QED BY <1>1, <1>6, <1>7, <1>8, <1>9 DEF Queue!Settle
<1>. QED
  <2>. HIDE DEF D, B, E
  <2>. QED BY <1>9, <1>10 DEF Queue!Next

LEMMA OneServed ==
  ASSUME OrderInv, OrderInv', NEW p, Moves({p})
  PROVE  Queue!Next
<1>. DEFINE t == <<p[1], inbox[p].seq>>
            D == HeldTickets \ HeldTickets'
            B == ServingTickets \cap WaitingTickets'
            E == ServingTickets \ (WaitingTickets' \cup ServingTickets')
<1>0. /\ p \in Message /\ Waits(inbox[p]) /\ inbox'[p].status = "leased"
      /\ inbox'[p].seq = inbox[p].seq /\ FirstOnRoute(admission', inbox', p)
  BY DEF Moves, Outstanding
<1>1. HeldTickets' = HeldTickets \ D BY HeldMove
<1>2. t \in WaitingTickets /\ t \in ServingTickets'
  BY <1>0 DEF WaitingTickets, ServingTickets, Waits
<1>3. ASSUME NEW m \in Message, NEW k \in Message, inbox[m].status \in Outstanding,
             inbox[k].status \in Outstanding, m[1] = k[1], inbox[m].seq = inbox[k].seq
      PROVE  m = k
  BY <1>3, PlacesDiffer DEF OrderInv, Outstanding
<1>4. WaitingTickets \ {t} \subseteq WaitingTickets'
  <2>. SUFFICES ASSUME NEW m \in Message, Waits(inbox[m]), <<m[1], inbox[m].seq>> # t
                PROVE  <<m[1], inbox[m].seq>> \in WaitingTickets'
    BY DEF WaitingTickets, Waits
  <2>1. Waits(inbox'[m]) /\ inbox'[m].seq = inbox[m].seq
    BY DEF Moves, Waits, Outstanding
  <2>. QED BY <2>1 DEF WaitingTickets, Waits
<1>5. WaitingTickets' \subseteq WaitingTickets \cup ServingTickets
  <2>. SUFFICES ASSUME NEW m \in Message, Waits(inbox'[m])
                PROVE  <<m[1], inbox'[m].seq>> \in WaitingTickets \cup ServingTickets
    BY DEF WaitingTickets, Waits
  <2>. QED BY DEF Moves, Waits, Outstanding, WaitingTickets, ServingTickets
<1>6. ServingTickets' \subseteq ServingTickets \cup {t}
  <2>. SUFFICES ASSUME NEW m \in Message, inbox'[m].status = "leased"
                PROVE  <<m[1], inbox'[m].seq>> \in ServingTickets \cup {t}
    BY DEF ServingTickets
  <2>1. CASE m = p BY <1>0, <2>1
  <2>2. CASE m # p
    <3>1. inbox[m].status = "leased" /\ inbox'[m].seq = inbox[m].seq
      BY <2>2 DEF Moves, Outstanding
    <3>. QED BY <3>1 DEF ServingTickets
  <2>. QED BY <2>1, <2>2
<1>7. WaitingTickets' \cap ServingTickets' = {}
  <2>. SUFFICES ASSUME NEW m \in Message, NEW k \in Message, Waits(inbox'[m]),
                       inbox'[k].status = "leased", m[1] = k[1], inbox'[m].seq = inbox'[k].seq
                PROVE  FALSE
    BY DEF WaitingTickets, ServingTickets, Waits
  <2>1. /\ inbox[m].status \in Outstanding /\ inbox'[m].seq = inbox[m].seq
        /\ inbox[k].status \in Outstanding /\ inbox'[k].seq = inbox[k].seq
    BY DEF Moves, Waits, Outstanding
  <2>2. m = k BY <1>3, <2>1
  <2>. QED BY <2>2 DEF Waits
<1>8. t \notin ServingTickets
  <2>. SUFFICES ASSUME NEW m \in Message, inbox[m].status = "leased", m[1] = p[1],
                       inbox[m].seq = inbox[p].seq
                PROVE  FALSE
    BY DEF ServingTickets
  <2>1. m = p BY <1>0, <1>3 DEF Waits, Outstanding
  <2>. QED BY <1>0, <2>1 DEF Waits
<1>9. WaitingTickets' = (WaitingTickets \cup B) \ {t} BY <1>2, <1>4, <1>5, <1>7
<1>10. ServingTickets' = (ServingTickets \ (B \cup E)) \cup {t} BY <1>2, <1>6, <1>7
<1>11. Queue!First(t, HeldTickets' \cup WaitingTickets \cup (ServingTickets \ E))
  <2>. SUFFICES ASSUME NEW u \in HeldTickets' \cup WaitingTickets \cup (ServingTickets \ E),
                       u[1] = t[1]
                PROVE  u[2] >= t[2]
    BY DEF Queue!First
  <2>1. /\ inbox'[p].seq \in Nat /\ \A k \in Message : inbox'[k].seq \in Nat
        /\ \A k \in Message : admission'[k].seq \in Nat
    BY <1>0 DEF OrderInv, TypeOK, Row, Admission
  <2>2. CASE u \in HeldTickets'
    <3>1. PICK k \in Message : admission'[k].disp = "reserved" /\ u = <<k[1], admission'[k].seq>>
      BY <2>2 DEF HeldTickets
    <3>2. k \in OnRoute(p[1]) BY <3>1 DEF OnRoute
    <3>. QED BY <1>0, <2>1, <3>1, <3>2 DEF FirstOnRoute
  <2>3. ASSUME NEW k \in Message, inbox'[k].status \in Outstanding, u = <<k[1], inbox'[k].seq>>
        PROVE  u[2] >= t[2]
    <3>1. k \in OnRoute(p[1]) BY <2>3 DEF OnRoute
    <3>. QED BY <1>0, <2>1, <2>3, <3>1 DEF FirstOnRoute
  <2>4. CASE u \in WaitingTickets
    <3>1. PICK k \in Message : Waits(inbox[k]) /\ u = <<k[1], inbox[k].seq>>
      BY <2>4 DEF WaitingTickets, Waits
    <3>2. CASE k = p BY <1>0, <2>1, <3>1, <3>2
    <3>3. CASE k # p
      <4>1. inbox'[k].status \in Outstanding /\ inbox'[k].seq = inbox[k].seq
        BY <3>1, <3>3 DEF Moves, Waits, Outstanding
      <4>. QED BY <2>3, <3>1, <4>1
    <3>. QED BY <3>2, <3>3
  <2>5. CASE u \in ServingTickets \ E
    <3>1. PICK k \in Message :
            inbox'[k].status \in Outstanding /\ u = <<k[1], inbox'[k].seq>>
      BY <2>5 DEF WaitingTickets, ServingTickets, Outstanding
    <3>. QED BY <2>3, <3>1
  <2>. QED BY <2>2, <2>4, <2>5
<1>12. nextSeq' = nextSeq BY DEF Moves
<1>13. D \subseteq HeldTickets /\ B \cup E \subseteq ServingTickets /\ B \cap E = {}
  OBVIOUS
<1>14. Queue!Settle(D, B, E)
  <2>. HIDE DEF D, B, E, t
  <2>. QED BY <1>1, <1>2, <1>9, <1>10, <1>11, <1>12, <1>13 DEF Queue!Settle
<1>. QED
  <2>. HIDE DEF D, B, E
  <2>. QED BY <1>13, <1>14 DEF Queue!Next

\* An accepted reservation is a queued ticket.
LEMMA InsertQueues ==
  ASSUME OrderInv, NEW k \in tasks, k.msg \in Message, Valid(k), ~InsertIgnored(k.msg),
         Finish(k, "accepted"), Insert(k.msg, "pending")
  PROVE  Queue!Next
<1>. DEFINE m == k.msg
            t == <<m[1], admission[m].seq>>
<1>1. /\ admission[m].disp = "reserved" /\ inbox[m].status = "none"
      /\ admission'[m].disp # "reserved"
  <2>1. Settled(admission[m], "accepted").disp = "accepted"
    BY SettledType DEF OrderInv, TypeOK, Disposition
  <2>. QED BY <2>1 DEF Valid, LiveReservation, InsertIgnored, Finish, OrderInv, TypeOK
<1>2. /\ inbox'[m].seq = admission[m].seq /\ inbox'[m].status = "pending"
      /\ \A j \in Message : j # m => admission'[j] = admission[j] /\ inbox'[j] = inbox[j]
  BY DEF Finish, Insert, OrderInv, TypeOK
<1>3. HeldTickets' = HeldTickets \ {t}
  <2>1. ASSUME NEW j \in Message, j # m, admission[j].disp = "reserved"
        PROVE  <<j[1], admission[j].seq>> # t
    BY <1>1, <2>1, PlacesDiffer DEF OrderInv
  <2>. QED BY <1>1, <1>2, <2>1 DEF HeldTickets
<1>4. WaitingTickets' = WaitingTickets \cup {t}
  <2>1. WaitingTickets' \subseteq WaitingTickets \cup {t} BY <1>2 DEF WaitingTickets
  <2>2. WaitingTickets \subseteq WaitingTickets' BY <1>1, <1>2 DEF WaitingTickets
  <2>3. t \in WaitingTickets' BY <1>2 DEF WaitingTickets
  <2>. QED BY <2>1, <2>2, <2>3
<1>5. ServingTickets' = ServingTickets BY <1>1, <1>2 DEF ServingTickets
<1>6. t \in HeldTickets BY <1>1 DEF HeldTickets
<1>7. nextSeq' = nextSeq BY DEF Finish
<1>8. Queue!Queue(t) BY <1>3, <1>4, <1>5, <1>6, <1>7 DEF Queue!Queue
<1>. QED BY <1>6, <1>8 DEF Queue!Next

\* A new message takes a ticket; a reclaim keeps the one it had.
LEMMA ReserveTakes ==
  ASSUME OrderInv, OrderInv', NEW d, NEW m \in Message, Reserve(d, m)
  PROVE  Queue!Next
<1>1. /\ inbox' = inbox /\ m[1] \in Route
      /\ admission'[m].disp = "reserved" /\ admission'[m].seq = Ticket(m)
      /\ \A j \in Message : j # m => admission'[j] = admission[j]
  BY DEF Reserve, OrderInv, TypeOK, Message
<1>2. CASE admission[m].disp = "reserved"
  <2>1. nextSeq' = nextSeq /\ Ticket(m) = admission[m].seq BY <1>2 DEF Reserve, Ticket
  <2>2. Moves({}) BY <1>1, <1>2, <2>1 DEF Moves
  <2>. QED BY <2>2, NobodyServed
<1>3. CASE admission[m].disp = "none"
  <2>. DEFINE r == m[1]
  <2>1. Ticket(m) = nextSeq[r] /\ nextSeq' = [nextSeq EXCEPT ![r] = @ + 1]
    BY <1>3 DEF Reserve, Ticket
  <2>2. HeldTickets' = HeldTickets \cup {<<r, nextSeq[r]>>}
    <3>1. HeldTickets' \subseteq HeldTickets \cup {<<r, nextSeq[r]>>}
      BY <1>1, <2>1 DEF HeldTickets
    <3>2. HeldTickets \subseteq HeldTickets' BY <1>1, <1>3 DEF HeldTickets
    <3>3. <<r, nextSeq[r]>> \in HeldTickets' BY <1>1, <2>1 DEF HeldTickets
    <3>. QED BY <3>1, <3>2, <3>3
  <2>3. UNCHANGED <<WaitingTickets, ServingTickets>>
    BY <1>1 DEF WaitingTickets, ServingTickets
  <2>4. Queue!Take(r) BY <2>1, <2>2, <2>3 DEF Queue!Take
  <2>. QED BY <1>1, <2>4 DEF Queue!Next
<1>. QED BY <1>2, <1>3 DEF Reserve, Admissible

LEMMA LeaseMoves ==
  ASSUME OrderInv, OrderInv', NEW d, NEW s, Lease(d, s)
  PROVE  Queue!Next
<1>1. PICK E \in BarrierBatches :
        /\ admission' = Lifted(E)
        /\ \/ inbox' = Recovered
           \/ \E p \in Ready(Lifted(E), Recovered, s) :
                inbox' = [Recovered EXCEPT ![p] = Leased(@)]
  BY DEF Lease
<1>2. \A m \in Message :
        admission'[m].disp = "reserved" =>
          admission[m].disp = "reserved" /\ admission'[m].seq = admission[m].seq
  BY <1>1, BarrierBatchFacts, LiftedFacts DEF OrderInv, TypeOK
<1>3. nextSeq' = nextSeq BY DEF Lease, counters
<1>4. ASSUME NEW m \in Message
      PROVE  /\ Waits(inbox[m]) => Recovered[m] = inbox[m]
             /\ Recovered[m].status = "leased" => inbox[m].status = "leased"
             /\ Recovered[m].status \in Outstanding =>
                  inbox[m].status \in Outstanding /\ Recovered[m].seq = inbox[m].seq
             /\ Recovered[m] \in Row
             /\ Recovered[m].status = "retry_wait" /\ Recovered[m].due => Waits(inbox[m])
             /\ Recovered[m].status = "pending" => Waits(inbox[m])
  <2>1. inbox[m] \in Row BY DEF OrderInv, TypeOK
  <2>2. Ended(inbox[m], "failed").status = "failed" BY <2>1, EndedType DEF Terminal
  <2>3. Retried(inbox[m]).status = "retry_wait" /\ ~Retried(inbox[m]).due
    BY <2>1, RetriedType DEF Retried, Row
  <2>4. CASE inbox[m].status = "leased" /\ inbox[m].due
    <3>1. Recovered[m] \in {Ended(inbox[m], "failed"), Retried(inbox[m])}
      BY <2>4 DEF Recovered
    <3>. QED
      BY <2>2, <2>3, <2>4, <3>1, RecoveredFacts DEF OrderInv, TypeOK, Waits, Outstanding
  <2>5. CASE ~(inbox[m].status = "leased" /\ inbox[m].due)
    <3>1. Recovered[m] = inbox[m] BY <2>5 DEF Recovered
    <3>. QED BY <2>1, <2>5, <3>1 DEF Waits, Outstanding
  <2>. QED BY <2>4, <2>5
<1>5. CASE inbox' = Recovered
  <2>1. Moves({}) BY <1>2, <1>3, <1>4, <1>5 DEF Moves
  <2>. QED BY <2>1, NobodyServed
<1>6. ASSUME NEW p \in Ready(Lifted(E), Recovered, s),
             inbox' = [Recovered EXCEPT ![p] = Leased(@)]
      PROVE  Queue!Next
  <2>1. /\ p \in Message /\ Waits(inbox[p])
        /\ FirstOnRoute(Lifted(E), Recovered, p)
    BY <1>4 DEF Ready
  <2>2. Recovered \in [Message -> Row] BY RecoveredFacts DEF OrderInv, TypeOK
  <2>3. /\ inbox'[p].status = "leased" /\ inbox'[p].seq = Recovered[p].seq
        /\ Recovered[p] = inbox[p]
        /\ \A m \in Message : m # p => inbox'[m] = Recovered[m]
    BY <1>4, <1>6, <2>1, <2>2, LeasedType
  <2>4. FirstOnRoute(admission', inbox', p)
    <3>1. inbox'[p].seq \in Nat BY <2>1 DEF OrderInv, TypeOK, Row
    <3>. QED BY <1>1, <2>1, <2>3, <3>1 DEF FirstOnRoute, OnRoute
  <2>5. Moves({p})
    <3>1. \A m \in Message :
            inbox'[m].status \in Outstanding =>
              inbox[m].status \in Outstanding /\ inbox'[m].seq = inbox[m].seq
      BY <1>4, <2>1, <2>3 DEF Waits, Outstanding
    <3>2. \A m \in Message \ {p} :
            /\ Waits(inbox[m]) => Waits(inbox'[m])
            /\ inbox'[m].status = "leased" => inbox[m].status = "leased"
      BY <1>4, <2>3
    <3>. QED BY <1>2, <1>3, <2>1, <2>3, <2>4, <3>1, <3>2 DEF Moves
  <2>. QED BY <2>5, OneServed
<1>. QED BY <1>1, <1>5, <1>6

LEMMA StepMaps ==
  ASSUME OrderInv, OrderInv', Next
  PROVE  Queue!Next
<1>. USE DEF OrderInv
<1>1. ASSUME UNCHANGED <<admission, inbox, nextSeq>> PROVE Queue!Next
  <2>1. Moves({}) BY <1>1 DEF Moves
  <2>. QED BY <2>1, NobodyServed
<1>2. ASSUME NEW d \in Daemon, Life(d) \/ Admin(d) PROVE Queue!Next
  BY <1>1, <1>2 DEF Life, Start, Renew, Close, Crash, Gone, Admin, Bind, SetPolicy, counters
<1>3. ASSUME NEW m \in Message, NEW disp \in Disposition, disp # "reserved",
             admission' = [admission EXCEPT ![m] = Settled(@, disp)],
             nextSeq' = nextSeq,
             \A k \in Message : inbox'[k] = inbox[k] \/
               (inbox[k].status = "none" /\ inbox'[k].status = "control")
      PROVE  Queue!Next
  <2>1. Settled(admission[m], disp).disp = disp BY SettledType DEF TypeOK
  <2>2. \A k \in Message :
          admission'[k].disp = "reserved" =>
            admission[k].disp = "reserved" /\ admission'[k].seq = admission[k].seq
    BY <1>3, <2>1 DEF TypeOK
  <2>3. Moves({}) BY <1>3, <2>2 DEF Moves, Waits, Outstanding
  <2>. QED BY <2>3, NobodyServed
<1>4. ASSUME NEW d \in Daemon, Ingress(d) PROVE Queue!Next
  <2>1. ASSUME NEW m \in Message, RejectReclaim(d, m) PROVE Queue!Next
    BY <1>3, <2>1 DEF RejectReclaim, Disposition, counters
  <2>. QED BY <1>4, <2>1, ReserveTakes DEF Ingress
<1>5. ASSUME NEW d \in Daemon, Extension(d) PROVE Queue!Next
  <2>1. ASSUME NEW m \in Message, Complete(d, m) \/ Retry(d, m) PROVE Queue!Next
    <3>1. PICK row \in {Ended(inbox[m], "completed"), Ended(inbox[m], "failed"), Retried(inbox[m])} :
            inbox' = [inbox EXCEPT ![m] = row]
      BY <2>1 DEF Complete, Retry
    <3>2. row.seq = inbox[m].seq /\ row.status \in {"completed", "failed", "retry_wait"}
      BY <3>1, EndedType, RetriedType DEF TypeOK, Terminal
    <3>3. inbox[m].status = "leased" /\ UNCHANGED <<admission, nextSeq>>
      BY <2>1 DEF Complete, Retry, counters
    <3>4. Moves({}) BY <3>1, <3>2, <3>3 DEF Moves, Waits, Outstanding, TypeOK
    <3>. QED BY <3>4, NobodyServed
  <2>. QED BY <1>5, <2>1, LeaseMoves DEF Extension
<1>6. ASSUME NEW d \in Daemon, Cleanup(d) PROVE Queue!Next
  <2>1. PICK E \in BarrierBatches, R \in SUBSET Purgeable,
             S \in SUBSET {m \in Message : admission[m].disp \notin {"none", "reserved"}} :
          /\ inbox' = [m \in Message |-> IF m \in R THEN NoRow ELSE inbox[m]]
          /\ admission' = [m \in Message |-> IF m \in S THEN NoAdmission ELSE Lifted(E)[m]]
    BY <1>6 DEF Cleanup
  <2>2. \A m \in Message :
          admission'[m].disp = "reserved" =>
            admission[m].disp = "reserved" /\ admission'[m].seq = admission[m].seq
    BY <2>1, BarrierBatchFacts, LiftedFacts DEF TypeOK, NoAdmission
  <2>3. \A m \in Message : inbox'[m] = inbox[m] \/
          (inbox'[m] = NoRow /\ inbox[m].status \in Terminal)
    BY <2>1 DEF Purgeable
  <2>4. nextSeq' = nextSeq BY <1>6 DEF Cleanup, counters
  <2>5. Moves({}) BY <2>2, <2>3, <2>4 DEF Moves, NoRow, Waits, Outstanding, Terminal
  <2>. QED BY <2>5, NobodyServed
<1>7. CASE Resume
  <2>0. PICK t \in tasks : \/ Finalize(t) \/ FinalizeControl(t)
                           \/ FailMaterialization(t) \/ Superseded(t)
    BY <1>7 DEF Resume
  <2>1. t.msg \in Message BY <2>0 DEF TypeOK, Task
  <2>2. ASSUME Finish(t, "materialization_failed"), UNCHANGED inbox PROVE Queue!Next
    BY <1>3, <2>1, <2>2 DEF Finish, Disposition
  <2>3. CASE Finalize(t) BY <2>0, <2>1, <2>2, <2>3, InsertQueues DEF Finalize
  <2>4. CASE FinalizeControl(t)
    <3>1. \A k \in Message : inbox'[k] = inbox[k] \/
            (inbox[k].status = "none" /\ inbox'[k].status = "control")
      BY <2>1, <2>4 DEF FinalizeControl, Insert, InsertIgnored, TypeOK
    <3>. QED BY <1>3, <2>1, <2>4, <3>1 DEF FinalizeControl, Finish, Disposition
  <2>5. CASE FailMaterialization(t) BY <2>2, <2>5 DEF FailMaterialization
  <2>6. CASE Superseded(t) BY <1>1, <2>6 DEF Superseded, counters
  <2>. QED BY <2>0, <2>3, <2>4, <2>5, <2>6
<1>8. CASE Time
  <2>1. CASE OwnershipLapses BY <1>1, <2>1 DEF OwnershipLapses, counters
  <2>2. ASSUME NEW m \in Message, ReservationLapses(m) PROVE Queue!Next
    <3>1. \A k \in Message : /\ admission'[k].disp = admission[k].disp
                             /\ admission'[k].seq = admission[k].seq
      BY <2>2 DEF ReservationLapses, TypeOK, Admission
    <3>2. Moves({}) BY <2>2, <3>1 DEF ReservationLapses, Moves, counters
    <3>. QED BY <3>2, NobodyServed
  <2>3. ASSUME NEW m \in Message, RowFallsDue(m) PROVE Queue!Next
    <3>1. \A k \in Message : /\ inbox'[k].status = inbox[k].status
                             /\ inbox'[k].seq = inbox[k].seq
      BY <2>3 DEF RowFallsDue, TypeOK, Row
    <3>2. Moves({}) BY <2>3, <3>1 DEF RowFallsDue, Moves, Waits, counters
    <3>. QED BY <3>2, NobodyServed
  <2>4. ASSUME NEW m \in Message, LeavesRateWindow(m) PROVE Queue!Next
    BY <1>1, <2>4 DEF LeavesRateWindow, counters
  <2>. QED BY <1>8, <2>1, <2>2, <2>3, <2>4 DEF Time
<1>. QED BY <1>2, <1>4, <1>5, <1>6, <1>7, <1>8 DEF Next

\* With its daemons, leases, timers, crashes, redelivery and retention, the
\* pipeline serves each route's messages like a ticket queue: in the order of
\* admission, one at a time, and none again once it has ended.
THEOREM PipelineImplementsTicketQueue == Spec => ImplementsTicketQueue
<1>1. Init => Queue!Init
  <2>. SUFFICES ASSUME Init PROVE Queue!Init OBVIOUS
  <2>1. \A m \in Message : admission[m].disp = "none" /\ inbox[m].status = "none"
    BY DEF Init, NoAdmission, NoRow
  <2>2. HeldTickets = {} /\ WaitingTickets = {} /\ ServingTickets = {}
    BY <2>1 DEF HeldTickets, WaitingTickets, ServingTickets
  <2>3. nextSeq = [r \in Route |-> 1] BY DEF Init
  <2>. QED BY <2>2, <2>3 DEF Queue!Init
<1>2. OrderInv /\ OrderInv' /\ [Next]_vars => [Queue!Next]_Queue!vars
  <2>1. UNCHANGED vars => UNCHANGED Queue!vars
    BY DEF vars, Queue!vars, counters, HeldTickets, WaitingTickets, ServingTickets
  <2>. QED BY <2>1, StepMaps
<1>. QED BY <1>1, <1>2, OrderAlways, PTL DEF Spec, ImplementsTicketQueue, Queue!Spec
================================================================================
