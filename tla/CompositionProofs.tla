--------------------------- MODULE CompositionProofs ---------------------------
(***************************************************************************)
(* What is composed with the inbound pipeline, for every number of         *)
(* sessions, routes and messages: the extensions' turns (RemoteTurns) and  *)
(* the context tokens of replies (ReplyContext).  Each composition         *)
(* implements the pipeline, so what is proved of the pipeline holds of it; *)
(* on top of that come the leases the turns hold, and the tokens.          *)
(***************************************************************************)
EXTENDS RemoteTurns, ReplyContext, InboundPipelineProofs

----------------------------------------------------------------------------
(* Implementing the pipeline. *)

LEMMA TurnStepMaps ==
  ASSUME TurnTypeOK, [TurnNext]_turnVars
  PROVE  [Next]_vars
<1>1. ASSUME NEW s \in Session, Poll(s) PROVE Next
  BY <1>1 DEF Poll, Next, Extension
<1>2. ASSUME NEW s \in Session, turn[s].pc # "idle" PROVE turn[s].msg \in Message
  BY <1>2 DEF TurnTypeOK
<1>3. ASSUME NEW s \in Session, Completes(s) PROVE Next
  BY <1>2, <1>3 DEF Completes, Current, Next, Extension
<1>4. ASSUME NEW s \in Session, Fails(s) PROVE Next
  BY <1>2, <1>4 DEF Fails, Current, Next, Extension
<1>5. ASSUME NEW s \in Session, Turn(s) PROVE [Next]_vars
  BY <1>3, <1>4, <1>5 DEF Turn, Check, Prompt, Reply, Conclude, Report, Reload
<1>6. ASSUME Elsewhere PROVE Next BY <1>6 DEF Elsewhere, Next
<1>7. CASE UNCHANGED turnVars BY <1>7 DEF turnVars
<1>. QED BY <1>1, <1>5, <1>6, <1>7 DEF TurnNext

LEMMA WorkType ==
  ASSUME NEW m \in Message, NEW row \in Row
  PROVE  /\ Work(m, row) \in [pc : Label, msg : Message \cup {None}, id : Nat,
                              try : Nat, retry : BOOLEAN]
         /\ Work(m, row).pc = "check" /\ Work(m, row).msg = m
         /\ Work(m, row).id = row.id /\ Work(m, row).try = row.tries
BY DEF Work, Row, Label

LEMMA TurnTypeStep ==
  ASSUME TypeOK, TurnTypeOK, [TurnNext]_turnVars
  PROVE  TypeOK' /\ TurnTypeOK'
<1>1. TypeOK' BY TurnStepMaps, TypeStep
<1>2. ASSUME NEW s \in Session, Poll(s) PROVE TurnTypeOK'
  <2>1. CASE UNCHANGED turn BY <1>2, <2>1 DEF Poll, TurnTypeOK
  <2>2. ASSUME NEW m \in Message, turn' = [turn EXCEPT ![s] = Work(m, inbox'[m])]
        PROVE  TurnTypeOK'
    <3>1. inbox'[m] \in Row BY <1>1 DEF TypeOK
    <3>. QED BY <1>2, <2>2, <3>1, WorkType DEF Poll, TurnTypeOK
  <2>. QED BY <1>2, <2>1, <2>2 DEF Poll
<1>3. ASSUME NEW s \in Session, turn[s].pc # "idle", NEW pc \in Label, Goto(s, pc)
      PROVE  /\ turn' \in [Session -> [pc : Label, msg : Message \cup {None}, id : Nat,
                                       try : Nat, retry : BOOLEAN]]
             /\ \A t \in Session : turn'[t].pc # "idle" => turn'[t].msg \in Message
  BY <1>3 DEF TurnTypeOK, Goto
<1>4. ASSUME NEW s \in Session, EndTurn(s)
      PROVE  /\ turn' \in [Session -> [pc : Label, msg : Message \cup {None}, id : Nat,
                                       try : Nat, retry : BOOLEAN]]
             /\ \A t \in Session : turn'[t].pc # "idle" => turn'[t].msg \in Message
  BY <1>4 DEF TurnTypeOK, EndTurn, Idle, Label
<1>5. ASSUME NEW s \in Session PROVE LeaseOf(turn[s]) \in Nat \X Nat
  BY DEF TurnTypeOK, LeaseOf
<1>6. ASSUME NEW s \in Session, Turn(s) PROVE TurnTypeOK'
  <2>1. CASE Check(s)
    <3>1. CASE \E pc \in {"prompt", "reply", "fail"} : Goto(s, pc)
      BY <1>3, <2>1, <3>1 DEF Check, Label, TurnTypeOK
    <3>2. CASE turn' = [turn EXCEPT ![s].pc = "fail", ![s].retry = FALSE]
      BY <2>1, <3>2 DEF Check, Label, TurnTypeOK
    <3>. QED BY <2>1, <3>1, <3>2 DEF Check
  <2>2. CASE Prompt(s) BY <1>3, <1>5, <2>2 DEF Prompt, Label, TurnTypeOK
  <2>3. CASE Reply(s) BY <1>3, <1>5, <2>3 DEF Reply, Label, TurnTypeOK
  <2>4. CASE Conclude(s) BY <1>3, <1>4, <2>4 DEF Conclude, Label, TurnTypeOK
  <2>5. CASE Report(s) BY <1>4, <2>5 DEF Report, TurnTypeOK
  <2>6. CASE Reload(s) BY <1>4, <2>6 DEF Reload, TurnTypeOK
  <2>. QED BY <1>6, <2>1, <2>2, <2>3, <2>4, <2>5, <2>6 DEF Turn
<1>7. CASE Elsewhere BY <1>1, <1>7 DEF Elsewhere, turns, TurnTypeOK
<1>8. CASE UNCHANGED turnVars BY <1>1, <1>8 DEF turnVars, turns, TurnTypeOK
<1>. QED BY <1>1, <1>2, <1>6, <1>7, <1>8 DEF TurnNext

LEMMA TurnTypeInit ==
  ASSUME TurnInit
  PROVE  TypeOK /\ TurnTypeOK
BY TypeInit DEF TurnInit, TurnTypeOK, Idle, Label

\* Turns, their leases and the history keep their types.
THEOREM TurnTypeCorrect == TurnSpec => []TurnTypeOK
BY TurnTypeInit, TurnTypeStep, PTL DEF TurnSpec

\* The extensions' loops make only calls that the pipeline knows, under the leases
\* it gave them, whatever is lost or reloaded: every property of the pipeline holds
\* of the composition (runInboundLoop and processInboundTurn over leaseInbound and
\* completeInbound).
THEOREM TurnsImplementPipeline == TurnSpec => Spec
<1>1. TurnInit => Init BY DEF TurnInit
<1>2. TypeOK /\ TurnTypeOK /\ [TurnNext]_turnVars => [Next]_vars BY TurnStepMaps
<1>. QED BY <1>1, <1>2, TurnTypeInit, TurnTypeStep, PTL DEF TurnSpec, Spec
----------------------------------------------------------------------------
(* Leases.  A lease that a turn holds, or that was answered under, was drawn: *)
(* its row is older than the next id, and no row of that id was tried less    *)
(* often.  So what a poll leases next is a lease that nobody knows.           *)

Busy(s) == turn[s].pc # "idle"

Drawn(lease) ==
  /\ lease[1] < nextId /\ lease[2] \in 1 .. MaxAttempts
  /\ \A m \in Message :
       inbox[m].status # "none" /\ inbox[m].id = lease[1] => lease[2] <= inbox[m].tries

LeasesDrawn ==
  /\ \A s \in Session : Busy(s) => Drawn(LeaseOf(turn[s]))
  /\ \A lease \in answered : Drawn(lease)

LeasesDiffer ==
  \A s, t \in Session : Busy(s) /\ Busy(t) /\ LeaseOf(turn[s]) = LeaseOf(turn[t]) => s = t

RowIds ==
  /\ \A m \in Message : inbox[m].status # "none" => inbox[m].id < nextId
  /\ \A m, k \in Message :
       inbox[m].status # "none" /\ inbox[k].status # "none" /\ inbox[m].id = inbox[k].id
         => m = k

LeaseInv ==
  /\ TypeOK /\ TurnTypeOK /\ BudgetInv
  /\ RowIds /\ LeasesDrawn /\ LeasesDiffer /\ AnsweredOnce

\* A row that stays keeps its id and never loses attempts.
LEMMA RowStays ==
  ASSUME NEW r \in Row, NEW n, RowStep(r, n), r.status # "none", n.status # "none"
  PROVE  n.id = r.id /\ (n.tries = r.tries \/ (n.tries = r.tries + 1 /\ n.status = "leased"))
<1>1. ASSUME NEW status \in Terminal, n = Ended(r, status)
      PROVE  n.id = r.id /\ n.tries = r.tries
  BY <1>1, EndedType
<1>2. ASSUME NEW w, Requeued(r, w) PROVE w.id = r.id /\ w.tries = r.tries
  BY <1>2, RetriedType DEF Requeued
<1>3. ASSUME NEW w \in Row, w = r \/ Requeued(r, w), n = Leased(w)
      PROVE  n.id = r.id /\ n.tries = r.tries + 1 /\ n.status = "leased"
  BY <1>2, <1>3, LeasedType
<1>4. n # NoRow BY DEF NoRow
<1>5. CASE n = [r EXCEPT !.due = TRUE] BY <1>5 DEF Row
<1>. QED BY <1>1, <1>2, <1>3, <1>4, <1>5 DEF RowStep

\* A row appears with the next id, and no other with it.
LEMMA RowAppears ==
  ASSUME TypeOK, [Next]_vars
  PROVE  /\ nextId' \in Nat /\ nextId' >= nextId
         /\ \A m \in Message :
              inbox[m].status = "none" /\ inbox'[m].status # "none"
                => /\ inbox'[m].id = nextId /\ inbox'[m].tries = 0 /\ nextId' > nextId
                   /\ \A k \in Message :
                        inbox[k].status = "none" /\ inbox'[k].status # "none" => k = m
<1>. DEFINE Appears(m) == inbox[m].status = "none" /\ inbox'[m].status # "none"
            Quiet == UNCHANGED nextId /\ \A m \in Message : ~Appears(m)
<1>0. nextId \in Nat /\ nextId' \in Nat BY TypeStep DEF TypeOK
<1>1. ASSUME NEW k \in Message, NEW status \in {"pending", "control"}, Insert(k, status)
      PROVE  /\ nextId' = nextId + 1
             /\ inbox'[k].id = nextId /\ inbox'[k].tries = 0
             /\ \A m \in Message : m # k => inbox'[m] = inbox[m]
  BY <1>1 DEF Insert, TypeOK
<1>2. CASE \E t \in tasks : Finalize(t) \/ FinalizeControl(t)
  <2>1. PICK t \in tasks : Finalize(t) \/ FinalizeControl(t) BY <1>2
  <2>2. t.msg \in Message BY <2>1 DEF TypeOK, Task
  <2>3. CASE UNCHANGED <<inbox, nextId>> BY <1>0, <2>3
  <2>4. CASE Insert(t.msg, "pending") \/ Insert(t.msg, "control")
    BY <1>0, <1>1, <2>2, <2>4
  <2>. QED BY <2>1, <2>3, <2>4 DEF Finalize, FinalizeControl
<1>3. ASSUME NEW d \in Daemon, NEW s, Lease(d, s) PROVE Quiet
  <2>1. \A k \in Message : Recovered[k].status = "none" <=> inbox[k].status = "none"
    BY RecoveredFacts DEF TypeOK
  <2>2. Recovered \in [Message -> Row] BY RecoveredFacts DEF TypeOK
  <2>3. CASE inbox' = Recovered BY <1>3, <2>1, <2>3 DEF Lease, counters
  <2>4. ASSUME NEW k \in Message, Recovered[k].status # "none",
               inbox' = [Recovered EXCEPT ![k] = Leased(@)]
        PROVE  Quiet
    BY <1>3, <2>1, <2>2, <2>4 DEF Lease, counters
  <2>. QED BY <1>3, <2>3, <2>4 DEF Lease, Ready
<1>4. ASSUME NEW d \in Daemon, Extension(d) PROVE Quiet
  BY <1>3, <1>4 DEF Extension, Complete, Retry, TypeOK, counters
<1>5. ASSUME NEW d \in Daemon, Cleanup(d) PROVE Quiet
  BY <1>5 DEF Cleanup, NoRow, counters
<1>6. ASSUME NEW d \in Daemon, Life(d) \/ Ingress(d) \/ Admin(d) PROVE Quiet
  BY <1>6 DEF Life, Start, Renew, Close, Crash, Gone, Ingress, Reserve, RejectReclaim,
              Admin, Bind, SetPolicy, counters
<1>7. CASE \E t \in tasks : FailMaterialization(t) \/ Superseded(t)
  <2>1. Quiet BY <1>7 DEF FailMaterialization, Superseded, counters
  <2>. QED BY <1>0, <2>1
<1>8. CASE Time
  <2>1. Quiet
    BY <1>8 DEF Time, OwnershipLapses, ReservationLapses, RowFallsDue, LeavesRateWindow,
                TypeOK, Row, counters
  <2>. QED BY <1>0, <2>1
<1>9. CASE UNCHANGED vars BY <1>0, <1>9 DEF vars, counters
<1>10. CASE Quiet BY <1>0, <1>10
<1>. QED
  BY <1>2, <1>4, <1>5, <1>6, <1>7, <1>8, <1>9, <1>10 DEF Next, Resume

\* A lease that was drawn stays so.
LEMMA DrawnStays ==
  ASSUME TypeOK, [Next]_vars, NEW lease \in Nat \X Nat, Drawn(lease)
  PROVE  Drawn(lease)'
<1>1. nextId \in Nat /\ nextId' \in Nat /\ nextId' >= nextId
  BY RowAppears, TypeStep DEF TypeOK
<1>2. ASSUME NEW m \in Message, inbox'[m].status # "none", inbox'[m].id = lease[1]
      PROVE  lease[2] <= inbox'[m].tries
  <2>1. inbox[m] \in Row /\ inbox[m].tries \in Nat BY DEF TypeOK, Row
  <2>2. inbox[m].status # "none" BY <1>1, <1>2, RowAppears DEF Drawn
  <2>3. inbox'[m].id = inbox[m].id
        /\ (inbox'[m].tries = inbox[m].tries \/ inbox'[m].tries = inbox[m].tries + 1)
    BY <1>2, <2>1, <2>2, RowLife, RowStays
  <2>. QED BY <1>2, <2>1, <2>2, <2>3 DEF Drawn
<1>. QED BY <1>1, <1>2 DEF Drawn

\* What a poll leases was never leased as often before.
LEMMA LeaseIsNew ==
  ASSUME TypeOK, [Next]_vars, NEW m \in Message, inbox'[m].tries > inbox[m].tries
  PROVE  /\ inbox[m].status # "none" /\ inbox'[m].status # "none"
         /\ inbox'[m].id = inbox[m].id /\ inbox'[m].tries = inbox[m].tries + 1
<1>1. inbox[m] \in Row /\ inbox[m].tries \in Nat BY DEF TypeOK, Row
<1>2. inbox'[m] \in Row /\ inbox'[m].tries \in Nat BY TypeStep DEF TypeOK, Row
<1>3. RowStep(inbox[m], inbox'[m]) BY RowLife
<1>4. inbox'[m] # NoRow BY <1>1, <1>2 DEF NoRow
<1>5. CASE inbox[m].status = "none"
  <2>1. inbox'[m].tries = 0 \/ inbox'[m] = inbox[m]
    BY <1>1, <1>3, <1>5 DEF RowStep, Terminal, Requeued, Waits
  <2>. QED BY <1>1, <1>2, <2>1
<1>6. CASE inbox[m].status # "none" /\ inbox'[m].status = "none"
  <2>1. ASSUME NEW w \in Row PROVE Leased(w).status # "none" BY <2>1, LeasedType
  <2>2. ASSUME NEW status \in Terminal PROVE Ended(inbox[m], status).status # "none"
    BY <1>1, <2>2, EndedType DEF Terminal
  <2>3. Retried(inbox[m]).status # "none" BY <1>1, RetriedType
  <2>4. [inbox[m] EXCEPT !.due = TRUE].status # "none" BY <1>1, <1>6 DEF Row
  <2>. QED BY <1>3, <1>4, <1>6, <2>1, <2>2, <2>3, <2>4 DEF RowStep, Requeued
<1>7. CASE inbox[m].status # "none" /\ inbox'[m].status # "none"
  BY <1>1, <1>2, <1>3, <1>7, RowStays
<1>. QED BY <1>5, <1>6, <1>7

LEMMA RowIdsStep ==
  ASSUME TypeOK, RowIds, [Next]_vars
  PROVE  RowIds'
<1>1. ASSUME NEW m \in Message, inbox'[m].status # "none"
      PROVE  /\ inbox'[m].id < nextId'
             /\ inbox[m].status = "none" => inbox'[m].id = nextId
             /\ inbox[m].status # "none" => inbox'[m].id = inbox[m].id
  <2>1. inbox[m] \in Row /\ inbox[m].id \in Nat /\ nextId \in Nat BY DEF TypeOK, Row
  <2>2. CASE inbox[m].status = "none" BY <1>1, <2>1, <2>2, RowAppears
  <2>3. CASE inbox[m].status # "none"
    <3>1. inbox'[m].id = inbox[m].id BY <1>1, <2>1, <2>3, RowLife, RowStays
    <3>. QED BY <2>1, <2>3, <3>1, RowAppears DEF RowIds
  <2>. QED BY <2>2, <2>3
<1>2. ASSUME NEW m \in Message, NEW k \in Message, inbox'[m].status # "none",
             inbox'[k].status # "none", inbox'[m].id = inbox'[k].id
      PROVE  m = k
  <2>1. CASE inbox[m].status # "none" /\ inbox[k].status # "none"
    BY <1>1, <1>2, <2>1 DEF RowIds
  <2>2. CASE inbox[m].status = "none" /\ inbox[k].status = "none"
    BY <1>2, <2>2, RowAppears
  <2>3. ASSUME NEW x \in {m, k}, NEW y \in {m, k}, inbox[x].status = "none",
               inbox[y].status # "none", x # y
        PROVE  FALSE
    <3>1. inbox[y].id < nextId /\ inbox[y].id \in Nat /\ nextId \in Nat
      BY <2>3 DEF RowIds, TypeOK, Row
    <3>. QED BY <1>1, <1>2, <2>3, <3>1
  <2>. QED BY <2>1, <2>2, <2>3
<1>. QED BY <1>1, <1>2 DEF RowIds

\* Every step but a poll that got a lease leaves each turn as it is, or ends it,
\* and adds at most the lease of a turn to what was answered.
LEMMA LeasesGoOn ==
  ASSUME LeaseInv, [Next]_vars,
         \A s \in Session : Busy(s)' => Busy(s) /\ LeaseOf(turn'[s]) = LeaseOf(turn[s]),
         \A lease \in answered' :
           lease \in answered \/ \E s \in Session : Busy(s) /\ lease = LeaseOf(turn[s])
  PROVE  LeasesDrawn' /\ LeasesDiffer'
<1>1. ASSUME NEW lease,
             lease \in answered \/ \E s \in Session : Busy(s) /\ lease = LeaseOf(turn[s])
      PROVE  Drawn(lease)'
  <2>1. lease \in Nat \X Nat BY <1>1 DEF LeaseInv, TurnTypeOK, LeaseOf
  <2>2. Drawn(lease) BY <1>1 DEF LeaseInv, LeasesDrawn
  <2>. QED BY <2>1, <2>2, DrawnStays DEF LeaseInv
<1>2. LeasesDrawn'
  <2>1. ASSUME NEW s \in Session, Busy(s)', NEW lease, lease = LeaseOf(turn'[s])
        PROVE  Drawn(lease)'
    BY <1>1, <2>1
  <2>2. ASSUME NEW lease \in answered' PROVE Drawn(lease)'
    BY <1>1, <2>2
  <2>. QED BY <2>1, <2>2 DEF LeasesDrawn, Drawn
<1>3. LeasesDiffer' BY DEF LeaseInv, LeasesDiffer
<1>. QED BY <1>2, <1>3

\* What a poll leases is a lease that was never drawn.
LEMMA PollKeepsLeases ==
  ASSUME LeaseInv, TypeOK', BudgetInv', RowIds', NEW s \in Session, Poll(s), ~UNCHANGED turn
  PROVE  LeasesDrawn' /\ LeasesDiffer' /\ AnsweredOnce'
<1>0. [Next]_vars BY TurnStepMaps DEF LeaseInv, TurnNext
<1>1. PICK m \in Message : /\ inbox'[m].tries > inbox[m].tries
                           /\ turn' = [turn EXCEPT ![s] = Work(m, inbox'[m])]
  BY DEF Poll
<1>a. PICK lease : lease = <<inbox'[m].id, inbox'[m].tries>> OBVIOUS
<1>2. /\ inbox[m] \in Row /\ inbox'[m] \in Row /\ inbox[m].tries \in Nat
      /\ inbox[m].id \in Nat
  BY DEF LeaseInv, TypeOK, Row
<1>3. /\ inbox[m].status # "none" /\ inbox'[m].status # "none"
      /\ inbox'[m].id = inbox[m].id /\ inbox'[m].tries = inbox[m].tries + 1
  BY <1>0, <1>1, LeaseIsNew DEF LeaseInv
<1>4. /\ LeaseOf(turn'[s]) = lease
      /\ \A t \in Session : t # s => turn'[t] = turn[t]
      /\ UNCHANGED answered
  BY <1>1, <1>2, <1>a, WorkType DEF LeaseInv, TurnTypeOK, LeaseOf, Poll
<1>5. Drawn(lease)'
  <2>1. inbox'[m].tries \in 1 .. MaxAttempts
    BY <1>2, <1>3, PipelineConstants DEF BudgetInv, InBudget
  <2>2. inbox'[m].id < nextId' BY <1>3 DEF RowIds
  <2>3. ASSUME NEW k \in Message, inbox'[k].status # "none", inbox'[k].id = inbox'[m].id
        PROVE  inbox'[m].tries <= inbox'[k].tries
    <3>1. k = m BY <1>3, <2>3 DEF RowIds
    <3>. QED BY <1>2, <1>3, <3>1
  <2>. QED BY <1>a, <2>1, <2>2, <2>3 DEF Drawn
<1>6. ASSUME NEW old \in Nat \X Nat, Drawn(old) PROVE Drawn(old)' /\ old # lease
  <2>1. old[1] = inbox[m].id => old[2] <= inbox[m].tries BY <1>3, <1>6 DEF Drawn
  <2>2. Drawn(old)' BY <1>0, <1>6, DrawnStays DEF LeaseInv
  <2>. QED BY <1>a, <1>2, <1>3, <2>1, <2>2
<1>7. ASSUME NEW t \in Session, t # s, Busy(t)', NEW old, old = LeaseOf(turn'[t])
      PROVE  Drawn(old)' /\ old # lease
  <2>1. old \in Nat \X Nat BY <1>4, <1>7 DEF LeaseInv, TurnTypeOK, LeaseOf
  <2>2. Drawn(old) BY <1>4, <1>7 DEF LeaseInv, LeasesDrawn, Busy
  <2>. QED BY <1>6, <2>1, <2>2
<1>8. ASSUME NEW old \in answered PROVE Drawn(old)' /\ old # lease
  BY <1>6 DEF LeaseInv, LeasesDrawn, TurnTypeOK
<1>9. LeasesDrawn'
  <2>1. ASSUME NEW t \in Session, Busy(t)', NEW x, x = LeaseOf(turn'[t]) PROVE Drawn(x)'
    BY <1>4, <1>5, <1>7, <2>1
  <2>. QED BY <1>4, <1>8, <2>1 DEF LeasesDrawn, Drawn
<1>10. LeasesDiffer' BY <1>4, <1>7 DEF LeasesDiffer, LeaseInv, Busy
<1>11. AnsweredOnce' BY <1>4, <1>8 DEF AnsweredOnce, LeaseInv
<1>. QED BY <1>9, <1>10, <1>11

\* A turn answers under its own lease, which no other turn has, and goes on to
\* where nothing is answered.
LEMMA TurnKeepsLeases ==
  ASSUME LeaseInv, [Next]_vars, NEW s \in Session, Turn(s)
  PROVE  LeasesDrawn' /\ LeasesDiffer' /\ AnsweredOnce'
<1>. DEFINE May(pc) == pc \in {"check", "prompt", "reply"}
<1>0. TurnTypeOK BY DEF LeaseInv
<1>1. Busy(s)
  BY DEF Busy, Turn, Check, Prompt, Reply, Conclude, Report, Reload
<1>2. \/ EndTurn(s)
      \/ \E pc \in Label : Goto(s, pc)
      \/ turn' = [turn EXCEPT ![s].pc = "fail", ![s].retry = FALSE]
  BY DEF Turn, Check, Prompt, Reply, Conclude, Report, Reload, Label
<1>3. \A t \in Session : t # s => turn'[t] = turn[t]
  BY <1>0, <1>2 DEF EndTurn, Goto, TurnTypeOK
<1>4. Busy(s)' => LeaseOf(turn'[s]) = LeaseOf(turn[s])
  BY <1>0, <1>2 DEF EndTurn, Goto, Busy, Idle, LeaseOf, TurnTypeOK
<1>5. \/ UNCHANGED answered /\ (May(turn'[s].pc) => May(turn[s].pc))
      \/ answered' = answered \cup {LeaseOf(turn[s])} /\ ~May(turn'[s].pc)
  BY <1>0 DEF Turn, Check, Prompt, Reply, Conclude, Report, Reload, Goto, EndTurn, Idle,
              TurnTypeOK
<1>6. LeasesDrawn' /\ LeasesDiffer' BY <1>1, <1>3, <1>4, <1>5, LeasesGoOn DEF Busy
<1>7. ASSUME NEW t \in Session, May(turn'[t].pc) PROVE LeaseOf(turn'[t]) \notin answered'
  <2>1. CASE t = s BY <1>4, <1>5, <1>7, <2>1 DEF LeaseInv, AnsweredOnce, Busy
  <2>2. CASE t # s
    <3>1. LeaseOf(turn[t]) # LeaseOf(turn[s])
      BY <1>1, <1>3, <1>7, <2>2 DEF LeaseInv, LeasesDiffer, Busy
    <3>. QED BY <1>3, <1>5, <1>7, <2>2, <3>1 DEF LeaseInv, AnsweredOnce
  <2>. QED BY <2>1, <2>2
<1>. QED BY <1>6, <1>7 DEF AnsweredOnce, LeasesDrawn, Drawn

LEMMA LeaseStep ==
  ASSUME LeaseInv, [TurnNext]_turnVars
  PROVE  LeaseInv'
<1>0. TypeOK /\ TurnTypeOK /\ [Next]_vars BY TurnStepMaps DEF LeaseInv
<1>1. TypeOK' /\ TurnTypeOK' /\ BudgetInv' /\ RowIds'
  BY <1>0, TurnTypeStep, BudgetStep, RowIdsStep DEF LeaseInv
<1>2. ASSUME UNCHANGED turns PROVE LeasesDrawn' /\ LeasesDiffer' /\ AnsweredOnce'
  BY <1>0, <1>2, LeasesGoOn DEF turns, Busy, AnsweredOnce, LeaseInv
<1>3. ASSUME NEW s \in Session, Poll(s)
      PROVE  LeasesDrawn' /\ LeasesDiffer' /\ AnsweredOnce'
  BY <1>1, <1>2, <1>3, PollKeepsLeases DEF Poll, turns
<1>4. ASSUME NEW s \in Session, Turn(s)
      PROVE  LeasesDrawn' /\ LeasesDiffer' /\ AnsweredOnce'
  BY <1>0, <1>4, TurnKeepsLeases
<1>5. LeasesDrawn' /\ LeasesDiffer' /\ AnsweredOnce'
  BY <1>2, <1>3, <1>4 DEF TurnNext, Elsewhere, turnVars
<1>. QED BY <1>1, <1>5 DEF LeaseInv

LEMMA LeaseInit ==
  ASSUME TurnInit
  PROVE  LeaseInv
<1>1. \A s \in Session : turn[s].pc = "idle" BY DEF TurnInit, Idle
<1>2. RowIds BY DEF TurnInit, Init, NoRow, RowIds
<1>3. BudgetInv BY BudgetInit DEF TurnInit
<1>4. LeasesDrawn /\ LeasesDiffer /\ AnsweredOnce
  BY <1>1 DEF TurnInit, LeasesDrawn, LeasesDiffer, AnsweredOnce, Busy
<1>. QED BY <1>2, <1>3, <1>4, TurnTypeInit DEF LeaseInv

LEMMA LeaseAlways == TurnSpec => []LeaseInv
BY LeaseInit, LeaseStep, PTL DEF TurnSpec

\* No lease is answered twice, and none is drawn beyond the attempts of its message:
\* the extension replies at most once under a lease, and leaseInbound never draws a
\* lease again.
THEOREM AnswersAreFew == TurnSpec => []AnsweredOnce
BY LeaseAlways, PTL DEF LeaseInv

\* At most one turn of a route is under a lease that still counts: a lapsed lease
\* that was handed on, to whatever session, supersedes the turn it was given to.
THEOREM OneHolderPerRoute == TurnSpec => []SoleHolder
<1>1. LeaseInv /\ OrderInv => SoleHolder
  <2>. SUFFICES ASSUME LeaseInv, OrderInv, NEW s \in Session, NEW t \in Session,
                       Current(s), Current(t), turn[s].msg[1] = turn[t].msg[1]
                PROVE  s = t
    BY DEF SoleHolder
  <2>. DEFINE m == turn[s].msg
              k == turn[t].msg
  <2>1. Busy(s) /\ Busy(t) /\ m \in Message /\ k \in Message
    BY DEF Current, Busy, LeaseInv, TurnTypeOK
  <2>2. /\ inbox[m].status = "leased" /\ inbox[m].tries > 0
        /\ inbox[k].status = "leased" /\ inbox[k].tries > 0
    BY <2>1 DEF Current, LeaseOf, LeaseInv, LeasesDrawn, Drawn, BudgetInv
  <2>3. CASE m = k BY <2>1, <2>3 DEF Current, LeaseInv, LeasesDiffer
  <2>4. CASE m # k
    <3>1. PICK r \in Route : m \in OnRoute(r) /\ k \in OnRoute(r)
      BY <2>1 DEF OnRoute, Message
    <3>2. inbox[m].seq # inbox[k].seq
      BY <2>2, <2>4, <3>1 DEF OrderInv, TicketsUnique
    <3>3. inbox[m].seq \in Nat /\ inbox[k].seq \in Nat
      BY <2>1 DEF OrderInv, TypeOK, Row
    <3>4. ~(inbox[k].seq < inbox[m].seq) /\ ~(inbox[m].seq < inbox[k].seq)
      BY <2>2, <3>1 DEF OrderInv, FifoPerRoute, Outstanding
    <3>. QED BY <3>2, <3>3, <3>4
  <2>. QED BY <2>3, <2>4
<1>. QED BY <1>1, LeaseAlways, OrderAlways, TurnsImplementPipeline, PTL
----------------------------------------------------------------------------
(* Completion. *)

\* No step but an extension's ends a lease or completes a message.
LEMMA ElsewhereKeeps ==
  ASSUME TypeOK, Elsewhere, NEW m \in Message
  PROVE  /\ inbox[m].status = "leased" => inbox'[m].status = "leased"
         /\ inbox'[m].status = "completed" => inbox'[m] = inbox[m]
<1>0. inbox[m] \in Row BY DEF TypeOK
<1>1. CASE \E d \in Daemon : Life(d) \/ Ingress(d) \/ Admin(d)
  BY <1>1 DEF Life, Start, Renew, Close, Crash, Gone, Ingress, Reserve, RejectReclaim,
              Admin, Bind, SetPolicy
<1>2. CASE \E d \in Daemon : Cleanup(d)
  BY <1>2 DEF Cleanup, Purgeable, Terminal, NoRow
<1>3. CASE Resume
  <2>1. PICK t \in tasks : \/ Finalize(t) \/ FinalizeControl(t)
                           \/ FailMaterialization(t) \/ Superseded(t)
    BY <1>3 DEF Resume
  <2>2. t.msg \in Message BY <2>1 DEF TypeOK, Task
  <2>3. ASSUME NEW status \in {"pending", "control"}, Insert(t.msg, status),
               ~InsertIgnored(t.msg)
        PROVE  /\ inbox[m].status = "leased" => inbox'[m].status = "leased"
               /\ inbox'[m].status = "completed" => inbox'[m] = inbox[m]
    BY <2>2, <2>3 DEF Insert, InsertIgnored, TypeOK
  <2>. QED
    BY <2>1, <2>3 DEF Finalize, FinalizeControl, FailMaterialization, Superseded
<1>4. CASE Time
  BY <1>0, <1>4 DEF Time, OwnershipLapses, ReservationLapses, RowFallsDue, LeavesRateWindow,
                    TypeOK, Row
<1>. QED BY <1>1, <1>2, <1>3, <1>4 DEF Elsewhere

\* A poll recovers lapsed leases only and completes nothing.
LEMMA LeaseKeeps ==
  ASSUME TypeOK, NEW d, NEW s, Lease(d, s), NEW m \in Message
  PROVE  /\ inbox[m].status = "leased" /\ ~inbox[m].due => inbox'[m].status = "leased"
         /\ inbox'[m].status = "completed" => inbox'[m] = inbox[m]
<1>1. Recovered \in [Message -> Row] BY RecoveredFacts DEF TypeOK
<1>2. /\ inbox[m].status = "leased" /\ ~inbox[m].due => Recovered[m] = inbox[m]
      /\ Recovered[m].status = "completed" => Recovered[m] = inbox[m]
  <2>1. inbox[m] \in Row BY DEF TypeOK
  <2>2. Ended(inbox[m], "failed").status = "failed" BY <2>1, EndedType DEF Terminal
  <2>3. Retried(inbox[m]).status = "retry_wait" BY <2>1, RetriedType
  <2>. QED BY <2>2, <2>3 DEF Recovered
<1>3. CASE inbox' = Recovered BY <1>2, <1>3
<1>4. ASSUME NEW k \in Message, inbox' = [Recovered EXCEPT ![k] = Leased(@)]
      PROVE  /\ inbox[m].status = "leased" /\ ~inbox[m].due => inbox'[m].status = "leased"
             /\ inbox'[m].status = "completed" => inbox'[m] = inbox[m]
  <2>1. Leased(Recovered[k]).status = "leased" BY <1>1, LeasedType
  <2>. QED BY <1>1, <1>2, <1>4, <2>1
<1>. QED BY <1>3, <1>4 DEF Lease, Ready

\* What a carried-out completion or report makes of the rows.
LEMMA CallEnds ==
  ASSUME TypeOK, TurnTypeOK, NEW s \in Session, Completes(s) \/ Fails(s)
  PROVE  /\ Current(s) /\ turn[s].msg \in Message
         /\ \A m \in Message : m # turn[s].msg => inbox'[m] = inbox[m]
         /\ inbox'[turn[s].msg].id = inbox[turn[s].msg].id
         /\ inbox'[turn[s].msg].tries = inbox[turn[s].msg].tries
         /\ Fails(s) => inbox'[turn[s].msg].status # "completed"
<1>. DEFINE m == turn[s].msg
<1>1. Current(s) /\ m \in Message BY DEF Completes, Fails, Current, TurnTypeOK
<1>2. inbox[m] \in Row BY <1>1 DEF TypeOK
<1>3. ASSUME NEW d \in Daemon, Complete(d, m)
      PROVE  /\ \A k \in Message : k # m => inbox'[k] = inbox[k]
             /\ inbox'[m].id = inbox[m].id /\ inbox'[m].tries = inbox[m].tries
  BY <1>1, <1>2, <1>3, EndedType DEF Complete, TypeOK, Terminal
<1>4. ASSUME NEW d \in Daemon, Retry(d, m)
      PROVE  /\ \A k \in Message : k # m => inbox'[k] = inbox[k]
             /\ inbox'[m].id = inbox[m].id /\ inbox'[m].tries = inbox[m].tries
             /\ inbox'[m].status = "retry_wait"
  BY <1>1, <1>2, <1>4, RetriedType DEF Retry, TypeOK
<1>. QED BY <1>1, <1>3, <1>4 DEF Completes, Fails

\* A turn is about to complete only after its answer.
AnswerInv ==
  /\ TypeOK /\ TurnTypeOK /\ CompletedIsAnswered
  /\ \A s \in Session : turn[s].pc = "complete" => LeaseOf(turn[s]) \in answered

LEMMA AnswerStep ==
  ASSUME AnswerInv, [TurnNext]_turnVars
  PROVE  AnswerInv'
<1>. DEFINE Pending == \A s \in Session : turn[s].pc = "complete" => LeaseOf(turn[s]) \in answered
<1>0. TypeOK /\ TurnTypeOK BY DEF AnswerInv
<1>1. TypeOK' /\ TurnTypeOK' BY <1>0, TurnTypeStep
<1>2. ASSUME \A m \in Message : inbox'[m].status = "completed" => inbox'[m] = inbox[m],
             answered \subseteq answered'
      PROVE  CompletedIsAnswered'
  BY <1>2 DEF AnswerInv, CompletedIsAnswered
<1>3. ASSUME NEW s \in Session, Poll(s) PROVE CompletedIsAnswered' /\ Pending'
  <2>1. CompletedIsAnswered' BY <1>0, <1>2, <1>3, LeaseKeeps DEF Poll
  <2>2. CASE UNCHANGED turn BY <1>3, <2>1, <2>2 DEF Poll, AnswerInv
  <2>3. ASSUME NEW m \in Message, turn' = [turn EXCEPT ![s] = Work(m, inbox'[m])]
        PROVE  Pending'
    BY <1>0, <1>3, <2>3 DEF Poll, Work, TurnTypeOK, AnswerInv
  <2>. QED BY <1>3, <2>1, <2>2, <2>3 DEF Poll
<1>4. ASSUME NEW s \in Session, Turn(s) PROVE CompletedIsAnswered' /\ Pending'
  <2>1. ASSUME NEW pc \in Label, Goto(s, pc), answered \subseteq answered',
               pc = "complete" => LeaseOf(turn[s]) \in answered'
        PROVE  Pending'
    BY <1>0, <2>1 DEF Goto, TurnTypeOK, LeaseOf, AnswerInv
  <2>2. ASSUME EndTurn(s), answered' = answered PROVE Pending'
    BY <1>0, <2>2 DEF EndTurn, Idle, TurnTypeOK, AnswerInv
  <2>3. ASSUME UNCHANGED vars, answered \subseteq answered' PROVE CompletedIsAnswered'
    BY <1>2, <2>3 DEF vars
  <2>4. CASE Check(s)
    <3>1. CASE turn' = [turn EXCEPT ![s].pc = "fail", ![s].retry = FALSE]
      BY <1>0, <2>3, <2>4, <3>1 DEF Check, TurnTypeOK, LeaseOf, AnswerInv
    <3>. QED BY <2>1, <2>3, <2>4, <3>1 DEF Check, Label
  <2>5. CASE Prompt(s) BY <2>1, <2>3, <2>5 DEF Prompt, Label
  <2>6. CASE Reply(s) BY <2>1, <2>3, <2>6 DEF Reply, Label
  <2>7. CASE Conclude(s)
    <3>1. CompletedIsAnswered'
      <4>1. CASE Completes(s)
        BY <1>0, <2>7, <4>1, CallEnds DEF Conclude, AnswerInv, CompletedIsAnswered, Current, LeaseOf
      <4>. QED BY <2>3, <2>7, <4>1 DEF Conclude
    <3>. QED BY <2>1, <2>2, <2>7, <3>1 DEF Conclude, Label
  <2>8. CASE Report(s)
    <3>1. CompletedIsAnswered'
      <4>1. CASE Fails(s)
        BY <1>0, <1>2, <2>8, <4>1, CallEnds DEF Report
      <4>. QED BY <2>3, <2>8, <4>1 DEF Report
    <3>. QED BY <2>2, <2>8, <3>1 DEF Report
  <2>9. CASE Reload(s) BY <2>2, <2>3, <2>9 DEF Reload
  <2>. QED BY <1>4, <2>4, <2>5, <2>6, <2>7, <2>8, <2>9 DEF Turn
<1>5. ASSUME Elsewhere PROVE CompletedIsAnswered' /\ Pending'
  BY <1>0, <1>2, <1>5, ElsewhereKeeps DEF Elsewhere, turns, AnswerInv
<1>6. ASSUME UNCHANGED turnVars PROVE CompletedIsAnswered' /\ Pending'
  BY <1>6 DEF turnVars, turns, vars, AnswerInv, CompletedIsAnswered
<1>7. CompletedIsAnswered' /\ Pending' BY <1>3, <1>4, <1>5, <1>6 DEF TurnNext
<1>. QED BY <1>1, <1>7 DEF AnswerInv

\* A message is completed only under a lease whose turn was answered, whatever was
\* lost, repeated or superseded before (processInboundTurn replies first).
THEOREM CompletedWasAnswered == TurnSpec => []CompletedIsAnswered
<1>1. TurnInit => AnswerInv
  <2>. SUFFICES ASSUME TurnInit PROVE AnswerInv OBVIOUS
  <2>1. \A s \in Session : turn[s].pc = "idle" BY DEF TurnInit, Idle
  <2>2. CompletedIsAnswered BY DEF TurnInit, Init, NoRow, CompletedIsAnswered
  <2>. QED BY <2>1, <2>2, TurnTypeInit DEF AnswerInv
<1>2. AnswerInv /\ [TurnNext]_turnVars => AnswerInv' BY AnswerStep
<1>3. AnswerInv => CompletedIsAnswered BY DEF AnswerInv
<1>. QED BY <1>1, <1>2, <1>3, PTL DEF TurnSpec

\* A lease is ended by the turn that holds it or by its lapse: the late completion of
\* a superseded turn changes nothing (completeInbound's lease_id = ?).
THEOREM OnlyHolderEndsLease == TurnSpec => LeaseEndsByHolder
<1>1. ASSUME TypeOK, TurnTypeOK, [TurnNext]_turnVars, NEW m \in Message,
             inbox[m].status = "leased", inbox'[m].status # "leased", ~inbox[m].due
      PROVE  \E s \in Session : turn[s].msg = m /\ Current(s) /\ turn' # turn
  <2>1. ASSUME NEW s \in Session, Poll(s) PROVE FALSE
    BY <1>1, <2>1, LeaseKeeps DEF Poll
  <2>2. CASE Elsewhere \/ UNCHANGED turnVars
    BY <1>1, <2>2, ElsewhereKeeps DEF turnVars, vars
  <2>3. ASSUME NEW s \in Session, Turn(s)
        PROVE  turn[s].msg = m /\ Current(s) /\ turn' # turn
    <3>1. ~UNCHANGED vars BY <1>1 DEF vars
    <3>2. \/ Completes(s) /\ turn[s].pc = "complete"
          \/ Fails(s) /\ turn[s].pc = "fail"
      BY <2>3, <3>1 DEF Turn, Check, Prompt, Reply, Conclude, Report, Reload
    <3>3. turn[s].msg = m /\ Current(s) BY <1>1, <3>2, CallEnds
    <3>4. turn'[s].pc # turn[s].pc
      BY <1>1, <2>3, <3>1, <3>2 DEF Turn, Check, Prompt, Reply, Conclude, Report, Reload, Goto,
                                    EndTurn, Idle, TurnTypeOK
    <3>. QED BY <3>3, <3>4
  <2>. QED BY <1>1, <2>1, <2>2, <2>3 DEF TurnNext
<1>2. TypeOK /\ TurnTypeOK /\ [TurnNext]_turnVars =>
        [\A m \in Message :
           inbox[m].status = "leased" /\ inbox'[m].status # "leased" =>
             inbox[m].due \/ \E s \in Session : turn[s].msg = m /\ Current(s) /\ turn' # turn]_turnVars
  BY <1>1
<1>. QED BY <1>2, TurnTypeInit, TurnTypeStep, PTL DEF TurnSpec, LeaseEndsByHolder
----------------------------------------------------------------------------
(* Context tokens.  That outstanding rows have a token is not inductive.  A  *)
(* row comes from a reservation whose call stored the token some time        *)
(* before, and the sweep may have run since: what it must not have done is   *)
(* to take the token of a reservation whose current call has stored it.  The *)
(* sweep spares reservations of bound routes only, and every reserved route  *)
(* is bound; and a reservation that was reclaimed carries a new id, which no *)
(* earlier call has.                                                         *)

\* Calls under way have ids that were handed out before.
RidsIssued == \A t \in tasks : t.rid < nextRid

ReservedBound ==
  \A m \in Message : admission[m].disp = "reserved" => binding[m[1]] # None

\* The token of a reservation whose current call has stored it.
StoredKept ==
  \A t \in stored :
    admission[t.msg].disp = "reserved" /\ admission[t.msg].rid = t.rid
      => context[t.msg[1]] # "none"

OutstandingKept ==
  \A m \in Message : inbox[m].status \in Outstanding => context[m[1]] # "none"

ContextInv ==
  /\ TypeOK /\ ContextTypeOK /\ RidsIssued
  /\ ReservedBound /\ StoredKept /\ OutstandingKept

----------------------------------------------------------------------------
(* Implementing the pipeline. *)

LEMMA ContextStepMaps ==
  ASSUME [ContextNext]_contextVars
  PROVE  [Next]_vars
<1>1. ASSUME NEW t \in tasks, StoreContext(t) PROVE UNCHANGED vars
  BY <1>1 DEF StoreContext
<1>2. ASSUME NEW r \in Route, ContextExpires(r) PROVE UNCHANGED vars
  BY <1>2 DEF ContextExpires
<1>3. ASSUME NEW d \in Daemon, Sweep(d) PROVE Next
  BY <1>3 DEF Sweep, Next
<1>4. ASSUME Around PROVE Next
  <2>1. ResumeStored => Resume BY DEF ResumeStored, Resume
  <2>. QED BY <1>4, <2>1 DEF Around, Next
<1>5. CASE UNCHANGED contextVars BY <1>5 DEF contextVars
<1>. QED BY <1>1, <1>2, <1>3, <1>4, <1>5 DEF ContextNext

\* Every behaviour with context tokens is one of the pipeline, so that whatever is
\* proved of the pipeline holds of it too (gateway.ts onInbound, store.ts cleanup).
THEOREM ContextImplementsPipeline == ContextSpec => Spec
<1>1. ContextInit => Init BY DEF ContextInit
<1>. QED BY <1>1, ContextStepMaps, PTL DEF ContextSpec, Spec

----------------------------------------------------------------------------
(* What a step of the pipeline may do to what tokens depend on. *)

KeepsReservations ==
  \A m \in Message :
    admission'[m].disp = "reserved" =>
      admission[m].disp = "reserved" /\ admission'[m].rid = admission[m].rid

Follows ==
  /\ \A m \in Message :
       admission'[m].disp = "reserved" =>
         \/ admission[m].disp = "reserved" /\ admission'[m].rid = admission[m].rid
         \/ admission'[m].rid = nextRid /\ binding[m[1]] # None
  /\ \A m \in Message :
       inbox'[m].status \in Outstanding =>
         \/ inbox[m].status \in Outstanding
         \/ \E t \in stored : t.msg = m /\ Valid(t)
  /\ \A t \in tasks' : t \in tasks \/ (t.rid = nextRid /\ nextRid' = nextRid + 1)
  /\ nextRid <= nextRid'
  /\ \A r \in Route : binding[r] # None => binding'[r] # None

LEMMA LiftedReservations ==
  ASSUME TypeOK, NEW E \in BarrierBatches
  PROVE  \A m \in Message :
           Lifted(E)[m].disp = "reserved" =>
             admission[m].disp = "reserved" /\ Lifted(E)[m].rid = admission[m].rid
<1>1. \A m \in Message : admission[m] \in Admission BY DEF TypeOK
<1>2. ASSUME NEW m \in Message, m \in E
      PROVE  Lifted(E)[m].disp = "materialization_failed"
  BY <1>1, <1>2, SettledType DEF Lifted, Disposition
<1>3. ASSUME NEW m \in Message, m \notin E PROVE Lifted(E)[m] = admission[m]
  BY <1>3 DEF Lifted
<1>. QED BY <1>2, <1>3

LEMMA SettleKeeps ==
  ASSUME TypeOK, NEW m \in Message, NEW disp \in Disposition, disp # "reserved",
         admission' = [admission EXCEPT ![m] = Settled(@, disp)]
  PROVE  KeepsReservations
<1>1. Settled(admission[m], disp).disp = disp BY SettledType DEF TypeOK
<1>. QED BY <1>1 DEF KeepsReservations, TypeOK

\* Steps that reserve nothing and queue nothing.
LEMMA QuietFollows ==
  ASSUME TypeOK, KeepsReservations,
         \A m \in Message : inbox'[m].status \in Outstanding => inbox[m].status \in Outstanding,
         tasks' \subseteq tasks, nextRid' = nextRid,
         \A r \in Route : binding[r] # None => binding'[r] # None
  PROVE  Follows
<1>1. nextRid <= nextRid' BY DEF TypeOK
<1>. QED BY <1>1 DEF Follows, KeepsReservations

LEMMA CleanupFollows ==
  ASSUME TypeOK, NEW d, Cleanup(d)
  PROVE  Follows /\ KeepsReservations
<1>1. PICK E \in BarrierBatches, R \in SUBSET Purgeable,
           S \in SUBSET {m \in Message : admission[m].disp \notin {"none", "reserved"}} :
        /\ inbox' = [m \in Message |-> IF m \in R THEN NoRow ELSE inbox[m]]
        /\ admission' = [m \in Message |-> IF m \in S THEN NoAdmission ELSE Lifted(E)[m]]
  BY DEF Cleanup
<1>2. KeepsReservations
  BY <1>1, LiftedReservations DEF KeepsReservations, NoAdmission
<1>3. \A m \in Message : inbox'[m].status \in Outstanding => inbox[m].status \in Outstanding
  BY <1>1 DEF NoRow, Outstanding
<1>. QED BY <1>2, <1>3, QuietFollows DEF Cleanup, counters, policy

LEMMA LeaseFollows ==
  ASSUME TypeOK, NEW d, NEW s, Lease(d, s)
  PROVE  Follows
<1>1. PICK E \in BarrierBatches :
        /\ admission' = Lifted(E)
        /\ \/ inbox' = Recovered
           \/ \E p \in Ready(Lifted(E), Recovered, s) :
                inbox' = [Recovered EXCEPT ![p] = Leased(@)]
  BY DEF Lease
<1>2. KeepsReservations BY <1>1, LiftedReservations DEF KeepsReservations
<1>3. Recovered \in [Message -> Row] BY RecoveredFacts DEF TypeOK
<1>4. ASSUME NEW m \in Message, inbox'[m].status \in Outstanding
      PROVE  inbox[m].status \in Outstanding
  <2>1. CASE inbox'[m] = Recovered[m]
    BY <1>4, <2>1, RecoveredFacts DEF TypeOK
  <2>2. ASSUME NEW p \in Ready(Lifted(E), Recovered, s),
               inbox' = [Recovered EXCEPT ![p] = Leased(@)]
        PROVE  inbox[m].status \in Outstanding
    <3>1. p \in Message /\ Recovered[p].status \in Outstanding BY DEF Ready, Outstanding
    <3>2. m # p => inbox'[m] = Recovered[m] BY <1>3, <2>2
    <3>. QED BY <2>1, <3>1, <3>2, RecoveredFacts DEF TypeOK
  <2>. QED BY <1>1, <2>1, <2>2
<1>. QED BY <1>2, <1>4, QuietFollows DEF Lease, counters, policy

LEMMA ResumeFollows ==
  ASSUME TypeOK, ContextTypeOK, ResumeStored
  PROVE  Follows
<1>1. PICK t \in tasks : \/ t \in stored /\ (Finalize(t) \/ FinalizeControl(t))
                         \/ FailMaterialization(t) \/ Superseded(t)
  BY DEF ResumeStored
<1>2. t.msg \in Message BY <1>1 DEF TypeOK, Task
<1>3. ASSUME NEW disp \in {"accepted", "control", "materialization_failed"}, Finish(t, disp)
      PROVE  /\ KeepsReservations /\ tasks' \subseteq tasks /\ nextRid' = nextRid
             /\ binding' = binding
  <2>1. disp \in Disposition /\ disp # "reserved" BY DEF Disposition
  <2>. QED BY <1>2, <1>3, <2>1, SettleKeeps DEF Finish, policy
<1>4. ASSUME NEW status \in {"pending", "control"}, Insert(t.msg, status), t \in stored,
             Valid(t), NEW m \in Message, inbox'[m].status \in Outstanding
      PROVE  inbox[m].status \in Outstanding \/ (t.msg = m /\ Valid(t))
  BY <1>4 DEF Insert, TypeOK
<1>5. ASSUME NEW disp \in {"accepted", "control", "materialization_failed"}, Finish(t, disp),
             \/ UNCHANGED inbox
             \/ t \in stored /\ Valid(t) /\ \E st \in {"pending", "control"} : Insert(t.msg, st)
      PROVE  Follows
  <2>1. \A m \in Message : inbox'[m].status \in Outstanding =>
          inbox[m].status \in Outstanding \/ \E u \in stored : u.msg = m /\ Valid(u)
    BY <1>4, <1>5
  <2>2. nextRid <= nextRid' BY <1>3, <1>5 DEF TypeOK
  <2>. QED BY <1>3, <1>5, <2>1, <2>2 DEF Follows, KeepsReservations
<1>6. CASE t \in stored /\ Finalize(t)
  BY <1>5, <1>6 DEF Finalize
<1>7. CASE t \in stored /\ FinalizeControl(t)
  BY <1>5, <1>7 DEF FinalizeControl
<1>8. CASE FailMaterialization(t) BY <1>5, <1>8 DEF FailMaterialization
<1>9. CASE Superseded(t)
  <2>1. KeepsReservations BY <1>9 DEF Superseded, KeepsReservations
  <2>. QED BY <1>9, <2>1, QuietFollows DEF Superseded, counters, policy
<1>. QED BY <1>1, <1>6, <1>7, <1>8, <1>9

LEMMA IngressFollows ==
  ASSUME TypeOK, NEW d \in Daemon, Ingress(d)
  PROVE  Follows
<1>1. ASSUME NEW m \in Message, Reserve(d, m) PROVE Follows
  <2>1. /\ binding[m[1]] # None
        /\ admission'[m].rid = nextRid
        /\ \A k \in Message : k # m => admission'[k] = admission[k]
    BY <1>1 DEF Reserve, Refused, TypeOK
  <2>2. /\ \A t \in tasks' : t \in tasks \/ t.rid = nextRid
        /\ nextRid' = nextRid + 1 /\ inbox' = inbox /\ binding' = binding
    BY <1>1 DEF Reserve, policy
  <2>3. nextRid <= nextRid' BY <2>2 DEF TypeOK
  <2>. QED BY <2>1, <2>2, <2>3 DEF Follows
<1>2. ASSUME NEW m \in Message, RejectReclaim(d, m) PROVE Follows
  <2>1. KeepsReservations BY <1>2, SettleKeeps DEF RejectReclaim, Disposition
  <2>. QED BY <1>2, <2>1, QuietFollows DEF RejectReclaim, counters, policy
<1>. QED BY <1>1, <1>2 DEF Ingress

LEMMA ExtensionFollows ==
  ASSUME TypeOK, NEW d \in Daemon, Extension(d)
  PROVE  Follows
<1>1. ASSUME NEW m \in Message, inbox[m].status = "leased", NEW row,
             inbox' = [inbox EXCEPT ![m] = row],
             UNCHANGED <<policy, admission, counters, tasks>>
      PROVE  Follows
  <2>1. \A k \in Message : inbox'[k].status \in Outstanding => inbox[k].status \in Outstanding
    BY <1>1 DEF TypeOK, Outstanding
  <2>2. KeepsReservations BY <1>1 DEF KeepsReservations
  <2>. QED BY <1>1, <2>1, <2>2, QuietFollows DEF counters, policy
<1>2. ASSUME NEW m \in Message, Complete(d, m) PROVE Follows
  BY <1>1, <1>2 DEF Complete
<1>3. ASSUME NEW m \in Message, Retry(d, m) PROVE Follows
  BY <1>1, <1>3 DEF Retry
<1>. QED BY <1>2, <1>3, LeaseFollows DEF Extension

LEMMA TimeFollows ==
  ASSUME TypeOK, Time
  PROVE  Follows
<1>1. CASE OwnershipLapses
  <2>1. KeepsReservations BY <1>1 DEF OwnershipLapses, KeepsReservations
  <2>. QED BY <1>1, <2>1, QuietFollows DEF OwnershipLapses, counters, policy
<1>2. ASSUME NEW m \in Message, ReservationLapses(m) PROVE Follows
  <2>1. KeepsReservations
    BY <1>2 DEF ReservationLapses, KeepsReservations, TypeOK, Admission
  <2>. QED BY <1>2, <2>1, QuietFollows DEF ReservationLapses, counters, policy
<1>3. ASSUME NEW m \in Message, RowFallsDue(m) PROVE Follows
  <2>1. \A k \in Message : inbox'[k].status = inbox[k].status
    BY <1>3 DEF RowFallsDue, TypeOK, Row
  <2>2. KeepsReservations BY <1>3 DEF RowFallsDue, KeepsReservations
  <2>. QED BY <1>3, <2>1, <2>2, QuietFollows DEF RowFallsDue, counters, policy
<1>4. ASSUME NEW m \in Message, LeavesRateWindow(m) PROVE Follows
  <2>1. KeepsReservations BY <1>4 DEF LeavesRateWindow, KeepsReservations
  <2>. QED BY <1>4, <2>1, QuietFollows DEF LeavesRateWindow, counters, policy
<1>. QED BY <1>1, <1>2, <1>3, <1>4 DEF Time

LEMMA AroundFollows ==
  ASSUME TypeOK, ContextTypeOK, Around
  PROVE  Follows
<1>1. ASSUME NEW d \in Daemon, Life(d) PROVE Follows
  <2>1. /\ UNCHANGED <<policy, admission, inbox, counters>> /\ tasks' \subseteq tasks
    BY <1>1 DEF Life, Start, Renew, Close, Crash, Gone
  <2>2. KeepsReservations BY <2>1 DEF KeepsReservations
  <2>. QED BY <2>1, <2>2, QuietFollows DEF counters, policy
<1>2. ASSUME NEW d \in Daemon, Admin(d) PROVE Follows
  <2>1. /\ UNCHANGED <<admission, inbox, counters, tasks>>
        /\ \A r \in Route : binding[r] # None => binding'[r] # None
    BY <1>2, PipelineConstants DEF Admin, Bind, SetPolicy, TypeOK
  <2>2. KeepsReservations BY <2>1 DEF KeepsReservations
  <2>. QED BY <2>1, <2>2, QuietFollows DEF counters
<1>. QED
  BY <1>1, <1>2, IngressFollows, ExtensionFollows, ResumeFollows, TimeFollows DEF Around

----------------------------------------------------------------------------
(* The invariant. *)

\* What holds of ids, bindings and rows after a step, whatever becomes of tokens.
LEMMA FollowsKeeps ==
  ASSUME ContextInv, Follows, TypeOK'
  PROVE  /\ RidsIssued' /\ ReservedBound'
         /\ \A t \in stored :
              admission'[t.msg].disp = "reserved" /\ admission'[t.msg].rid = t.rid
                => /\ admission[t.msg].disp = "reserved" /\ admission[t.msg].rid = t.rid
                   /\ context[t.msg[1]] # "none"
         /\ \A m \in Message :
              inbox'[m].status \in Outstanding => context[m[1]] # "none"
<1>. USE DEF ContextInv
<1>1. stored \subseteq tasks /\ \A t \in stored : t.msg \in Message /\ t.rid \in Nat
  BY DEF ContextTypeOK, TypeOK, Task
<1>2. nextRid \in Nat /\ nextRid' \in Nat /\ \A t \in tasks : t.rid \in Nat
  BY DEF TypeOK, Task
<1>3. RidsIssued' BY <1>2 DEF RidsIssued, Follows
<1>4. ReservedBound'
  <2>1. ASSUME NEW m \in Message, admission'[m].disp = "reserved"
        PROVE  binding'[m[1]] # None
    <3>1. m[1] \in Route BY DEF Message
    <3>2. binding[m[1]] # None BY <2>1 DEF Follows, ReservedBound
    <3>. QED BY <3>1, <3>2 DEF Follows
  <2>. QED BY <2>1 DEF ReservedBound
<1>5. ASSUME NEW t \in stored,
             admission'[t.msg].disp = "reserved" /\ admission'[t.msg].rid = t.rid
      PROVE  /\ admission[t.msg].disp = "reserved" /\ admission[t.msg].rid = t.rid
             /\ context[t.msg[1]] # "none"
  <2>1. t.rid # nextRid BY <1>1, <1>2 DEF RidsIssued
  <2>2. admission[t.msg].disp = "reserved" /\ admission[t.msg].rid = t.rid
    BY <1>1, <1>5, <2>1 DEF Follows
  <2>. QED BY <2>2 DEF StoredKept
<1>6. ASSUME NEW m \in Message, inbox'[m].status \in Outstanding
      PROVE  context[m[1]] # "none"
  <2>1. CASE inbox[m].status \in Outstanding BY <2>1 DEF OutstandingKept
  <2>2. ASSUME NEW t \in stored, t.msg = m, Valid(t) PROVE context[m[1]] # "none"
    BY <2>2 DEF Valid, LiveReservation, StoredKept
  <2>. QED BY <1>6, <2>1, <2>2 DEF Follows
<1>. QED BY <1>3, <1>4, <1>5, <1>6

LEMMA AroundKeepsContext ==
  ASSUME ContextInv, TypeOK', Around
  PROVE  ContextInv'
<1>1. Follows BY AroundFollows DEF ContextInv
<1>2. stored' = stored \cap tasks' /\ context' = context BY DEF Around
<1>3. ContextTypeOK' BY <1>2 DEF ContextInv, ContextTypeOK
<1>4. StoredKept' BY <1>1, <1>2, FollowsKeeps DEF StoredKept
<1>5. OutstandingKept' BY <1>1, <1>2, FollowsKeeps DEF OutstandingKept
<1>. QED BY <1>1, <1>3, <1>4, <1>5, FollowsKeeps DEF ContextInv

LEMMA SweepKeepsContext ==
  ASSUME ContextInv, TypeOK', NEW d \in Daemon, Sweep(d)
  PROVE  ContextInv'
<1>1. Cleanup(d) /\ stored' = stored /\ tasks' = tasks BY DEF Sweep, Cleanup
<1>2. Follows BY <1>1, CleanupFollows DEF ContextInv
<1>3. PICK F \in SUBSET Forgettable :
        context' = [r \in Route |-> IF r \in F THEN "none" ELSE context[r]]
  BY DEF Sweep
<1>4. ContextTypeOK' BY <1>1, <1>3 DEF ContextInv, ContextTypeOK, ContextState
<1>5. ASSUME NEW m \in Message, Dependency(m[1])', context[m[1]] # "none"
      PROVE  context'[m[1]] # "none"
  <2>1. m[1] \in Route BY DEF Message
  <2>2. m[1] \notin F BY <1>5, <2>1 DEF Forgettable
  <2>. QED BY <1>3, <1>5, <2>1, <2>2
<1>6. \A m \in Message : m \in OnRoute(m[1]) BY DEF OnRoute
<1>7. StoredKept'
  <2>. SUFFICES ASSUME NEW t \in stored, admission'[t.msg].disp = "reserved",
                       admission'[t.msg].rid = t.rid
                PROVE  context'[t.msg[1]] # "none"
    BY <1>1 DEF StoredKept
  <2>1. t.msg \in Message BY DEF ContextInv, ContextTypeOK, TypeOK, Task
  <2>2. context[t.msg[1]] # "none" BY <1>2, FollowsKeeps
  <2>3. binding'[t.msg[1]] # None BY <1>2, <2>1, FollowsKeeps DEF ReservedBound
  <2>4. Dependency(t.msg[1])'
    BY <1>6, <2>1, <2>3 DEF Dependency, OnRoute
  <2>. QED BY <1>5, <2>1, <2>2, <2>4
<1>8. OutstandingKept'
  <2>. SUFFICES ASSUME NEW m \in Message, inbox'[m].status \in Outstanding
                PROVE  context'[m[1]] # "none"
    BY DEF OutstandingKept
  <2>1. Dependency(m[1])' BY <1>6 DEF Dependency, OnRoute
  <2>. QED BY <1>2, <1>5, <2>1, FollowsKeeps
<1>. QED BY <1>2, <1>4, <1>7, <1>8, FollowsKeeps DEF ContextInv

LEMMA StoreKeepsContext ==
  ASSUME ContextInv, NEW t \in tasks, StoreContext(t)
  PROVE  ContextInv'
<1>1. /\ UNCHANGED vars /\ stored' = stored \cup {t}
      /\ context' = [context EXCEPT ![t.msg[1]] = "fresh"]
  BY DEF StoreContext
<1>2. UNCHANGED <<binding, admission, inbox, nextRid, tasks>>
  BY <1>1 DEF vars, policy, counters
<1>3. t.msg \in Message /\ t.msg[1] \in Route BY DEF ContextInv, TypeOK, Task, Message
<1>4. context \in [Route -> ContextState] BY DEF ContextInv, ContextTypeOK
<1>5. \A m \in Message : m[1] \in Route BY DEF Message
<1>6. \A m \in Message : context[m[1]] # "none" => context'[m[1]] # "none"
  BY <1>1, <1>3, <1>4, <1>5
<1>7. TypeOK' BY <1>1, TypeStep DEF ContextInv
<1>8. ContextTypeOK' BY <1>1, <1>2, <1>4 DEF ContextTypeOK, ContextState, ContextInv
<1>9. RidsIssued' /\ ReservedBound'
  BY <1>2 DEF ContextInv, RidsIssued, ReservedBound
<1>10. StoredKept'
  <2>1. \A u \in stored : u.msg \in Message
    BY DEF ContextInv, ContextTypeOK, TypeOK, Task
  <2>2. context'[t.msg[1]] = "fresh" BY <1>1, <1>3, <1>4
  <2>. QED BY <1>1, <1>2, <1>6, <2>1, <2>2 DEF ContextInv, StoredKept
<1>11. OutstandingKept' BY <1>2, <1>6 DEF ContextInv, OutstandingKept
<1>. QED BY <1>7, <1>8, <1>9, <1>10, <1>11 DEF ContextInv

LEMMA ExpiryKeepsContext ==
  ASSUME ContextInv, NEW r \in Route, ContextExpires(r)
  PROVE  ContextInv'
<1>1. /\ UNCHANGED vars /\ stored' = stored
      /\ context' = [context EXCEPT ![r] = "expired"] /\ context[r] = "fresh"
  BY DEF ContextExpires
<1>2. UNCHANGED <<binding, admission, inbox, nextRid, tasks>>
  BY <1>1 DEF vars, policy, counters
<1>3. context \in [Route -> ContextState] BY DEF ContextInv, ContextTypeOK
<1>4. \A m \in Message : m[1] \in Route BY DEF Message
<1>5. \A m \in Message : context[m[1]] # "none" => context'[m[1]] # "none"
  BY <1>1, <1>3, <1>4
<1>6. TypeOK' BY <1>1, TypeStep DEF ContextInv
<1>7. ContextTypeOK' BY <1>1, <1>2, <1>3 DEF ContextTypeOK, ContextState, ContextInv
<1>8. RidsIssued' /\ ReservedBound'
  BY <1>2 DEF ContextInv, RidsIssued, ReservedBound
<1>9. \A u \in stored : u.msg \in Message
  BY DEF ContextInv, ContextTypeOK, TypeOK, Task
<1>10. StoredKept' BY <1>1, <1>2, <1>5, <1>9 DEF ContextInv, StoredKept
<1>11. OutstandingKept' BY <1>2, <1>5 DEF ContextInv, OutstandingKept
<1>. QED BY <1>6, <1>7, <1>8, <1>10, <1>11 DEF ContextInv

LEMMA ContextStep ==
  ASSUME ContextInv, [ContextNext]_contextVars
  PROVE  ContextInv'
<1>1. TypeOK' BY ContextStepMaps, TypeStep DEF ContextInv
<1>2. CASE UNCHANGED contextVars
  BY <1>1, <1>2 DEF contextVars, vars, policy, counters, ContextInv, ContextTypeOK,
     RidsIssued, ReservedBound, StoredKept, OutstandingKept
<1>. QED
  BY <1>1, <1>2, AroundKeepsContext, SweepKeepsContext, StoreKeepsContext,
     ExpiryKeepsContext DEF ContextNext

LEMMA ContextInitially ==
  ASSUME ContextInit
  PROVE  ContextInv
<1>1. TypeOK BY TypeInit DEF ContextInit
<1>2. ContextTypeOK BY DEF ContextInit, ContextTypeOK, ContextState
<1>3. RidsIssued /\ StoredKept BY DEF ContextInit, Init, RidsIssued, StoredKept
<1>4. \A m \in Message : admission[m].disp = "none" /\ inbox[m].status = "none"
  BY DEF ContextInit, Init, NoAdmission, NoRow
<1>5. ReservedBound /\ OutstandingKept
  BY <1>4 DEF ReservedBound, OutstandingKept, Outstanding
<1>. QED BY <1>1, <1>2, <1>3, <1>5 DEF ContextInv

LEMMA ContextAlways == ContextSpec => []ContextInv
BY ContextInitially, ContextStep, PTL DEF ContextSpec

\* Tokens keep their states, and only calls under way have stored one.
THEOREM ContextTypes == ContextSpec => []ContextTypeOK
BY ContextAlways, PTL DEF ContextInv

\* A reply to an outstanding message finds its conversation's token, whatever
\* expired, was swept, reclaimed or rebound since the message arrived.
THEOREM RepliesFindContext == ContextSpec => []ReplyFindsContext
<1>1. ContextInv => ReplyFindsContext
  <2>. SUFFICES ASSUME ContextInv, NEW m \in Message, inbox[m].status \in Outstanding
                PROVE  Readable(m[1])
    BY DEF ReplyFindsContext
  <2>1. context[m[1]] # "none" BY DEF ContextInv, OutstandingKept
  <2>2. context[m[1]] \in ContextState
    BY DEF ContextInv, ContextTypeOK, Message
  <2>3. Dependency(m[1]) BY DEF Dependency, OnRoute
  <2>. QED BY <2>1, <2>2, <2>3 DEF Readable, ContextState
<1>. QED BY <1>1, ContextAlways, PTL
================================================================================
