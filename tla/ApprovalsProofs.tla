---------------------------- MODULE ApprovalsProofs ----------------------------
(* Proofs about Approvals: types, whose decision a grant rests on, and that    *)
(* decisions and the expiry are final.                                         *)
EXTENDS Approvals, TLAPS

(* The strengthening.  A row belongs to the operation that created it and that *)
(* alone polls it (Owned, Polls), and its status follows its verdict as long   *)
(* as it has not expired (Follows); a grant leaves its row used up (Granted).  *)
Owned ==
  \A q \in RequestId :
    /\ approval[q].status # "none" =>
         approval[q].op \in Op /\ RequestOf[approval[q].op] = q
    /\ approval[q].status = "none" => approval[q].op = None

Polls ==
  \A o \in Op : handler[o] \in {"show", "poll", "granted"} =>
    RowOf(o).status # "none" /\ RowOf(o).op = o

Decider(q) == verdict[q].by \in {IdentityOf[approval[q].op], Admin}

Follows ==
  \A q \in RequestId :
    /\ approval[q].status \in {"none", "pending"} => verdict[q] = Undecided
    /\ approval[q].status = "approved" => verdict[q].decision = "approved"
    /\ verdict[q] # Undecided => Decider(q)

Granted ==
  \A o \in Op : handler[o] = "granted" =>
    RowOf(o).status = "consumed" /\ verdict[RequestOf[o]].decision = "approved"

ApprovalInv == TypeOK /\ Owned /\ Polls /\ Follows /\ Granted

(* What a consumption leaves of a row and reports of it.                       *)
LEMMA ConsumptionOfRow ==
  ASSUME NEW row, row.status \in {"none", "pending", "consumed"} \cup Decision
  PROVE  /\ Left(row) \in {"none", "pending", "consumed"} \cup Decision
         /\ Left(row) \in {"none", "pending", "approved"} => Left(row) = row.status /\ row.status # "approved"
         /\ row.status # "none" => Left(row) # "none"
         /\ row.status = "consumed" => Left(row) = "consumed"
         /\ Answer(Reported(row)) \in {"granted", "rejected", "poll"}
         /\ Answer(Reported(row)) = "granted" =>
              row.status = "approved" /\ ~row.due /\ Left(row) = "consumed"
BY SMT DEF Left, Reported, Expired, Answer, Decision

LEMMA InitialInv == Init => ApprovalInv
BY ApprovalConstants
   DEF Init, ApprovalInv, TypeOK, Owned, Polls, Follows, Granted, NoRow, Undecided, RowOf, Decider, Label, Decision, Identity

LEMMA AskKeepsInv ==
  ASSUME ApprovalInv, NEW o \in Op, Ask(o)
  PROVE  ApprovalInv'
<1> DEFINE q == RequestOf[o]
           new == [status |-> "pending", op |-> o, due |-> FALSE]
<1>1. q \in RequestId /\ handler[o] = "idle" /\ UNCHANGED <<binding, shown, verdict>>
  BY ApprovalConstants DEF Ask
<1>2. CASE UNCHANGED approval /\ Goto(o, "failed")
  BY <1>1, <1>2, ApprovalConstants
     DEF Goto, ApprovalInv, TypeOK, Owned, Polls, Follows, Granted, RowOf, Decider, Label
<1>3. ASSUME approval[q].status = "none", approval' = [approval EXCEPT ![q] = new],
             NEW pc \in {"show", "failed"}, Goto(o, pc)
      PROVE  ApprovalInv'
  <2>1. /\ new \in [status : {"none", "pending", "consumed"} \cup Decision,
                     op : Op \cup {None}, due : BOOLEAN]
        /\ new.status = "pending" /\ new.op = o
    OBVIOUS
  <2> HIDE DEF new
  <2>2. TypeOK'
    BY <1>1, <1>3, <2>1 DEF ApprovalInv, TypeOK, Goto, Label
  <2>3. Owned'
    BY <1>1, <1>3, <2>1 DEF ApprovalInv, TypeOK, Owned
  <2>4. \A p \in Op : handler[p] \in {"show", "poll", "granted"} => RequestOf[p] # q
    BY <1>3 DEF ApprovalInv, Polls, RowOf
  <2>5. Polls'
    BY <1>1, <1>3, <2>1, <2>4, ApprovalConstants DEF ApprovalInv, TypeOK, Polls, RowOf, Goto
  <2>6. Follows'
    BY <1>1, <1>3, <2>1 DEF ApprovalInv, TypeOK, Follows, Decider
  <2>7. Granted'
    BY <1>1, <1>3, <2>1, <2>4, ApprovalConstants DEF ApprovalInv, TypeOK, Granted, RowOf, Goto
  <2> QED BY <2>2, <2>3, <2>5, <2>6, <2>7 DEF ApprovalInv
<1> QED BY <1>1, <1>2, <1>3 DEF Ask, RowOf

LEMMA ShowKeepsInv ==
  ASSUME ApprovalInv, NEW o \in Op, Show(o)
  PROVE  ApprovalInv'
<1>1. /\ handler[o] = "show" /\ UNCHANGED <<binding, approval, verdict>>
      /\ shown' \in SUBSET Op
      /\ \E pc \in {"poll", "failed"} : handler' = [handler EXCEPT ![o] = pc]
  BY DEF Show, Goto, ApprovalInv, TypeOK
<1>2. TypeOK'
  BY <1>1 DEF ApprovalInv, TypeOK, Label
<1>3. Owned' /\ Follows'
  BY <1>1 DEF ApprovalInv, Owned, Follows, Decider
<1>4. Polls' /\ Granted'
  BY <1>1, ApprovalConstants DEF ApprovalInv, TypeOK, Polls, Granted, RowOf
<1> QED BY <1>2, <1>3, <1>4 DEF ApprovalInv

LEMMA ConsumedKeepsInv ==
  ASSUME ApprovalInv, NEW o \in Op, Consumed(o),
         \/ Goto(o, Answer(Reported(RowOf(o))))
         \/ Goto(o, "failed")
  PROVE  ApprovalInv'
<1> DEFINE q == RequestOf[o]
           row == approval[q]
<1>1. q \in RequestId /\ row.status \in {"none", "pending", "consumed"} \cup Decision
  BY ApprovalConstants DEF ApprovalInv, TypeOK
<1>2. /\ Left(row) \in {"none", "pending", "consumed"} \cup Decision
      /\ Left(row) \in {"none", "pending", "approved"} => Left(row) = row.status /\ row.status # "approved"
      /\ row.status # "none" => Left(row) # "none"
      /\ row.status = "consumed" => Left(row) = "consumed"
      /\ Answer(Reported(row)) \in {"granted", "rejected", "poll"}
      /\ Answer(Reported(row)) = "granted" =>
           row.status = "approved" /\ ~row.due /\ Left(row) = "consumed"
  BY <1>1, ConsumptionOfRow
<1> HIDE DEF row
<1>3. /\ approval' = [approval EXCEPT ![q].status = Left(row)]
      /\ handler[o] = "poll"
      /\ UNCHANGED <<binding, shown, verdict>>
  BY DEF Consumed, RowOf, row
<1>4. \E pc \in {"granted", "rejected", "poll", "failed"} :
        /\ handler' = [handler EXCEPT ![o] = pc]
        /\ pc = "granted" => Answer(Reported(row)) = "granted"
  BY <1>2 DEF Goto, RowOf, row
<1>5. /\ approval \in [RequestId -> [status : {"none", "pending", "consumed"} \cup Decision,
                                     op : Op \cup {None}, due : BOOLEAN]]
      /\ approval[q] = row
  BY DEF ApprovalInv, TypeOK, row
<1>6. /\ approval' \in [RequestId -> [status : {"none", "pending", "consumed"} \cup Decision,
                                      op : Op \cup {None}, due : BOOLEAN]]
      /\ \A p \in RequestId :
           /\ approval'[p].op = approval[p].op
           /\ approval'[p].status = IF p = q THEN Left(row) ELSE approval[p].status
  BY <1>1, <1>2, <1>3, <1>5
<1>7. TypeOK'
  BY <1>3, <1>4, <1>6 DEF ApprovalInv, TypeOK, Label
<1>8. Owned'
  <2>1. row.status # "none"
    BY <1>3, <1>5 DEF ApprovalInv, Polls, RowOf
  <2> QED BY <2>1, <1>2, <1>5, <1>6 DEF ApprovalInv, Owned
<1>9. Polls'
  BY <1>2, <1>3, <1>4, <1>5, <1>6, ApprovalConstants DEF ApprovalInv, TypeOK, Polls, RowOf
<1>10. Follows'
  BY <1>2, <1>3, <1>5, <1>6 DEF ApprovalInv, Follows, Decider
<1>11. Granted'
  BY <1>1, <1>2, <1>3, <1>4, <1>5, <1>6, ApprovalConstants
     DEF ApprovalInv, TypeOK, Granted, Polls, Follows, RowOf
<1> QED BY <1>7, <1>8, <1>9, <1>10, <1>11 DEF ApprovalInv

LEMMA HandlerKeepsInv ==
  ASSUME ApprovalInv, NEW o \in Op, Handle(o)
  PROVE  ApprovalInv'
<1>1. CASE Ask(o) BY <1>1, AskKeepsInv
<1>2. CASE Show(o) BY <1>2, ShowKeepsInv
<1>3. CASE Consume(o) BY <1>3, ConsumedKeepsInv DEF Consume
<1>4. ASSUME Goto(o, "failed") \/ Goto(o, "rejected"), handler[o] \in {"show", "poll"},
             UNCHANGED <<binding, approval, shown, verdict>>
      PROVE  ApprovalInv'
  <2>1. \E pc \in {"rejected", "failed"} : handler' = [handler EXCEPT ![o] = pc]
    BY <1>4 DEF Goto
  <2>2. TypeOK' /\ Owned' /\ Follows'
    BY <1>4, <2>1 DEF ApprovalInv, TypeOK, Owned, Follows, Decider, Label
  <2>3. Polls' /\ Granted'
    BY <1>4, <2>1 DEF ApprovalInv, TypeOK, Polls, Granted, RowOf
  <2> QED BY <2>2, <2>3 DEF ApprovalInv
<1>5. CASE ConsumeFails(o) BY <1>4, <1>5, ConsumedKeepsInv DEF ConsumeFails
<1>6. CASE Abort(o) BY <1>4, <1>6 DEF Abort
<1> QED BY <1>1, <1>2, <1>3, <1>5, <1>6 DEF Handle

LEMMA DecisionKeepsInv ==
  ASSUME ApprovalInv, NEW q \in RequestId, NEW decision \in Decision,
         NEW by \in {IdentityOf[approval[q].op], Admin}, by \in Identity \cup {Admin},
         Decide(q, decision, by)
  PROVE  ApprovalInv'
<1>1. TypeOK'
  BY ApprovalConstants DEF Decide, ApprovalInv, TypeOK, Decision
<1>2. Owned'
  BY DEF Decide, ApprovalInv, TypeOK, Owned, Decision
<1>3. Polls'
  BY ApprovalConstants DEF Decide, ApprovalInv, TypeOK, Polls, RowOf, Decision
<1>4. Follows'
  BY DEF Decide, ApprovalInv, TypeOK, Follows, Decider, Decision, Undecided
<1>5. Granted'
  BY ApprovalConstants DEF Decide, ApprovalInv, TypeOK, Granted, RowOf
<1> QED BY <1>1, <1>2, <1>3, <1>4, <1>5 DEF ApprovalInv

(* Whoever decides is the administrator or has the row's own identity.         *)
LEMMA DecidedByDecider ==
  ASSUME TypeOK, Decided
  PROVE  \E q \in RequestId, decision \in Decision :
           \E by \in {IdentityOf[approval[q].op], Admin} :
             by \in Identity \cup {Admin} /\ Decide(q, decision, by)
<1>1. PICK q \in RequestId, decision \in Decision :
        \/ \E r \in Route : DecideByRemote(r, q, decision)
        \/ \E identity \in Identity : DecideByClient(identity, q, decision)
        \/ DecideByAdmin(q, decision)
  BY DEF Decided
<1>2. CASE \E r \in Route : DecideByRemote(r, q, decision)
  <2>1. PICK r \in Route : DecideByRemote(r, q, decision) BY <1>2
  <2>2. binding[r] \in Session BY <2>1 DEF DecideByRemote, TypeOK
  <2> QED BY <2>1, <2>2 DEF DecideByRemote, Identified, Identity
<1>3. CASE \E identity \in Identity : DecideByClient(identity, q, decision)
  BY <1>3 DEF DecideByClient, Identified
<1>4. CASE DecideByAdmin(q, decision)
  BY <1>4 DEF DecideByAdmin
<1> QED BY <1>1, <1>2, <1>3, <1>4

LEMMA NextKeepsInv == ApprovalInv /\ [Next]_vars => ApprovalInv'
<1> SUFFICES ASSUME ApprovalInv, [Next]_vars PROVE ApprovalInv'
  OBVIOUS
<1>1. CASE \E o \in Op : Handle(o)
  BY <1>1, HandlerKeepsInv
<1>2. CASE Decided
  BY <1>2, DecidedByDecider, DecisionKeepsInv DEF ApprovalInv
<1>3. CASE \E q \in RequestId : Expire(q)
  <2>1. PICK q \in RequestId : Expire(q) BY <1>3
  <2>2. /\ approval' \in [RequestId -> [status : {"none", "pending", "consumed"} \cup Decision,
                                        op : Op \cup {None}, due : BOOLEAN]]
        /\ \A p \in RequestId :
             approval'[p].op = approval[p].op /\ approval'[p].status = approval[p].status
        /\ UNCHANGED <<binding, shown, handler, verdict>>
    BY <2>1 DEF Expire, ApprovalInv, TypeOK
  <2>3. TypeOK' /\ Owned' /\ Follows'
    BY <2>2 DEF ApprovalInv, TypeOK, Owned, Follows, Decider
  <2>4. Polls' /\ Granted'
    BY <2>2, ApprovalConstants DEF ApprovalInv, Polls, Granted, RowOf
  <2> QED BY <2>3, <2>4 DEF ApprovalInv
<1>4. CASE \E r \in Route, s \in Session : Bind(r, s)
  BY <1>4 DEF Bind, ApprovalInv, TypeOK, Owned, Polls, Follows, Granted, RowOf, Decider
<1>5. CASE UNCHANGED vars
  BY <1>5 DEF vars, ApprovalInv, TypeOK, Owned, Polls, Follows, Granted, RowOf, Decider
<1> QED BY <1>1, <1>2, <1>3, <1>4, <1>5 DEF Next

(* The strengthening holds of every reachable state.                           *)
THEOREM ApprovalsSafe == Spec => []ApprovalInv
BY InitialInv, NextKeepsInv, PTL DEF Spec

(* The approvals, the handlers and the history keep their types.               *)
THEOREM ApprovalTypes == Spec => []TypeOK
<1>1. ApprovalInv => TypeOK BY DEF ApprovalInv
<1> QED BY <1>1, ApprovalsSafe, PTL

(* An operation is granted only on its own, used-up approval, approved by the  *)
(* administrator or by the identity it was asked for.                          *)
THEOREM GrantRestsOnDecision == Spec => []GrantsAreDecided
<1>1. ApprovalInv => GrantsAreDecided
  <2> SUFFICES ASSUME ApprovalInv, NEW o \in Op, handler[o] = "granted"
               PROVE  LET q == RequestOf[o] IN
                      /\ approval[q].op = o /\ approval[q].status = "consumed"
                      /\ verdict[q].decision = "approved"
                      /\ verdict[q].by \in {IdentityOf[o], Admin}
    BY DEF GrantsAreDecided
  <2>1. approval[RequestOf[o]].op = o /\ approval[RequestOf[o]].status = "consumed"
    BY DEF ApprovalInv, Polls, Granted, RowOf
  <2>2. verdict[RequestOf[o]].decision = "approved"
    BY DEF ApprovalInv, Granted
  <2>3. RequestOf[o] \in RequestId /\ verdict[RequestOf[o]] # Undecided
    BY <2>2, ApprovalConstants DEF Undecided
  <2> QED BY <2>1, <2>2, <2>3 DEF ApprovalInv, Follows, Decider
<1> QED BY <1>1, ApprovalsSafe, PTL

(* What was decided stands, and from its expiry on an approval is neither      *)
(* decided nor granted.                                                        *)
THEOREM DecisionsAreFinal == Spec => DecisionsStand
<1>1. ApprovalInv /\ [Next]_vars =>
        [\A o \in Op :
           /\ RowOf(o).due \/ verdict[RequestOf[o]] # Undecided
                => verdict'[RequestOf[o]] = verdict[RequestOf[o]]
           /\ RowOf(o).due /\ handler'[o] = "granted" => handler[o] = "granted"]_vars
  <2> SUFFICES ASSUME ApprovalInv, Next, NEW o \in Op
               PROVE  /\ RowOf(o).due \/ verdict[RequestOf[o]] # Undecided
                           => verdict'[RequestOf[o]] = verdict[RequestOf[o]]
                      /\ RowOf(o).due /\ handler'[o] = "granted" => handler[o] = "granted"
    OBVIOUS
  <2>1. RequestOf[o] \in RequestId /\ RowOf(o) = approval[RequestOf[o]]
    BY ApprovalConstants DEF RowOf
  <2>2. CASE \E p \in Op : Handle(p)
    <3>1. PICK p \in Op : Handle(p) BY <2>2
    <3>2. CASE Consume(p)
      <4>1. RowOf(p).status \in {"none", "pending", "consumed"} \cup Decision
        BY ApprovalConstants DEF RowOf, ApprovalInv, TypeOK
      <4>2. Answer(Reported(RowOf(p))) = "granted" => ~RowOf(p).due
        BY <4>1, ConsumptionOfRow
      <4> QED BY <3>2, <4>2 DEF Consume, Consumed, Goto, ApprovalInv, TypeOK
    <3>3. CASE ~Consume(p)
      BY <3>1, <3>3 DEF Handle, Ask, Show, ConsumeFails, Consumed, Abort, Goto, ApprovalInv, TypeOK
    <3> QED BY <3>2, <3>3
  <2>3. CASE Decided
    <3>1. PICK q \in RequestId, decision \in Decision, by \in Identity \cup {Admin} :
                 Decide(q, decision, by)
      BY <2>3, DecidedByDecider DEF ApprovalInv
    <3>2. /\ ~approval[q].due /\ approval[q].status = "pending"
          /\ \A p \in RequestId : p # q => verdict'[p] = verdict[p]
          /\ UNCHANGED handler
      BY <3>1 DEF Decide, ApprovalInv, TypeOK
    <3>3. verdict[q] = Undecided
      BY <3>2 DEF ApprovalInv, Follows
    <3> QED BY <2>1, <3>2, <3>3
  <2>4. CASE (\E q \in RequestId : Expire(q)) \/ (\E r \in Route, s \in Session : Bind(r, s))
    BY <2>4 DEF Expire, Bind
  <2> QED BY <2>2, <2>3, <2>4 DEF Next
<1> QED BY <1>1, ApprovalsSafe, PTL DEF Spec, DecisionsStand
----------------------------------------------------------------------------
(* The permission. *)

By(o) == IF RowOf(o).op = o THEN verdict[RequestOf[o]].by ELSE None

(* A step that concerns the permission of one operation at most.               *)
LEMMA OnePermissionMoves ==
  ASSUME NEW o \in Op,
         \A p \in Op : p # o => Stage(p)' = Stage(p) /\ By(p)' = By(p),
         \/ Stage(o)' = Stage(o) /\ By(o)' = By(o)
         \/ /\ Stage(o) = "unasked" /\ Stage(o)' = "open" /\ By(o)' = By(o)
            /\ \A p \in Op : RequestOf[p] = RequestOf[o] => Stage(p) = "unasked"
         \/ /\ Stage(o) = "open" /\ Stage(o)' \in {"approved", "over"}
            /\ By(o)' \in {IdentityOf[o], Admin}
         \/ Stage(o) = "approved" /\ Stage(o)' = "granted" /\ By(o)' = By(o)
         \/ Stage(o) \in {"open", "approved"} /\ Stage(o)' = "over" /\ By(o)' = By(o)
  PROVE  [Promise!Next]_(Promise!vars)
<1> DEFINE stage == [p \in Op |-> Stage(p)]
           by    == [p \in Op |-> IF RowOf(p).op = p THEN verdict[RequestOf[p]].by ELSE None]
           to    == Stage(o)'
<1>1. stage[o] = Stage(o) /\ stage' = [stage EXCEPT ![o] = to]
  OBVIOUS
<1>2. by' = [by EXCEPT ![o] = By(o)'] /\ (By(o)' = By(o) => by' = by)
  BY DEF By
<1>3. CASE Stage(o)' = Stage(o) /\ By(o)' = By(o)
  <2>1. stage' = stage BY <1>3
  <2> QED BY <1>2, <1>3, <2>1 DEF Promise!vars
<1>4. CASE /\ Stage(o) = "unasked" /\ Stage(o)' = "open" /\ By(o)' = By(o)
           /\ \A p \in Op : RequestOf[p] = RequestOf[o] => Stage(p) = "unasked"
  <2>1. \A p \in Op : RequestOf[p] = RequestOf[o] => stage[p] = "unasked"
    BY <1>4
  <2> HIDE DEF stage, by
  <2>2. Promise!Ask(o)
    BY <1>1, <1>2, <1>4, <2>1 DEF Promise!Ask, Promise!Goes, stage, by
  <2> QED BY <2>2 DEF Promise!Next
<1>5. CASE /\ Stage(o) = "open" /\ Stage(o)' \in {"approved", "over"}
           /\ By(o)' \in {IdentityOf[o], Admin}
  <2>1. Promise!Decide(o)
    BY <1>1, <1>2, <1>5 DEF Promise!Decide, Promise!Goes
  <2> QED BY <2>1 DEF Promise!Next
<1>6. CASE Stage(o) = "approved" /\ Stage(o)' = "granted" /\ By(o)' = By(o)
  <2>1. Promise!Use(o)
    BY <1>1, <1>2, <1>6 DEF Promise!Use, Promise!Goes
  <2> QED BY <2>1 DEF Promise!Next
<1>7. CASE Stage(o) \in {"open", "approved"} /\ Stage(o)' = "over" /\ By(o)' = By(o)
  <2>1. Promise!Lapse(o)
    BY <1>1, <1>2, <1>7 DEF Promise!Lapse, Promise!Goes
  <2> QED BY <2>1 DEF Promise!Next
<1> QED BY <1>3, <1>4, <1>5, <1>6, <1>7

(* What is left of a permission depends on its row, on whose row it is, and on *)
(* whether its handler has been granted it.                                    *)
LEMMA PermissionStands ==
  ASSUME ApprovalInv, NEW o \in Op,
         \/ approval'[RequestOf[o]] = approval[RequestOf[o]]
         \/ RowOf(o).op # o /\ approval'[RequestOf[o]].op # o,
         \/ verdict'[RequestOf[o]] = verdict[RequestOf[o]]
         \/ RowOf(o).op # o,
         handler'[o] = "granted" <=> handler[o] = "granted"
  PROVE  Stage(o)' = Stage(o) /\ By(o)' = By(o)
BY DEF Stage, By, RowOf

LEMMA AskMoves ==
  ASSUME ApprovalInv, NEW o \in Op, Ask(o)
  PROVE  [Promise!Next]_(Promise!vars)
<1> DEFINE q == RequestOf[o]
           new == [status |-> "pending", op |-> o, due |-> FALSE]
<1>1. /\ q \in RequestId /\ handler[o] = "idle" /\ UNCHANGED <<binding, shown, verdict>>
      /\ \E pc \in {"show", "failed"} : handler' = [handler EXCEPT ![o] = pc]
  BY ApprovalConstants DEF Ask, Goto
<1>2. \A p \in Op : handler'[p] = "granted" <=> handler[p] = "granted"
  BY <1>1 DEF ApprovalInv, TypeOK
<1>3. CASE UNCHANGED approval
  <2>1. \A p \in Op : Stage(p)' = Stage(p) /\ By(p)' = By(p)
    BY <1>1, <1>2, <1>3, PermissionStands
  <2> QED BY <2>1, OnePermissionMoves
<1>4. CASE approval[q].status = "none" /\ approval' = [approval EXCEPT ![q] = new]
  <2>1. approval'[q] = new /\ \A r \in RequestId : r # q => approval'[r] = approval[r]
    BY <1>1, <1>4 DEF ApprovalInv, TypeOK
  <2>2. approval[q].op = None /\ verdict[q].by = None
    BY <1>1, <1>4 DEF ApprovalInv, Owned, Follows, Undecided
  <2>3. ASSUME NEW p \in Op, p # o
        PROVE  Stage(p)' = Stage(p) /\ By(p)' = By(p)
    BY <1>1, <1>2, <2>1, <2>2, <2>3, PermissionStands, ApprovalConstants DEF RowOf
  <2>4. \A p \in Op : RequestOf[p] = q => Stage(p) = "unasked"
    BY <2>2, ApprovalConstants DEF Stage, RowOf
  <2>5. handler[o] # "granted" /\ handler'[o] # "granted"
    BY <1>1, <1>2
  <2>6. Stage(o)' = "open" /\ By(o)' = None /\ By(o) = None
    BY <1>1, <2>1, <2>2, <2>5, ApprovalConstants DEF Stage, By, RowOf
  <2>7. By(o)' = By(o) BY <2>6
  <2> QED BY <2>3, <2>4, <2>6, <2>7, OnePermissionMoves
<1> QED BY <1>3, <1>4 DEF Ask, RowOf

(* A poll uses an approval, or loses it if its response is lost.               *)
LEMMA ConsumedMoves ==
  ASSUME ApprovalInv, NEW o \in Op, Consumed(o), Goto(o, Answer(Reported(RowOf(o)))) \/ Goto(o, "failed")
  PROVE  [Promise!Next]_(Promise!vars)
<1> DEFINE q == RequestOf[o]
           row == approval[q]
<1>1. /\ q \in RequestId /\ handler[o] = "poll" /\ UNCHANGED <<binding, shown, verdict>>
      /\ approval' = [approval EXCEPT ![q].status = Left(row)]
  BY ApprovalConstants DEF Consumed, RowOf
<1>2. /\ row.status \in {"pending", "consumed"} \cup Decision /\ row.op = o
      /\ row.due \in BOOLEAN
  BY <1>1 DEF ApprovalInv, TypeOK, Polls, RowOf
<1>3. /\ approval'[q].status = Left(row) /\ approval'[q].op = row.op /\ approval'[q].due = row.due
      /\ \A r \in RequestId : r # q => approval'[r] = approval[r]
  BY <1>1 DEF ApprovalInv, TypeOK
<1>4. \E pc \in {"failed", Answer(Reported(row))} : handler' = [handler EXCEPT ![o] = pc]
  BY DEF Goto, RowOf
<1>5. ASSUME NEW p \in Op, p # o
      PROVE  Stage(p)' = Stage(p) /\ By(p)' = By(p)
  <2>1. handler'[p] = handler[p]
    BY <1>4, <1>5 DEF ApprovalInv, TypeOK
  <2> QED BY <1>1, <1>2, <1>3, <1>5, <2>1, PermissionStands, ApprovalConstants DEF RowOf
<1>6. By(o)' = By(o)
  BY <1>1, <1>3 DEF By, RowOf
<1>7. \/ Stage(o)' = Stage(o)
      \/ Stage(o) = "approved" /\ Stage(o)' \in {"granted", "over"}
  <2>1. handler'[o] \in {"failed", Answer(Reported(row))}
    BY <1>4 DEF ApprovalInv, TypeOK
  <2>2. /\ Stage(o) = IF row.due \/ row.status \notin {"pending", "approved"} THEN "over"
                      ELSE IF row.status = "pending" THEN "open" ELSE "approved"
        /\ Stage(o)' = IF handler'[o] = "granted" THEN "granted"
                       ELSE IF row.due \/ Left(row) \notin {"pending", "approved"} THEN "over"
                       ELSE IF Left(row) = "pending" THEN "open" ELSE "approved"
    BY <1>1, <1>2, <1>3 DEF Stage, RowOf
  <2> HIDE DEF row
  <2> QED BY <1>2, <2>1, <2>2 DEF Left, Answer, Reported, Expired, Decision
<1> QED BY <1>5, <1>6, <1>7, OnePermissionMoves

LEMMA HandlerMoves ==
  ASSUME ApprovalInv, NEW o \in Op, Handle(o)
  PROVE  [Promise!Next]_(Promise!vars)
<1>1. CASE Ask(o) BY <1>1, AskMoves
<1>2. CASE Consume(o) BY <1>2, ConsumedMoves DEF Consume
<1>3. ASSUME \E pc \in {"poll", "rejected", "failed"} : Goto(o, pc), handler[o] # "granted",
             UNCHANGED <<approval, verdict>>
      PROVE  [Promise!Next]_(Promise!vars)
  <2>1. \A p \in Op : handler'[p] = "granted" <=> handler[p] = "granted"
    BY <1>3 DEF Goto, ApprovalInv, TypeOK
  <2>2. \A p \in Op : Stage(p)' = Stage(p) /\ By(p)' = By(p)
    BY <1>3, <2>1, PermissionStands
  <2> QED BY <2>2, OnePermissionMoves
<1>4. CASE Show(o) BY <1>3, <1>4 DEF Show
<1>5. CASE ConsumeFails(o) BY <1>3, <1>5, ConsumedMoves DEF ConsumeFails
<1>6. CASE Abort(o) BY <1>3, <1>6 DEF Abort
<1> QED BY <1>1, <1>2, <1>4, <1>5, <1>6 DEF Handle

LEMMA DecisionMoves ==
  ASSUME ApprovalInv, NEW q \in RequestId, NEW decision \in Decision,
         NEW w \in {IdentityOf[approval[q].op], Admin}, Decide(q, decision, w)
  PROVE  [Promise!Next]_(Promise!vars)
<1> PICK o \in Op : o = approval[q].op /\ RequestOf[o] = q
  BY DEF Decide, ApprovalInv, Owned
<1>2. /\ ~approval[q].due /\ approval[q].status = "pending" /\ UNCHANGED handler
      /\ approval'[q].op = o /\ approval'[q].due = approval[q].due
      /\ approval'[q].status = decision /\ verdict'[q].by = w
      /\ \A r \in RequestId : r # q => approval'[r] = approval[r] /\ verdict'[r] = verdict[r]
  BY DEF Decide, ApprovalInv, TypeOK
<1>3. handler[o] # "granted"
  BY <1>2 DEF ApprovalInv, Granted, RowOf
<1>4. Stage(o) = "open" /\ Stage(o)' \in {"approved", "over"} /\ By(o)' = w
  BY <1>2, <1>3 DEF Stage, By, RowOf, Decision
<1>5. ASSUME NEW p \in Op, p # o
      PROVE  Stage(p)' = Stage(p) /\ By(p)' = By(p)
  BY <1>2, <1>5, PermissionStands, ApprovalConstants DEF RowOf
<1> QED BY <1>4, <1>5, OnePermissionMoves

LEMMA ExpiryMoves ==
  ASSUME ApprovalInv, NEW q \in RequestId, Expire(q)
  PROVE  [Promise!Next]_(Promise!vars)
<1> PICK o \in Op : o = approval[q].op /\ RequestOf[o] = q
  BY DEF Expire, ApprovalInv, Owned
<1>2. /\ UNCHANGED <<handler, verdict>> /\ approval'[q].due
      /\ approval'[q].op = o /\ approval'[q].status = approval[q].status
      /\ \A r \in RequestId : r # q => approval'[r] = approval[r]
  BY DEF Expire, ApprovalInv, TypeOK
<1>3. ASSUME NEW p \in Op, p # o
      PROVE  Stage(p)' = Stage(p) /\ By(p)' = By(p)
  BY <1>2, <1>3, PermissionStands, ApprovalConstants DEF RowOf
<1>4. By(o)' = By(o)
  BY <1>2 DEF By, RowOf
<1>5. \/ Stage(o)' = Stage(o)
      \/ Stage(o) \in {"open", "approved"} /\ Stage(o)' = "over"
  BY <1>2 DEF Stage, RowOf
<1> QED BY <1>3, <1>4, <1>5, OnePermissionMoves

(* Handlers, deciders, the clock and lost calls implement the one-time         *)
(* permission, whatever operations share a request id or a route               *)
(* (createPermissionHandler, createApproval, decideApproval, consumeApproval). *)
THEOREM ApprovalsImplementPermission == Spec => ImplementsPermission
<1>1. Init => Promise!Init
  BY ApprovalConstants DEF Init, Promise!Init, Stage, RowOf, NoRow
<1>2. ApprovalInv /\ [Next]_vars => [Promise!Next]_(Promise!vars)
  <2> SUFFICES ASSUME ApprovalInv, [Next]_vars PROVE [Promise!Next]_(Promise!vars)
    OBVIOUS
  <2>1. CASE \E o \in Op : Handle(o)
    BY <2>1, HandlerMoves
  <2>2. CASE Decided
    BY <2>2, DecidedByDecider, DecisionMoves DEF ApprovalInv
  <2>3. CASE \E q \in RequestId : Expire(q)
    BY <2>3, ExpiryMoves
  <2>4. CASE UNCHANGED <<approval, handler, verdict>>
    BY <2>4 DEF Promise!vars, Stage, RowOf
  <2> QED BY <2>1, <2>2, <2>3, <2>4 DEF Next, Bind, vars
<1> QED BY <1>1, <1>2, ApprovalsSafe, PTL DEF Spec, ImplementsPermission, Promise!Spec
================================================================================
