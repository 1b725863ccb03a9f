------------------------------- MODULE Approvals -------------------------------
(***************************************************************************)
(* Remote approvals: the extension's permission handler asks the daemon for *)
(* a one-time approval, has its nonce shown in the conversation and polls   *)
(* for the decision; the remote user decides with the nonce, the local      *)
(* administrator by the request's id, and five minutes end the wait.        *)
(*                                                                          *)
(* The handlers of several sessions, the users of several routes, the       *)
(* administrator and the clock interleave; every call of a handler may be   *)
(* refused, lost, or carried out with its response lost, and a handler's    *)
(* process may end at any time.                                             *)
(***************************************************************************)
EXTENDS Naturals

CONSTANTS
  Op,          \* operations that need a permission, one handler call each
  RequestId, Route, Session, Scope,
  RequestOf,   \* the tool call's id: two operations may come with the same one
  IdentityOf,  \* the route of the turn an operation is part of, and its session
  ScopeOf,
  None, Admin

ASSUME ApprovalConstants ==
  /\ RequestOf \in [Op -> RequestId]
  /\ IdentityOf \in [Op -> Route \X Session]
  /\ ScopeOf \in [Op -> Scope]
  /\ None \notin Op /\ None \notin Session
  /\ Admin \notin Route \X Session

VARIABLES
  binding,   \* the session each route is bound to, or None
  approval,  \* the approvals table, by request id
  shown,     \* operations whose nonce was delivered to their conversation
  handler,   \* where the handler of each operation is
  verdict    \* history: what was decided, and by whom

vars == <<binding, approval, shown, handler, verdict>>

Decision == {"approved", "denied"}
Identity == Route \X Session

\* The nonce and the digests of a row stand for the operation that created it.
NoRow     == [status |-> "none", op |-> None, due |-> FALSE]
Undecided == [decision |-> "none", by |-> None]

RowOf(o) == approval[RequestOf[o]]

Goto(o, pc) == handler' = [handler EXCEPT ![o] = pc]

----------------------------------------------------------------------------
(* createPermissionHandler. *)

\* createApproval inserts a row, so that a known request id is refused.
Ask(o) ==
  /\ handler[o] = "idle"
  /\ \/ /\ RowOf(o).status = "none"
        /\ approval' = [approval EXCEPT ![RequestOf[o]] =
             [status |-> "pending", op |-> o, due |-> FALSE]]
        /\ \E pc \in {"show", "failed"} : Goto(o, pc)
     \/ UNCHANGED approval /\ Goto(o, "failed")
  /\ UNCHANGED <<binding, shown, verdict>>

\* sendOutbound: delivered and acknowledged, delivered only, or neither.
Show(o) ==
  /\ handler[o] = "show"
  /\ \/ /\ shown' = shown \cup {o}
        /\ \E pc \in {"poll", "failed"} : Goto(o, pc)
     \/ UNCHANGED shown /\ Goto(o, "failed")
  /\ UNCHANGED <<binding, approval, verdict>>

\* consumeApproval compares the identity and the operation's digest.
Matches(o, row) ==
  /\ row.op # None
  /\ IdentityOf[o] = IdentityOf[row.op]
  /\ RequestOf[o] = RequestOf[row.op] /\ ScopeOf[o] = ScopeOf[row.op]

\* Faulty variant: only what was decided can expire.
ExpiredDecided(row) == row.status \in Decision /\ row.due

Expired(row) == row.status # "consumed" /\ row.due

\* What a consumption reports of a row, and what it leaves in it.
Reported(row) == IF Expired(row) THEN "denied" ELSE row.status

Left(row) ==
  IF Expired(row) THEN "denied"
  ELSE IF row.status \in Decision THEN "consumed" ELSE row.status

Answer(status) ==
  IF status = "approved" THEN "granted"
  ELSE IF status \in {"denied", "consumed"} THEN "rejected" ELSE "poll"

\* A poll that is carried out, and one whose response arrives as well.
Consumed(o) ==
  /\ handler[o] = "poll" /\ Matches(o, RowOf(o))
  /\ approval' = [approval EXCEPT ![RequestOf[o]].status = Left(RowOf(o))]
  /\ UNCHANGED <<binding, shown, verdict>>

Consume(o) == Consumed(o) /\ Goto(o, Answer(Reported(RowOf(o))))

\* A mismatch, a refusal and a lost response all end the handler.
ConsumeFails(o) ==
  /\ handler[o] = "poll" /\ Goto(o, "failed")
  /\ \/ Consumed(o)
     \/ UNCHANGED <<binding, approval, shown, verdict>>

\* The session shuts down between two polls, or the process just ends.
Abort(o) ==
  /\ \/ handler[o] = "poll" /\ Goto(o, "rejected")
     \/ handler[o] \in {"show", "poll"} /\ Goto(o, "failed")
  /\ UNCHANGED <<binding, approval, shown, verdict>>

----------------------------------------------------------------------------
(* Decisions. *)

\* Faulty variant: a nonce decides again until it expires.
DecideAgain(q, decision, by) ==
  /\ ~approval[q].due /\ approval[q].status # "none"
  /\ approval' = [approval EXCEPT ![q].status = decision]
  /\ verdict' = [verdict EXCEPT ![q] = [decision |-> decision, by |-> by]]
  /\ UNCHANGED <<binding, shown, handler>>

Decide(q, decision, by) ==
  /\ ~approval[q].due /\ approval[q].status = "pending"
  /\ approval' = [approval EXCEPT ![q].status = decision]
  /\ verdict' = [verdict EXCEPT ![q] = [decision |-> decision, by |-> by]]
  /\ UNCHANGED <<binding, shown, handler>>

\* Faulty variant: whoever has the nonce decides.
Bears(q, identity) == approval[q].op # None

\* The nonce belongs to this identity.
Identified(q, identity) ==
  approval[q].op # None /\ IdentityOf[approval[q].op] = identity

\* A command in the conversation carries the nonce; the session is the one the
\* route is bound to when the command arrives.
DecideByRemote(r, q, decision) ==
  /\ binding[r] # None
  /\ approval[q].op \in shown
  /\ Identified(q, <<r, binding[r]>>)
  /\ Decide(q, decision, <<r, binding[r]>>)

\* A local client that was given the nonce presents an identity itself.
DecideByClient(identity, q, decision) ==
  Identified(q, identity) /\ Decide(q, decision, identity)

DecideByAdmin(q, decision) == Decide(q, decision, Admin)

----------------------------------------------------------------------------
Expire(q) ==
  /\ approval[q].status # "none" /\ ~approval[q].due
  /\ approval' = [approval EXCEPT ![q].due = TRUE]
  /\ UNCHANGED <<binding, shown, handler, verdict>>

Bind(r, s) ==
  /\ binding' = [binding EXCEPT ![r] = s]
  /\ UNCHANGED <<approval, shown, handler, verdict>>

Init ==
  /\ binding = [r \in Route |-> None]
  /\ approval = [q \in RequestId |-> NoRow]
  /\ shown = {}
  /\ handler = [o \in Op |-> "idle"]
  /\ verdict = [q \in RequestId |-> Undecided]

Handle(o) == Ask(o) \/ Show(o) \/ Consume(o) \/ ConsumeFails(o) \/ Abort(o)

Decided ==
  \E q \in RequestId, decision \in Decision :
    \/ \E r \in Route : DecideByRemote(r, q, decision)
    \/ \E identity \in Identity : DecideByClient(identity, q, decision)
    \/ DecideByAdmin(q, decision)

Next ==
  \/ \E o \in Op : Handle(o)
  \/ Decided
  \/ \E q \in RequestId : Expire(q)
  \/ \E r \in Route, s \in Session : Bind(r, s)

Spec == Init /\ [][Next]_vars

\* A handler's calls return or fail, it polls every second as long as it waits,
\* and time passes.
FairSpec ==
  /\ Spec
  /\ \A o \in Op : WF_vars(Show(o)) /\ WF_vars(Consume(o))
  /\ \A q \in RequestId : WF_vars(Expire(q))

----------------------------------------------------------------------------
(* Correctness. *)

Label == {"idle", "show", "poll", "granted", "rejected", "failed"}

\* Types of the approvals table and of the handlers.
TypeOK ==
  /\ binding \in [Route -> Session \cup {None}]
  /\ approval \in [RequestId ->
       [status : {"none", "pending", "consumed"} \cup Decision,
        op : Op \cup {None}, due : BOOLEAN]]
  /\ shown \subseteq Op
  /\ handler \in [Op -> Label]
  /\ verdict \in [RequestId ->
       [decision : {"none"} \cup Decision, by : Identity \cup {Admin, None}]]

\* An operation is granted on an approval of its own, which was approved by the
\* administrator or by the sender of its route while the route was bound to its
\* session, and which is used up; a request id asked twice, a route that was
\* rebound and a response that was lost make no exception.
GrantsAreDecided ==
  \A o \in Op : handler[o] = "granted" =>
    LET q == RequestOf[o] IN
    /\ approval[q].op = o /\ approval[q].status = "consumed"
    /\ verdict[q].decision = "approved"
    /\ verdict[q].by \in {IdentityOf[o], Admin}

\* What one of the deciders decided, none of them decides again; and from its
\* expiry on an approval is neither decided nor granted, not even one that was
\* approved in time and not consumed yet.
DecisionsStand ==
  [][\A o \in Op :
       /\ RowOf(o).due \/ verdict[RequestOf[o]] # Undecided
            => verdict'[RequestOf[o]] = verdict[RequestOf[o]]
       /\ RowOf(o).due /\ handler'[o] = "granted" => handler[o] = "granted"]_vars

\* How far the permission of an operation is: whose row it is, and what is left of it.
Stage(o) ==
  IF RowOf(o).op # o THEN "unasked"
  ELSE IF handler[o] = "granted" THEN "granted"
  ELSE IF RowOf(o).due \/ RowOf(o).status \notin {"pending", "approved"} THEN "over"
  ELSE IF RowOf(o).status = "pending" THEN "open" ELSE "approved"

Promise == INSTANCE Permission WITH
  stage <- [o \in Op |-> Stage(o)],
  by <- [o \in Op |-> IF RowOf(o).op = o THEN verdict[RequestOf[o]].by ELSE None]

\* Handlers, users, the administrator, the clock and lost calls together keep what a
\* permission promises: asked for once, decided once and by whoever may, used once and
\* in time, however often it is polled for.
ImplementsPermission == Promise!Spec

\* A handler that waits ends, whether or not anybody decides.
HandlersEnd ==
  \A o \in Op : handler[o] \in {"show", "poll"}
                  ~> handler[o] \in {"granted", "rejected", "failed"}
================================================================================
