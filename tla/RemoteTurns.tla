------------------------------- MODULE RemoteTurns -------------------------------
(***************************************************************************)
(* The inbound loop of the Copilot extension (extension-runtime.mjs)       *)
(* composed with the inbound pipeline: each session's extension polls for  *)
(* a message, works on it for up to ten minutes under a lease of 90 s that *)
(* is never renewed, replies into the conversation and completes the lease.*)
(*                                                                         *)
(* Every call to the daemon can be lost on its way, be refused, or be      *)
(* carried out with its response lost.  A step here is one call of the     *)
(* extension together with what the daemon does for it, or one result of   *)
(* the Copilot session.  The steps of the pipeline that no extension takes *)
(* happen in between.                                                      *)
(***************************************************************************)
EXTENDS InboundPipeline

VARIABLES
  turn,     \* what the extension of each session is doing
  answered  \* history: leases whose turn had its reply delivered, or had none

turns    == <<turn, answered>>
turnVars == <<vars, turns>>

\* A lease id is drawn for each time a row is leased: the row's id and the
\* number of the attempt stand for it.
Idle == [pc |-> "idle", msg |-> None, id |-> 0, try |-> 0, retry |-> TRUE]

LeaseOf(t) == <<t.id, t.try>>

\* The turn's lease is the one its row is leased under.
Current(s) ==
  /\ turn[s].pc # "idle"
  /\ LET row == inbox[turn[s].msg]
     IN  row.status = "leased" /\ LeaseOf(turn[s]) = <<row.id, row.tries>>

----------------------------------------------------------------------------
(* runInboundLoop. *)

Work(m, row) == [pc |-> "check", msg |-> m, id |-> row.id, try |-> row.tries, retry |-> TRUE]

\* An idle extension polls.  The response, and with it the lease, may be lost.
Poll(s) ==
  /\ turn[s].pc = "idle"
  /\ \E d \in Daemon : Lease(d, s)
  /\ \/ UNCHANGED turn
     \/ \E m \in Message :
          /\ inbox'[m].tries > inbox[m].tries
          /\ turn' = [turn EXCEPT ![s] = Work(m, inbox'[m])]
  /\ UNCHANGED answered

----------------------------------------------------------------------------
(* processInboundTurn. *)

Goto(s, pc) == turn' = [turn EXCEPT ![s].pc = pc]

EndTurn(s) == turn' = [turn EXCEPT ![s] = Idle]

\* The status answers and the workspace matches: a prompt, or a command the
\* extension answers by itself.  No answer is a retryable failure, a workspace
\* that does not match one that is not.
Check(s) ==
  /\ turn[s].pc = "check"
  /\ \/ \E pc \in {"prompt", "reply", "fail"} : Goto(s, pc)
     \/ turn' = [turn EXCEPT ![s].pc = "fail", ![s].retry = FALSE]
  /\ UNCHANGED <<vars, answered>>

\* Faulty variant: a turn completes its message before it replies.
PromptThenComplete(s) ==
  /\ turn[s].pc = "prompt"
  /\ \E pc \in {"complete", "fail"} : Goto(s, pc)
  /\ UNCHANGED <<vars, answered>>

\* sendAndWait ends with a text, without one, or in an error or the timeout.
Prompt(s) ==
  /\ turn[s].pc = "prompt"
  /\ \/ \E pc \in {"reply", "fail"} : Goto(s, pc) /\ UNCHANGED answered
     \/ Goto(s, "complete") /\ answered' = answered \cup {LeaseOf(turn[s])}
  /\ UNCHANGED vars

\* Faulty variant: a reply that is not acknowledged is sent again.
ReplyUntilAcknowledged(s) ==
  /\ turn[s].pc = "reply"
  /\ \/ answered' = answered \cup {LeaseOf(turn[s])} /\ UNCHANGED turn
     \/ Goto(s, "complete") /\ answered' = answered \cup {LeaseOf(turn[s])}
     \/ Goto(s, "fail") /\ UNCHANGED answered
  /\ UNCHANGED vars

\* sendOutbound: delivered and acknowledged, delivered only, or neither.
Reply(s) ==
  /\ turn[s].pc = "reply"
  /\ \/ /\ answered' = answered \cup {LeaseOf(turn[s])}
        /\ \E pc \in {"complete", "fail"} : Goto(s, pc)
     \/ Goto(s, "fail") /\ UNCHANGED answered
  /\ UNCHANGED vars

\* Faulty variant: the daemon looks the row up by its id and not by its lease.
CompletesAnyLease(s) ==
  /\ inbox[turn[s].msg].id = turn[s].id
  /\ \E d \in Daemon : Complete(d, turn[s].msg)
  /\ inbox'[turn[s].msg].status = "completed"

\* The daemon carries out the completion.
Completes(s) ==
  /\ Current(s)
  /\ \E d \in Daemon : Complete(d, turn[s].msg)
  /\ inbox'[turn[s].msg].status = "completed"

\* The daemon carries out the report of a failure.
Fails(s) ==
  /\ Current(s)
  /\ \E d \in Daemon :
       IF turn[s].retry /\ turn[s].try < MaxAttempts
       THEN Retry(d, turn[s].msg)
       ELSE /\ Complete(d, turn[s].msg)
            /\ inbox'[turn[s].msg].status = "failed"

\* A completion that is refused, lost or not acknowledged counts as a failure.
Conclude(s) ==
  /\ turn[s].pc = "complete"
  /\ \/ Completes(s) /\ (EndTurn(s) \/ Goto(s, "fail"))
     \/ UNCHANGED vars /\ Goto(s, "fail")
  /\ UNCHANGED answered

\* The report may be refused or lost as well; the notice to the conversation
\* that follows an acknowledged report may fail unnoticed.
Report(s) ==
  /\ turn[s].pc = "fail"
  /\ Fails(s) \/ UNCHANGED vars
  /\ EndTurn(s) /\ UNCHANGED answered

\* The extension's process ends and a fresh one joins the session.
Reload(s) ==
  /\ turn[s].pc # "idle"
  /\ EndTurn(s) /\ UNCHANGED <<vars, answered>>

----------------------------------------------------------------------------
TurnInit == Init /\ turn = [s \in Session |-> Idle] /\ answered = {}

Turn(s) == Check(s) \/ Prompt(s) \/ Reply(s) \/ Conclude(s) \/ Report(s) \/ Reload(s)

Elsewhere ==
  /\ \/ \E d \in Daemon : Life(d) \/ Ingress(d) \/ Admin(d) \/ Cleanup(d)
     \/ Resume
     \/ Time
  /\ UNCHANGED turns

TurnNext == (\E s \in Session : Poll(s) \/ Turn(s)) \/ Elsewhere

TurnSpec == TurnInit /\ [][TurnNext]_turnVars
----------------------------------------------------------------------------
(* Correctness. *)

Label == {"idle", "check", "prompt", "reply", "complete", "fail"}

\* Types of the turns.
TurnTypeOK ==
  /\ turn \in [Session -> [pc : Label, msg : Message \cup {None}, id : Nat,
                           try : Nat, retry : BOOLEAN]]
  /\ \A s \in Session : turn[s].pc # "idle" => turn[s].msg \in Message
  /\ answered \subseteq Nat \X Nat

\* A route has at most one turn under a lease that still counts, whatever was
\* rebound, reloaded, lost or left to lapse: every other turn of the route has
\* been superseded.
SoleHolder ==
  \A s, t \in Session :
    Current(s) /\ Current(t) /\ turn[s].msg[1] = turn[t].msg[1] => s = t

\* A completed message was answered under the lease that completed it: no order
\* of lost calls, retries and superseded turns drops an answer silently.
CompletedIsAnswered ==
  \A m \in Message :
    inbox[m].status = "completed" => <<inbox[m].id, inbox[m].tries>> \in answered

\* A turn that has still to answer works under a lease nothing was answered under,
\* and no lease is beyond the attempts a message has: over lost calls, retries,
\* superseded turns and redelivery, a conversation gets at most one answer for
\* each of at most MaxAttempts leases of a message.
AnsweredOnce ==
  /\ \A s \in Session :
       turn[s].pc \in {"check", "prompt", "reply"} => LeaseOf(turn[s]) \notin answered
  /\ \A lease \in answered : lease[2] \in 1 .. MaxAttempts

\* A leased message leaves its lease by the turn that holds it, or because the
\* lease lapsed; a superseded turn's late completion changes nothing.
LeaseEndsByHolder ==
  [][\A m \in Message :
       inbox[m].status = "leased" /\ inbox'[m].status # "leased" =>
         inbox[m].due \/ \E s \in Session : turn[s].msg = m /\ Current(s) /\ turn' # turn]_turnVars

\* architecture.md: "Turns are serialized per route key."
TurnsSerialized ==
  \A s, t \in Session :
    turn[s].pc = "prompt" /\ turn[t].pc = "prompt" /\ turn[s].msg[1] = turn[t].msg[1]
      => s = t
================================================================================
