------------------------------ MODULE WeixinChannel ------------------------------
(***************************************************************************)
(* The Weixin adapter (src/channels/weixin/adapter.ts): the long-poll loop, *)
(* its cursor and the context token, the QR login, and start and stop, with *)
(* the store that outlives the process.                                     *)
(*                                                                          *)
(* JavaScript runs one thing at a time; the code yields where it awaits the *)
(* network, the daemon's onInbound, a timer, the end of the poll loop, or   *)
(* the login transition before it.  A step here is what runs between two    *)
(* such points.  A loop hands a message to onInbound, whose own interleaving*)
(* InboundPipeline models, in one step.                                     *)
(***************************************************************************)
EXTENDS Naturals, Sequences, FiniteSets

CONSTANTS
  Account,    \* bot accounts a login may negotiate
  Feed,       \* bound of the model: messages the provider has for each account,
              \* all of one conversation
  MaxLogins,  \* bound of the model: login attempts per process
  MaxCalls,   \* bound of the model: login calls under way at once
  None

ASSUME WeixinConstants ==
  /\ None \notin Account
  /\ Feed \in [Account -> Nat] /\ MaxLogins \in Nat /\ MaxCalls \in Nat

VARIABLES
  life,         \* of the adapter: #stopped is true in every phase but "up"
  credentials,  \* #credentials: the account the adapter is logged in as
  generation,   \* #loginGeneration
  login,        \* #login: the generation of the login that shows its QR code, or 0
  calls,        \* login calls that await the provider
  queue,        \* #loginTransition: the transition under way and those behind it
  loop, task,   \* poll loops, and #pollTask: the loop the adapter knows of, or 0
  active,       \* active_channel_accounts, with that account's credentials
  unsaved,      \* that store failed for the account logged in as (history)
  cursor,       \* updates-cursor of each account: the last message it is past
  context,      \* context token of each account: the message it came with
  refused,      \* messages of each account that were refused, and not taken up since
  settled       \* messages of each account that have an admission to stay, or need none

memory == <<life, credentials, generation, login, calls, queue, loop, task>>
stored == <<active, unsaved, cursor, context, refused, settled>>
logins == <<generation, login, calls, queue>>
vars   == <<memory, stored>>

\* One loop is the rule; room for a second lets two be told from one.
Slot == {1, 2}

Off == [pc |-> "off", account |-> None, aborted |-> FALSE,
        from |-> 0, at |-> 0, upto |-> 0]

Stopped == life # "up"

----------------------------------------------------------------------------
(* #startPolling and #stopPolling. *)

NewLoop(a) == [Off EXCEPT !.pc = "fetch", !.account = a, !.from = cursor[a]]

Launch(a) ==
  \E i \in Slot :
    /\ loop[i].pc = "off" /\ \A j \in Slot : j < i => loop[j].pc # "off"
    /\ loop' = [loop EXCEPT ![i] = NewLoop(a)] /\ task' = i

\* Faulty variant: a loop is started whether or not there is one.
StartPollingAgain(a) ==
  IF Stopped \/ a = None \/ \A i \in Slot : loop[i].pc # "off"
  THEN UNCHANGED <<loop, task>> ELSE Launch(a)

StartPolling(a) ==
  IF Stopped \/ a = None \/ task # 0 THEN UNCHANGED <<loop, task>> ELSE Launch(a)

\* The loop is told to end; what follows awaits its end.
Abort ==
  /\ loop' = IF task = 0 THEN loop ELSE [loop EXCEPT ![task].aborted = TRUE]
  /\ UNCHANGED task

Polling == task # 0

Ends(i) ==
  /\ loop' = [loop EXCEPT ![i] = Off]
  /\ task' = IF task = i THEN 0 ELSE task

----------------------------------------------------------------------------
(* #pollLoop and #acceptMessage. *)

Rests(i) ==
  /\ loop' = [loop EXCEPT ![i].pc = "rest", ![i].at = 0, ![i].upto = 0]
  /\ UNCHANGED task

Fetched(i, k) ==
  /\ loop' = [loop EXCEPT ![i].pc = "batch", ![i].at = loop[i].from + 1, ![i].upto = k]
  /\ UNCHANGED task

\* getUpdates returns: messages and the cursor behind them, an error, or that the
\* session expired, which logs the account out; the loop ends with it unless the
\* report of it fails, which counts as one more failed poll.
Fetch(i) ==
  /\ loop[i].pc = "fetch"
  /\ IF loop[i].aborted THEN Ends(i) /\ UNCHANGED credentials
     ELSE \/ \E k \in loop[i].from .. Feed[loop[i].account] : Fetched(i, k) /\ UNCHANGED credentials
          \/ Rests(i) /\ UNCHANGED credentials
          \/ (Ends(i) \/ Rests(i)) /\ credentials' = None
  /\ UNCHANGED <<life, logins, stored>>

\* Faulty variant: the token is stored before the message is known to be new.
MaterializeAny(a, n) == context' = [context EXCEPT ![a] = n]

\* The daemon materializes a message that has no settled admission; that stores
\* its context token.
Materialize(a, n) == n \notin settled[a] /\ context' = [context EXCEPT ![a] = n]

Settle(a, n) ==
  /\ settled' = [settled EXCEPT ![a] = @ \cup {n}]
  /\ refused' = [refused EXCEPT ![a] = @ \ {n}]

\* onInbound turns a message away, and its admission leaves no row behind.
Refuse(a, n) ==
  /\ n \notin settled[a]
  /\ refused' = [refused EXCEPT ![a] = @ \cup {n}]

\* onInbound settles a message, which it may have materialized: it was admitted,
\* it is a duplicate, or its text or its reservation is of no use.
Take(a, n) ==
  /\ Settle(a, n)
  /\ Materialize(a, n) \/ UNCHANGED context

NextInBatch(i) == loop' = [loop EXCEPT ![i].at = @ + 1] /\ UNCHANGED task

\* Faulty variant: a message the daemon failed to take is left out.
AcceptOrSkip(i) ==
  /\ loop[i].pc = "batch" /\ loop[i].at <= loop[i].upto
  /\ LET a == loop[i].account
         n == loop[i].at
     IN  \/ Take(a, n)
         \/ Refuse(a, n) /\ UNCHANGED <<context, settled>>
         \/ UNCHANGED <<context, refused, settled>>
  /\ NextInBatch(i)
  /\ UNCHANGED <<life, credentials, logins, active, unsaved, cursor>>

\* The batch goes on behind a message that was taken or refused.  Where onInbound
\* throws anything else, whatever it had done, the batch is given up.
Accept(i) ==
  /\ loop[i].pc = "batch" /\ loop[i].at <= loop[i].upto
  /\ LET a == loop[i].account
         n == loop[i].at
         GiveUp == IF loop[i].aborted THEN Ends(i) ELSE Rests(i)
     IN  \/ Take(a, n) /\ (NextInBatch(i) \/ GiveUp)
         \/ Refuse(a, n) /\ UNCHANGED <<context, settled>> /\ NextInBatch(i)
         \/ /\ Materialize(a, n) \/ UNCHANGED context
            /\ UNCHANGED <<refused, settled>> /\ GiveUp
  /\ UNCHANGED <<life, credentials, logins, active, unsaved, cursor>>

\* Behind the batch its cursor is saved, also when the loop was told to end; the
\* loop goes on behind it, also when it could not be stored.
SaveCursor(i) ==
  /\ loop[i].pc = "batch" /\ loop[i].at > loop[i].upto
  /\ \/ cursor' = [cursor EXCEPT ![loop[i].account] = loop[i].upto]
     \/ UNCHANGED cursor
  /\ loop' = [loop EXCEPT ![i].pc = "rest", ![i].from = loop[i].upto,
                          ![i].at = 0, ![i].upto = 0]
  /\ UNCHANGED <<life, credentials, logins, task, active, unsaved, context, refused, settled>>

\* Faulty variant: a loop that was told to end polls on after its pause.
RestUnheeding(i) ==
  /\ loop[i].pc = "rest"
  /\ loop' = [loop EXCEPT ![i].pc = "fetch", ![i].aborted = FALSE]
  /\ UNCHANGED <<life, credentials, logins, task, stored>>

Rest(i) ==
  /\ loop[i].pc = "rest"
  /\ IF loop[i].aborted THEN Ends(i)
     ELSE loop' = [loop EXCEPT ![i].pc = "fetch"] /\ UNCHANGED task
  /\ UNCHANGED <<life, credentials, logins, stored>>

Poll(i) == Fetch(i) \/ Accept(i) \/ SaveCursor(i) \/ Rest(i)

----------------------------------------------------------------------------
(* Login. *)

Call(op, g) == [op |-> op, gen |-> g, account |-> None]

MoreCalls == Cardinality(calls) + Len(queue) < MaxCalls

StartLogin ==
  /\ life = "up" /\ MoreCalls /\ generation < MaxLogins
  /\ generation' = generation + 1
  /\ calls' = calls \cup {Call("open", generation + 1)}
  /\ UNCHANGED <<life, credentials, login, queue, loop, task, stored>>

PollLogin ==
  /\ life = "up" /\ MoreCalls /\ login # 0
  /\ \/ login' = 0 /\ UNCHANGED calls
     \/ calls' = calls \cup {Call("apply", login)} /\ UNCHANGED login
  /\ UNCHANGED <<life, credentials, generation, queue, loop, task, stored>>

\* The provider answers: the call joins the transitions, or it throws.  The
\* account is that of a confirmed login.
Answered(c) ==
  /\ calls' = calls \ {c}
  /\ \/ queue' = Append(queue, c)
     \/ /\ c.op = "apply"
        /\ \E op \in {"drop", "rejoin"} : queue' = Append(queue, [c EXCEPT !.op = op])
     \/ /\ c.op = "apply"
        /\ \E a \in Account :
             queue' = Append(queue, [c EXCEPT !.op = "confirm", !.account = a])
     \/ UNCHANGED queue
  /\ UNCHANGED <<life, credentials, generation, login, loop, task, stored>>

Turn(op) == queue # <<>> /\ Head(queue).op = op

Done == queue' = Tail(queue)

\* Of this transition's generation, and not stopped.
Latest == Head(queue).gen = generation /\ ~Stopped

\* #login is still the login that was asked about, and the latest one.
Current == login = Head(queue).gen /\ Latest

Open ==
  /\ Turn("open") /\ Done
  /\ login' = IF Latest THEN generation ELSE login
  /\ UNCHANGED <<life, credentials, generation, calls, loop, task, stored>>

\* "wait", "scaned", "need_verifycode" and a redirect leave the login waiting.
Wait ==
  /\ Turn("apply") /\ Done
  /\ UNCHANGED <<life, credentials, generation, login, calls, loop, task, stored>>

\* "expired" and "verify_code_blocked".
Drop ==
  /\ Turn("drop") /\ Done
  /\ login' = IF Current THEN 0 ELSE login
  /\ UNCHANGED <<life, credentials, generation, calls, loop, task, stored>>

\* "binded_redirect".
Rejoin ==
  /\ Turn("rejoin") /\ Done
  /\ IF Current THEN login' = 0 /\ StartPolling(credentials)
     ELSE UNCHANGED <<login, loop, task>>
  /\ UNCHANGED <<life, credentials, generation, calls, stored>>

\* "confirmed": the loop of the account before is told to end.
Confirm ==
  /\ Turn("confirm")
  /\ IF Current
     THEN /\ login' = 0 /\ Abort
          /\ queue' = <<[Head(queue) EXCEPT !.op = "swap"]>> \o Tail(queue)
     ELSE Done /\ UNCHANGED <<login, loop, task>>
  /\ UNCHANGED <<life, credentials, generation, calls, stored>>

\* setActiveChannelAccount stores the account and the loop is started.  Where it
\* throws, the adapter is logged in all the same: nothing is stored, nothing polls.
Activate(a) ==
  /\ credentials' = a
  /\ \/ active' = a /\ unsaved' = FALSE /\ StartPolling(a)
     \/ unsaved' = TRUE /\ UNCHANGED <<active, loop, task>>

\* Faulty variant: what happened while the loop ended is not looked at.
SwapUnchecked ==
  /\ Turn("swap") /\ ~Polling /\ Done
  /\ Activate(Head(queue).account)
  /\ UNCHANGED <<life, generation, login, calls, cursor, context, refused, settled>>

\* Once that loop has ended the new account takes its place, unless a newer
\* login or a stop came in between: then the old account is polled again.
Swap ==
  /\ Turn("swap") /\ ~Polling /\ Done
  /\ IF Latest THEN Activate(Head(queue).account)
     ELSE StartPolling(credentials) /\ UNCHANGED <<credentials, active, unsaved>>
  /\ UNCHANGED <<life, generation, login, calls, cursor, context, refused, settled>>

----------------------------------------------------------------------------
(* start, stop, and the process around them. *)

Start ==
  /\ life = "fresh" /\ life' = "up"
  /\ generation' = generation + 1
  /\ credentials' = active
  /\ IF active = None THEN UNCHANGED <<loop, task>> ELSE Launch(active)
  /\ UNCHANGED <<login, calls, queue, stored>>

Stop ==
  /\ life = "up" /\ life' = "stopping"
  /\ generation' = generation + 1
  /\ queue' = Append(queue, Call("stop", generation + 1))
  /\ UNCHANGED <<credentials, login, calls, loop, task, stored>>

StopLoop ==
  /\ Turn("stop")
  /\ login' = 0 /\ Abort
  /\ queue' = <<[Head(queue) EXCEPT !.op = "halt"]>> \o Tail(queue)
  /\ UNCHANGED <<life, credentials, generation, calls, stored>>

\* Faulty variant: stop does not await the loop.
HaltAtOnce ==
  /\ Turn("halt") /\ Done
  /\ life' = "over"
  /\ UNCHANGED <<credentials, generation, login, calls, loop, task, stored>>

Halt ==
  /\ Turn("halt") /\ ~Polling /\ Done
  /\ life' = "over"
  /\ UNCHANGED <<credentials, generation, login, calls, loop, task, stored>>

\* The process dies, or exits after its stop, and a new one has a new adapter.
Restart ==
  /\ life # "fresh" /\ life' = "fresh"
  /\ credentials' = None /\ generation' = 0 /\ login' = 0
  /\ calls' = {} /\ queue' = <<>>
  /\ loop' = [i \in Slot |-> Off] /\ task' = 0
  /\ unsaved' = FALSE
  /\ UNCHANGED <<active, cursor, context, refused, settled>>

Init ==
  /\ life = "fresh" /\ credentials = None /\ generation = 0 /\ login = 0
  /\ calls = {} /\ queue = <<>>
  /\ loop = [i \in Slot |-> Off] /\ task = 0
  /\ active = None /\ unsaved = FALSE
  /\ cursor = [a \in Account |-> 0] /\ context = [a \in Account |-> 0]
  /\ refused = [a \in Account |-> {}] /\ settled = [a \in Account |-> {}]

Transition ==
  Open \/ Wait \/ Drop \/ Rejoin \/ Confirm \/ Swap \/ StopLoop \/ Halt

Next ==
  \/ \E i \in Slot : Poll(i)
  \/ StartLogin \/ PollLogin \/ \E c \in calls : Answered(c)
  \/ Transition
  \/ Start \/ Stop \/ Restart

Spec == Init /\ [][Next]_vars

\* getUpdates has a timeout, onInbound returns, pauses end, and what is awaited
\* is taken up once it is there.
FairSpec == Spec /\ WF_vars(Transition) /\ \A i \in Slot : WF_vars(Poll(i))

----------------------------------------------------------------------------
(* Correctness. *)

Op == {"open", "apply", "drop", "rejoin", "confirm", "swap", "stop", "halt"}
CallRecord == [op : Op, gen : Nat, account : Account \cup {None}]

\* Types of the adapter's memory and of what it stores.
TypeOK ==
  /\ life \in {"fresh", "up", "stopping", "over"}
  /\ credentials \in Account \cup {None} /\ active \in Account \cup {None}
  /\ generation \in Nat /\ login \in Nat
  /\ calls \subseteq CallRecord /\ queue \in Seq(CallRecord)
  /\ loop \in [Slot -> [pc : {"off", "fetch", "batch", "rest"},
                        account : Account \cup {None}, aborted : BOOLEAN,
                        from : Nat, at : Nat, upto : Nat]]
  /\ task \in Slot \cup {0} /\ unsaved \in BOOLEAN
  /\ cursor \in [Account -> Nat] /\ context \in [Account -> Nat]
  /\ refused \in [Account -> SUBSET Nat] /\ settled \in [Account -> SUBSET Nat]

\* The stored cursor is never past a message that was neither taken nor refused,
\* whatever failed, was stopped or died in the middle of a batch, and whichever
\* account was logged in meanwhile.
CursorFollowsAdmission ==
  \A a \in Account : 1 .. cursor[a] \subseteq settled[a] \cup refused[a]

\* There is one poll loop at most, and it is the one the adapter knows of.
OneLoop == \A i \in Slot : loop[i].pc # "off" => task = i

\* What polls is one loop.  Of a channel that is logged in and not stopping, with no
\* confirmed login just replacing the account, it is a loop of that account that
\* nobody told to end; and it is there, and a restart would use the same account,
\* unless that account could not be stored when its login was confirmed.
LoggedInPolls ==
  /\ OneLoop
  /\ life = "up" /\ credentials # None /\ ~Turn("swap") =>
       /\ task # 0 => loop[task].account = credentials /\ ~loop[task].aborted
       /\ ~unsaved => task # 0 /\ active = credentials

\* After a stop nothing polls, whatever logins were under way.
QuietAfterStop == life = "over" => \A i \in Slot : loop[i].pc = "off"

\* Only the latest login, of a channel that is not stopped, changes the account.
LatestLoginWins ==
  [][life # "fresh" /\ credentials' \notin {None, credentials} =>
       ~Stopped /\ Head(queue).gen = generation]_vars

\* The context token of a conversation is never replaced by that of an older
\* message, neither by a batch that is redelivered nor by a restart in the middle
\* of one, except that of a message that had been refused.
ContextNeverOlder ==
  [][\A a \in Account : context'[a] < context[a] => context'[a] \in refused[a]]_vars

\* Nothing waits for what does not come: a transition that awaits the end of the poll
\* loop has told it to end, only the first one awaits anything, and a stop that has
\* not completed is still among the transitions.
WaitsAreAnswered ==
  /\ (Turn("swap") \/ Turn("halt")) /\ task # 0 =>
       loop[task].pc # "off" /\ loop[task].aborted
  /\ \A k \in DOMAIN queue : queue[k].op \in {"swap", "halt"} => k = 1
  /\ life = "stopping" => \E k \in DOMAIN queue : queue[k].op \in {"stop", "halt"}

\* A stop completes although it waits for the transition before it, which may
\* itself be waiting for the loop.
StopCompletes == life = "stopping" ~> life # "stopping"
================================================================================
