------------------------------ MODULE WeixinProofs ------------------------------
(* Proofs about WeixinChannel: the cursor, the context token, the one loop, and *)
(* the account it polls.                                                        *)
EXTENDS WeixinChannel, TLAPS

(* The strengthening.  A loop has an account (Loops); a channel that was not     *)
(* started yet has nothing under way (Fresh); transitions are of the calls that  *)
(* queue them, and none stops a channel that is up (Queued); what lies behind a  *)
(* loop's place in its batch, and before a context token, was dealt with         *)
(* (Handling); what polls is the account logged in, only a swap under way may    *)
(* have told it to end, and it is there, and the account is the stored one,      *)
(* unless that could not be stored (Following).                                  *)
Handled(a) == settled[a] \cup refused[a]

Loops == OneLoop /\ \A i \in Slot : loop[i].pc # "off" => loop[i].account \in Account

Fresh == life = "fresh" =>
           credentials = None /\ task = 0 /\ queue = <<>> /\ calls = {}

Asked(c) == c.op \in {"open", "apply"}

Queued ==
  /\ \A c \in calls : Asked(c)
  /\ \A k \in DOMAIN queue :
       /\ queue[k].op \in {"confirm", "swap"} => queue[k].account \in Account
       /\ life \in {"fresh", "up"} => queue[k].op \notin {"stop", "halt"}

Passed(i) ==
  /\ loop[i].pc # "off" => 1 .. loop[i].from \subseteq Handled(loop[i].account)
  /\ loop[i].pc = "batch" =>
       /\ loop[i].at >= 1
       /\ 1 .. (loop[i].at - 1) \subseteq Handled(loop[i].account)

Handling ==
  /\ \A a \in Account : 1 .. cursor[a] \subseteq Handled(a)
  /\ \A a \in Account : \A n \in 1 .. context[a] : n < context[a] => n \in Handled(a)
  /\ \A i \in Slot : Passed(i)

Following ==
  life = "up" /\ credentials # None =>
    /\ task # 0 => loop[task].account = credentials
    /\ task # 0 /\ ~Turn("swap") => ~loop[task].aborted
    /\ ~unsaved => active = credentials /\ (~Turn("swap") => task # 0)

WeixinInv ==
  TypeOK /\ Loops /\ Fresh /\ Queued /\ Handling /\ Following /\ QuietAfterStop

(* What the adapter keeps while only the calls of a login come and go.           *)
Loop == [pc : {"off", "fetch", "batch", "rest"}, account : Account \cup {None},
         aborted : BOOLEAN, from : Nat, at : Nat, upto : Nat]

LEMMA InitialInv == Init => WeixinInv
<1> SUFFICES ASSUME Init PROVE WeixinInv
  OBVIOUS
<1>1. /\ loop \in [Slot -> Loop] /\ \A i \in Slot : loop[i].pc = "off"
      /\ queue \in Seq(CallRecord) /\ DOMAIN queue = {}
  BY DEF Init, Off, Loop
<1>2. TypeOK
  BY <1>1 DEF Init, TypeOK, Loop
<1>3. Loops /\ Fresh /\ Queued /\ Following /\ QuietAfterStop
  BY <1>1 DEF Init, Loops, OneLoop, Fresh, Queued, Following, QuietAfterStop
<1>4. Handling
  BY <1>1 DEF Init, Handling, Passed, Handled
<1> QED BY <1>2, <1>3, <1>4 DEF WeixinInv

(* What a launch leaves: one loop, of the account, at that account's cursor.     *)
LEMMA LaunchLeavesOne ==
  ASSUME TypeOK, OneLoop, task = 0, NEW a \in Account, Launch(a)
  PROVE  /\ loop' \in [Slot -> Loop] /\ task' \in Slot
         /\ loop'[task'] = NewLoop(a)
         /\ \A j \in Slot : j # task' => loop'[j].pc = "off"
<1>1. NewLoop(a) \in Loop /\ NewLoop(a).pc = "fetch"
  BY DEF NewLoop, Off, Loop, TypeOK
<1>2. loop \in [Slot -> Loop] /\ \A j \in Slot : loop[j].pc = "off"
  BY DEF TypeOK, Loop, OneLoop, Slot
<1>3. PICK i \in Slot : loop' = [loop EXCEPT ![i] = NewLoop(a)] /\ task' = i
  BY DEF Launch
<1> QED BY <1>1, <1>2, <1>3

(* A launch, or none, keeps what is true of loops.                               *)
LEMMA LaunchKeeps ==
  ASSUME WeixinInv, task = 0, NEW a \in Account, Launch(a), UNCHANGED <<cursor, context, refused, settled>>
  PROVE  /\ loop' \in [Slot -> Loop] /\ task' \in Slot
         /\ Loops' /\ Handling'
         /\ loop'[task'].account = a /\ ~loop'[task'].aborted
<1>1. /\ loop' \in [Slot -> Loop] /\ task' \in Slot
      /\ loop'[task'] = NewLoop(a)
      /\ \A j \in Slot : j # task' => loop'[j].pc = "off"
  BY LaunchLeavesOne DEF WeixinInv, Loops
<1>2. /\ NewLoop(a).account = a /\ NewLoop(a).from = cursor[a] /\ NewLoop(a).pc = "fetch"
      /\ ~NewLoop(a).aborted
  BY DEF NewLoop, Off
<1>3. Loops'
  BY <1>1, <1>2 DEF Loops, OneLoop
<1>4. Handling'
  <2>1. \A i \in Slot : Passed(i)'
    BY <1>1, <1>2 DEF WeixinInv, Handling, Passed, Handled
  <2> QED BY <2>1 DEF WeixinInv, Handling, Handled
<1> QED BY <1>1, <1>2, <1>3, <1>4

(* A step that leaves the loops, the store and the account alone.                *)
LEMMA CallsKeepRest ==
  ASSUME WeixinInv, UNCHANGED <<credentials, loop, task, stored>>
  PROVE  Loops' /\ Handling'
BY DEF WeixinInv, Loops, OneLoop, Handling, Passed, Handled, stored

LEMMA StartLoginKeepsInv == ASSUME WeixinInv, StartLogin PROVE WeixinInv'
<1>1. Loops' /\ Handling'
  BY CallsKeepRest DEF StartLogin
<1>2. Call("open", generation + 1) \in CallRecord /\ Asked(Call("open", generation + 1))
  BY DEF WeixinInv, TypeOK, Call, CallRecord, Op, Asked
<1>3. TypeOK'
  BY <1>2 DEF WeixinInv, TypeOK, StartLogin, stored
<1>4. Fresh' /\ Following' /\ QuietAfterStop'
  BY DEF WeixinInv, Fresh, Following, QuietAfterStop, StartLogin, Turn, stored
<1>5. Queued'
  BY <1>2 DEF WeixinInv, Queued, StartLogin
<1> QED BY <1>1, <1>3, <1>4, <1>5 DEF WeixinInv

LEMMA PollLoginKeepsInv == ASSUME WeixinInv, PollLogin PROVE WeixinInv'
<1>1. Loops' /\ Handling'
  BY CallsKeepRest DEF PollLogin
<1>2. Call("apply", login) \in CallRecord /\ Asked(Call("apply", login))
  BY DEF WeixinInv, TypeOK, Call, CallRecord, Op, Asked
<1>3. TypeOK'
  BY <1>2 DEF WeixinInv, TypeOK, PollLogin, stored
<1>4. Fresh' /\ Following' /\ QuietAfterStop'
  BY DEF WeixinInv, Fresh, Following, QuietAfterStop, PollLogin, Turn, stored
<1>5. Queued'
  BY <1>2 DEF WeixinInv, Queued, PollLogin
<1> QED BY <1>1, <1>3, <1>4, <1>5 DEF WeixinInv

(* A transition that joins the others leaves the one under way where it is.      *)
LEMMA AppendKeepsQueue ==
  ASSUME WeixinInv, NEW c \in CallRecord,
         c.op \in {"confirm", "swap"} => c.account \in Account,
         queue' = Append(queue, c)
  PROVE  /\ queue' \in Seq(CallRecord) /\ queue' # <<>>
         /\ \A k \in DOMAIN queue' : queue'[k] = c \/ (k \in DOMAIN queue /\ queue'[k] = queue[k])
         /\ \A op : Turn(op) => Turn(op)'
BY DEF WeixinInv, TypeOK, Turn

LEMMA AnsweredKeepsInv == ASSUME WeixinInv, NEW c \in calls, Answered(c) PROVE WeixinInv'
<1>1. Loops' /\ Handling'
  BY CallsKeepRest DEF Answered
<1>2. c \in CallRecord /\ Asked(c) /\ life # "fresh"
  BY DEF WeixinInv, TypeOK, Queued, Fresh
<1>3. CASE UNCHANGED queue
  BY <1>1, <1>2, <1>3 DEF WeixinInv, TypeOK, Fresh, Queued, Following, QuietAfterStop, Turn, Answered, stored
<1>4. ASSUME NEW d \in CallRecord, queue' = Append(queue, d),
             d.op \in {"open", "apply", "drop", "rejoin", "confirm"},
             d.op = "confirm" => d.account \in Account
      PROVE  WeixinInv'
  <2>1. /\ queue' \in Seq(CallRecord) /\ queue' # <<>>
        /\ \A k \in DOMAIN queue' : queue'[k] = d \/ (k \in DOMAIN queue /\ queue'[k] = queue[k])
        /\ Turn("swap") => Turn("swap")'
    BY <1>4, AppendKeepsQueue
  <2>2. TypeOK'
    BY <2>1 DEF WeixinInv, TypeOK, Answered, stored
  <2>3. Queued'
    BY <1>4, <2>1 DEF WeixinInv, Queued, Answered
  <2>4. Fresh' /\ Following' /\ QuietAfterStop'
    BY <1>2, <2>1 DEF WeixinInv, Fresh, Following, QuietAfterStop, Answered, stored
  <2> QED BY <1>1, <2>2, <2>3, <2>4 DEF WeixinInv
<1>5. CASE queue' = Append(queue, c)
  BY <1>2, <1>4, <1>5 DEF Asked
<1>6. ASSUME NEW op \in {"drop", "rejoin"}, queue' = Append(queue, [c EXCEPT !.op = op])
      PROVE  WeixinInv'
  <2>1. [c EXCEPT !.op = op] \in CallRecord /\ [c EXCEPT !.op = op].op = op
    BY <1>2 DEF CallRecord, Op
  <2> QED BY <1>4, <1>6, <2>1
<1>7. ASSUME NEW a \in Account, queue' = Append(queue, [c EXCEPT !.op = "confirm", !.account = a])
      PROVE  WeixinInv'
  <2> DEFINE d == [c EXCEPT !.op = "confirm", !.account = a]
  <2>1. d \in CallRecord /\ d.op = "confirm" /\ d.account \in Account
    BY <1>2 DEF CallRecord, Op
  <2> HIDE DEF d
  <2>2. queue' = Append(queue, d)
    BY <1>7 DEF d
  <2> QED BY <1>4, <2>1, <2>2
<1> QED BY <1>3, <1>5, <1>6, <1>7 DEF Answered

(* What one loop does keeps the invariant if its own record stays in its type,   *)
(* it keeps its account and whether it was told to end, what it is past was dealt *)
(* with, and the account is kept or logged out; or if it ends, where that does    *)
(* not leave a logged-in account.                                                 *)
LEMMA StepOfLoop ==
  ASSUME WeixinInv, NEW i \in Slot, loop[i].pc # "off", NEW r \in Loop,
         loop' = [loop EXCEPT ![i] = r], UNCHANGED <<task, life, logins, active, unsaved>>,
         credentials' \in {credentials, None},
         r.pc # "off", r.account = loop[i].account, r.aborted = loop[i].aborted,
         cursor' \in [Account -> Nat], context' \in [Account -> Nat],
         refused' \in [Account -> SUBSET Nat], settled' \in [Account -> SUBSET Nat],
         Handling'
  PROVE  WeixinInv'
<1>1. task = i /\ life # "over" /\ task \in Slot
  BY DEF WeixinInv, Loops, OneLoop, QuietAfterStop
<1>2. loop \in [Slot -> Loop]
  BY DEF WeixinInv, TypeOK, Loop
<1>3. TypeOK'
  BY <1>2 DEF WeixinInv, TypeOK, Loop, logins
<1>4. Loops' /\ Fresh' /\ Queued' /\ QuietAfterStop'
  BY <1>1, <1>2 DEF WeixinInv, Loops, OneLoop, Fresh, Queued, QuietAfterStop, logins
<1>5. Following'
  BY <1>1, <1>2 DEF WeixinInv, Following, Turn, logins
<1> QED BY <1>3, <1>4, <1>5 DEF WeixinInv

LEMMA EndOfLoop ==
  ASSUME WeixinInv, NEW i \in Slot, loop[i].pc # "off", Ends(i),
         (loop[i].aborted /\ UNCHANGED credentials) \/ credentials' = None,
         UNCHANGED <<life, logins, active, unsaved>>,
         cursor' \in [Account -> Nat], context' \in [Account -> Nat],
         refused' \in [Account -> SUBSET Nat], settled' \in [Account -> SUBSET Nat],
         \A a \in Account : Handled(a) \subseteq Handled(a)',
         \A a \in Account : 1 .. cursor'[a] \subseteq Handled(a)',
         \A a \in Account : \A n \in 1 .. context'[a] : n < context'[a] => n \in Handled(a)'
  PROVE  WeixinInv'
<1>1. task = i /\ life # "over" /\ life # "fresh" /\ task' = 0
  BY DEF WeixinInv, Loops, OneLoop, QuietAfterStop, Fresh, Ends, Slot
<1>2. loop \in [Slot -> Loop] /\ Off \in Loop /\ Off.pc = "off"
  BY DEF WeixinInv, TypeOK, Loop, Off
<1>3. loop' = [loop EXCEPT ![i] = Off] /\ \A j \in Slot : loop'[j].pc = "off"
  BY <1>1, <1>2 DEF WeixinInv, Loops, OneLoop, Ends
<1>4. loop' \in [Slot -> Loop]
  BY <1>2, <1>3
<1>5. TypeOK'
  BY <1>1, <1>4 DEF WeixinInv, TypeOK, Loop, logins
<1>6. Loops' /\ Fresh' /\ Queued' /\ QuietAfterStop'
  BY <1>1, <1>3 DEF WeixinInv, Loops, OneLoop, Fresh, Queued, QuietAfterStop, logins
<1>7. Following'
  BY <1>1 DEF WeixinInv, Following, Turn, logins
<1>8. Handling'
  BY <1>3 DEF Handling, Passed
<1> QED BY <1>5, <1>6, <1>7, <1>8 DEF WeixinInv

LEMMA RestOfLoop ==
  ASSUME WeixinInv, NEW i \in Slot, loop[i].pc # "off", Rests(i),
         UNCHANGED <<life, logins, active, unsaved>>, credentials' \in {credentials, None},
         cursor' \in [Account -> Nat], context' \in [Account -> Nat],
         refused' \in [Account -> SUBSET Nat], settled' \in [Account -> SUBSET Nat],
         \A a \in Account : Handled(a) \subseteq Handled(a)',
         \A a \in Account : 1 .. cursor'[a] \subseteq Handled(a)',
         \A a \in Account : \A n \in 1 .. context'[a] : n < context'[a] => n \in Handled(a)'
  PROVE  WeixinInv'
<1> DEFINE r == [loop[i] EXCEPT !.pc = "rest", !.at = 0, !.upto = 0]
<1>1. loop \in [Slot -> Loop] /\ loop[i] \in Loop /\ \A j \in Slot : loop[j].pc # "off" => j = i /\ loop[j].account \in Account
  BY DEF WeixinInv, TypeOK, Loop, Loops, OneLoop, Slot
<1>2. /\ r \in Loop /\ r.pc = "rest" /\ r.account = loop[i].account
      /\ r.aborted = loop[i].aborted /\ r.from = loop[i].from
  BY <1>1 DEF Loop
<1>3. loop' = [loop EXCEPT ![i] = r] /\ UNCHANGED task
  BY <1>1 DEF Rests
<1> HIDE DEF r
<1>4. \A j \in Slot : Passed(j)'
  BY <1>1, <1>2, <1>3 DEF WeixinInv, Handling, Passed
<1>5. Handling'
  BY <1>4 DEF Handling
<1> QED BY <1>1, <1>2, <1>3, <1>5, StepOfLoop

LEMMA FetchKeepsInv == ASSUME WeixinInv, NEW i \in Slot, Fetch(i) PROVE WeixinInv'
<1>1. /\ loop[i].pc = "fetch" /\ loop \in [Slot -> Loop] /\ loop[i] \in Loop
      /\ loop[i].account \in Account
  BY DEF WeixinInv, TypeOK, Loop, Loops, Fetch
<1>2. /\ UNCHANGED <<life, logins, active, unsaved, cursor, context, refused, settled>>
      /\ cursor' \in [Account -> Nat] /\ context' \in [Account -> Nat]
      /\ refused' \in [Account -> SUBSET Nat] /\ settled' \in [Account -> SUBSET Nat]
  BY DEF WeixinInv, TypeOK, Fetch, stored
<1>3. /\ \A a \in Account : Handled(a) \subseteq Handled(a)'
      /\ \A a \in Account : 1 .. cursor'[a] \subseteq Handled(a)'
      /\ \A a \in Account : \A n \in 1 .. context'[a] : n < context'[a] => n \in Handled(a)'
  BY <1>2 DEF WeixinInv, Handling, Handled
<1>4. ASSUME Ends(i), (loop[i].aborted /\ UNCHANGED credentials) \/ credentials' = None
      PROVE  WeixinInv'
  BY <1>1, <1>2, <1>3, <1>4, EndOfLoop
<1>5. ASSUME NEW k \in Nat, Fetched(i, k), UNCHANGED credentials PROVE WeixinInv'
  <2> DEFINE r == [loop[i] EXCEPT !.pc = "batch", !.at = loop[i].from + 1, !.upto = k]
  <2>1. /\ r \in Loop /\ r.pc = "batch" /\ r.account = loop[i].account
        /\ r.aborted = loop[i].aborted /\ r.from = loop[i].from
        /\ r.at = loop[i].from + 1
    <3>1. loop[i].from \in Nat /\ loop[i].from + 1 \in Nat
      BY <1>1 DEF Loop
    <3> QED BY <1>1, <3>1 DEF Loop
  <2>2. loop' = [loop EXCEPT ![i] = r] /\ UNCHANGED task
    BY <1>1, <1>5 DEF Fetched
  <2> HIDE DEF r
  <2>3. r.at >= 1 /\ r.at - 1 = loop[i].from
    BY <1>1, <2>1 DEF Loop
  <2>4. \A j \in Slot : Passed(j)'
    BY <1>1, <1>2, <2>1, <2>2, <2>3 DEF WeixinInv, Handling, Passed, Handled
  <2>5. Handling'
    BY <1>3, <2>4 DEF Handling
  <2> QED BY <1>1, <1>2, <1>5, <2>1, <2>2, <2>5, StepOfLoop
<1>6. ASSUME Rests(i), credentials' \in {credentials, None} PROVE WeixinInv'
  BY <1>1, <1>2, <1>3, <1>6, RestOfLoop
<1> QED BY <1>1, <1>4, <1>5, <1>6, WeixinConstants DEF Fetch, Loop

(* One message of a batch, at the loop's place: what it adds is dealt with, and   *)
(* a context token comes only with what was dealt with up to it.                  *)
LEMMA HandlingGrows ==
  ASSUME WeixinInv, NEW i \in Slot, loop[i].pc = "batch",
         NEW a, a = loop[i].account, NEW n, n = loop[i].at,
         UNCHANGED cursor,
         \/ Take(a, n)
         \/ Refuse(a, n) /\ UNCHANGED <<context, settled>>
         \/ (Materialize(a, n) \/ UNCHANGED context) /\ UNCHANGED <<refused, settled>>
  PROVE  /\ cursor' \in [Account -> Nat] /\ context' \in [Account -> Nat]
         /\ refused' \in [Account -> SUBSET Nat] /\ settled' \in [Account -> SUBSET Nat]
         /\ \A b \in Account : Handled(b) \subseteq Handled(b)'
         /\ \A b \in Account : 1 .. cursor'[b] \subseteq Handled(b)'
         /\ \A b \in Account : \A k \in 1 .. context'[b] : k < context'[b] => k \in Handled(b)'
<1>1. a \in Account /\ n \in Nat /\ 1 .. (n - 1) \subseteq Handled(a) /\ n >= 1
  BY DEF WeixinInv, TypeOK, Loops, Handling, Passed
<1>2. /\ cursor' \in [Account -> Nat]
      /\ refused' \in [Account -> SUBSET Nat] /\ settled' \in [Account -> SUBSET Nat]
      /\ \A b \in Account : Handled(b) \subseteq Handled(b)'
  <2>1. CASE Take(a, n)
    BY <1>1, <2>1 DEF WeixinInv, TypeOK, Take, Settle, Handled
  <2>2. CASE Refuse(a, n) /\ UNCHANGED settled
    BY <1>1, <2>2 DEF WeixinInv, TypeOK, Refuse, Handled
  <2>3. CASE UNCHANGED <<refused, settled>>
    BY <1>1, <2>3 DEF WeixinInv, TypeOK, Handled
  <2> QED BY <2>1, <2>2, <2>3
<1>3. context' = context \/ context' = [context EXCEPT ![a] = n]
  BY DEF Take, Materialize
<1>4. context' \in [Account -> Nat]
  BY <1>1, <1>3 DEF WeixinInv, TypeOK
<1>5. \A b \in Account : 1 .. cursor'[b] \subseteq Handled(b)'
  BY <1>2 DEF WeixinInv, Handling
<1>6. \A b \in Account : \A k \in 1 .. context'[b] : k < context'[b] => k \in Handled(b)'
  <2>1. CASE context' = context
    BY <1>2, <2>1 DEF WeixinInv, Handling
  <2>2. CASE context' = [context EXCEPT ![a] = n]
    <3>1. context'[a] = n /\ \A b \in Account : b # a => context'[b] = context[b]
      BY <1>1, <2>2 DEF WeixinInv, TypeOK
    <3>2. \A k \in 1 .. n : k < n => k \in Handled(a)
      BY <1>1
    <3> QED BY <1>1, <1>2, <3>1, <3>2 DEF WeixinInv, Handling
  <2> QED BY <1>3, <2>1, <2>2
<1> QED BY <1>2, <1>4, <1>5, <1>6

(* The batch moves on once its message was dealt with.                            *)
LEMMA NextInBatchKeepsInv ==
  ASSUME WeixinInv, NEW i \in Slot, loop[i].pc = "batch",
         NEW a, a = loop[i].account, NEW n, n = loop[i].at,
         NextInBatch(i), UNCHANGED <<life, credentials, logins, active, unsaved, cursor>>,
         Take(a, n) \/ (Refuse(a, n) /\ UNCHANGED <<context, settled>>)
  PROVE  WeixinInv'
<1> DEFINE r == [loop[i] EXCEPT !.at = @ + 1]
<1>1. /\ loop \in [Slot -> Loop] /\ loop[i] \in Loop /\ a \in Account /\ n \in Nat /\ n >= 1
      /\ \A j \in Slot : loop[j].pc # "off" => j = i
      /\ 1 .. (n - 1) \subseteq Handled(a)
  BY DEF WeixinInv, TypeOK, Loop, Loops, OneLoop, Slot, Handling, Passed
<1>2. /\ r \in Loop /\ r.pc = "batch" /\ r.account = a
      /\ r.aborted = loop[i].aborted /\ r.from = loop[i].from /\ r.at = n + 1
  BY <1>1 DEF Loop
<1>3. loop' = [loop EXCEPT ![i] = r] /\ UNCHANGED task
  BY <1>1 DEF NextInBatch
<1> HIDE DEF r
<1>4. /\ cursor' \in [Account -> Nat] /\ context' \in [Account -> Nat]
      /\ refused' \in [Account -> SUBSET Nat] /\ settled' \in [Account -> SUBSET Nat]
      /\ \A b \in Account : Handled(b) \subseteq Handled(b)'
      /\ \A b \in Account : 1 .. cursor'[b] \subseteq Handled(b)'
      /\ \A b \in Account : \A k \in 1 .. context'[b] : k < context'[b] => k \in Handled(b)'
  BY HandlingGrows
<1>5. n \in Handled(a)'
  BY <1>1 DEF WeixinInv, TypeOK, Take, Settle, Refuse, Handled
<1>6. 1 .. (r.at - 1) \subseteq Handled(a)' /\ r.at >= 1
  <2>1. \A k \in 1 .. n : k = n \/ k \in 1 .. (n - 1)
    BY <1>1
  <2> QED BY <1>1, <1>2, <1>4, <1>5, <2>1
<1>7. 1 .. loop[i].from \subseteq Handled(a)'
  BY <1>1, <1>4 DEF WeixinInv, Handling, Passed
<1>8. \A j \in Slot : Passed(j)'
  <2> TAKE j \in Slot
  <2>1. CASE j = i
    BY <1>1, <1>2, <1>3, <1>6, <1>7, <2>1 DEF Passed
  <2>2. CASE j # i
    BY <1>1, <1>3, <2>2 DEF Passed
  <2> QED BY <2>1, <2>2
<1>9. Handling'
  BY <1>4, <1>8 DEF Handling
<1> QED BY <1>1, <1>2, <1>3, <1>4, <1>9, StepOfLoop

LEMMA AcceptKeepsInv == ASSUME WeixinInv, NEW i \in Slot, Accept(i) PROVE WeixinInv'
<1> DEFINE a == loop[i].account
           n == loop[i].at
           GiveUp == IF loop[i].aborted THEN Ends(i) ELSE Rests(i)
<1>1. /\ loop[i].pc = "batch" /\ loop[i].pc # "off"
      /\ UNCHANGED <<life, credentials, logins, active, unsaved, cursor>>
      /\ \/ Take(a, n) /\ (NextInBatch(i) \/ GiveUp)
         \/ Refuse(a, n) /\ UNCHANGED <<context, settled>> /\ NextInBatch(i)
         \/ /\ Materialize(a, n) \/ UNCHANGED context
            /\ UNCHANGED <<refused, settled>> /\ GiveUp
  BY DEF Accept
<1> HIDE DEF a, n
<1>2. a = loop[i].account /\ n = loop[i].at
  BY DEF a, n
<1>3. /\ cursor' \in [Account -> Nat] /\ context' \in [Account -> Nat]
      /\ refused' \in [Account -> SUBSET Nat] /\ settled' \in [Account -> SUBSET Nat]
      /\ \A b \in Account : Handled(b) \subseteq Handled(b)'
      /\ \A b \in Account : 1 .. cursor'[b] \subseteq Handled(b)'
      /\ \A b \in Account : \A k \in 1 .. context'[b] : k < context'[b] => k \in Handled(b)'
  BY <1>1, <1>2, HandlingGrows
<1>4. CASE NextInBatch(i) /\ (Take(a, n) \/ (Refuse(a, n) /\ UNCHANGED <<context, settled>>))
  BY <1>1, <1>2, <1>4, NextInBatchKeepsInv
<1>5. CASE loop[i].aborted /\ Ends(i)
  BY <1>1, <1>3, <1>5, EndOfLoop
<1>6. CASE Rests(i)
  BY <1>1, <1>3, <1>6, RestOfLoop
<1>7. \/ NextInBatch(i) /\ (Take(a, n) \/ (Refuse(a, n) /\ UNCHANGED <<context, settled>>))
      \/ GiveUp
  BY <1>1
<1>8. GiveUp => Rests(i) \/ (loop[i].aborted /\ Ends(i))
  OBVIOUS
<1> QED BY <1>4, <1>5, <1>6, <1>7, <1>8

LEMMA SaveCursorKeepsInv == ASSUME WeixinInv, NEW i \in Slot, SaveCursor(i) PROVE WeixinInv'
<1> DEFINE a == loop[i].account
           r == [loop[i] EXCEPT !.pc = "rest", !.from = loop[i].upto, !.at = 0, !.upto = 0]
<1>1. /\ loop[i].pc = "batch" /\ loop[i].at > loop[i].upto /\ a \in Account
      /\ loop \in [Slot -> Loop] /\ loop[i] \in Loop
      /\ cursor' = [cursor EXCEPT ![a] = loop[i].upto] \/ UNCHANGED cursor
      /\ UNCHANGED <<life, credentials, logins, task, active, unsaved, context, refused, settled>>
      /\ \A j \in Slot : loop[j].pc # "off" => j = i
  BY DEF WeixinInv, TypeOK, Loop, Loops, OneLoop, Slot, SaveCursor
<1>2. r \in Loop /\ r.pc = "rest" /\ r.account = a /\ r.aborted = loop[i].aborted /\ r.from = loop[i].upto
  BY <1>1 DEF Loop
<1>3. loop' = [loop EXCEPT ![i] = r]
  BY <1>1 DEF SaveCursor
<1>4. loop[i].upto \in Nat /\ 1 .. loop[i].upto \subseteq Handled(a)
  <2>1. loop[i].at \in Nat /\ loop[i].upto \in Nat /\ 1 .. (loop[i].at - 1) \subseteq Handled(a)
    BY <1>1 DEF Loop, WeixinInv, Handling, Passed
  <2> QED BY <1>1, <2>1
<1> HIDE DEF a, r
<1>5. /\ cursor' \in [Account -> Nat] /\ context' \in [Account -> Nat]
      /\ refused' \in [Account -> SUBSET Nat] /\ settled' \in [Account -> SUBSET Nat]
      /\ \A b \in Account : Handled(b)' = Handled(b)
      /\ \A b \in Account : cursor'[b] = cursor[b] \/ (b = a /\ cursor'[b] = loop[i].upto)
  BY <1>1, <1>4 DEF WeixinInv, TypeOK, Handled
<1>6. \A b \in Account : 1 .. cursor'[b] \subseteq Handled(b)'
  BY <1>4, <1>5 DEF WeixinInv, Handling
<1>7. \A j \in Slot : Passed(j)'
  BY <1>1, <1>2, <1>3, <1>4, <1>5 DEF Passed
<1>8. Handling'
  BY <1>1, <1>5, <1>6, <1>7 DEF WeixinInv, Handling
<1>9. r.account = loop[i].account
  BY <1>2 DEF a
<1> QED BY <1>1, <1>2, <1>3, <1>5, <1>8, <1>9, StepOfLoop

LEMMA RestKeepsInv == ASSUME WeixinInv, NEW i \in Slot, Rest(i) PROVE WeixinInv'
<1>1. /\ loop[i].pc = "rest" /\ loop \in [Slot -> Loop] /\ loop[i] \in Loop
      /\ UNCHANGED <<life, credentials, logins, active, unsaved, cursor, context, refused, settled>>
      /\ \A j \in Slot : loop[j].pc # "off" => j = i /\ loop[j].account \in Account
  BY DEF WeixinInv, TypeOK, Loop, Loops, OneLoop, Slot, Rest, stored
<1>2. /\ cursor' \in [Account -> Nat] /\ context' \in [Account -> Nat]
      /\ refused' \in [Account -> SUBSET Nat] /\ settled' \in [Account -> SUBSET Nat]
      /\ \A a \in Account : Handled(a)' = Handled(a)
      /\ \A a \in Account : 1 .. cursor'[a] \subseteq Handled(a)'
      /\ \A a \in Account : \A n \in 1 .. context'[a] : n < context'[a] => n \in Handled(a)'
  BY <1>1 DEF WeixinInv, TypeOK, Handling, Handled
<1>3. CASE loop[i].aborted /\ Ends(i)
  BY <1>1, <1>2, <1>3, EndOfLoop
<1>4. CASE loop' = [loop EXCEPT ![i].pc = "fetch"] /\ UNCHANGED task
  <2> DEFINE r == [loop[i] EXCEPT !.pc = "fetch"]
  <2>1. /\ r \in Loop /\ r.pc = "fetch" /\ r.account = loop[i].account
        /\ r.aborted = loop[i].aborted /\ r.from = loop[i].from
    BY <1>1 DEF Loop
  <2>2. loop' = [loop EXCEPT ![i] = r]
    BY <1>1, <1>4
  <2> HIDE DEF r
  <2>3. \A j \in Slot : Passed(j)'
    BY <1>1, <1>2, <2>1, <2>2 DEF WeixinInv, Handling, Passed
  <2>4. Handling'
    BY <1>2, <2>3 DEF Handling
  <2> QED BY <1>1, <1>2, <1>4, <2>1, <2>2, <2>4, StepOfLoop
<1> QED BY <1>3, <1>4 DEF Rest

(* The transition that is done leaves those behind it.                             *)
LEMMA DoneLeavesRest ==
  ASSUME WeixinInv, queue # <<>>, Done
  PROVE  /\ queue' \in Seq(CallRecord)
         /\ \A k \in DOMAIN queue' : k + 1 \in DOMAIN queue /\ queue'[k] = queue[k + 1]
         /\ life \in {"fresh", "up"} => \A k \in DOMAIN queue' : queue'[k].op \notin {"stop", "halt"}
         /\ \A k \in DOMAIN queue' :
              queue'[k].op \in {"confirm", "swap"} => queue'[k].account \in Account
<1>1. queue' \in Seq(CallRecord) /\ \A k \in DOMAIN queue' : k + 1 \in DOMAIN queue /\ queue'[k] = queue[k + 1]
  BY DEF WeixinInv, TypeOK, Done
<1> QED BY <1>1 DEF WeixinInv, Queued

(* A transition that only ends itself: all but its own login stays.                *)
LEMMA DoneKeepsInv ==
  ASSUME WeixinInv, queue # <<>>, ~Turn("swap"), Done, login' \in Nat,
         UNCHANGED <<life, credentials, generation, calls, loop, task, stored>>
  PROVE  WeixinInv'
<1>1. Loops' /\ Handling'
  BY CallsKeepRest
<1>2. TypeOK'
  BY DoneLeavesRest DEF WeixinInv, TypeOK, stored
<1>3. Queued'
  BY DoneLeavesRest DEF WeixinInv, Queued
<1>4. Fresh' /\ Following' /\ QuietAfterStop'
  BY DEF WeixinInv, Fresh, Following, QuietAfterStop, stored
<1> QED BY <1>1, <1>2, <1>3, <1>4 DEF WeixinInv

LEMMA OpenWaitDropKeepInv == ASSUME WeixinInv, Open \/ Wait \/ Drop PROVE WeixinInv'
<1>1. queue # <<>> /\ ~Turn("swap") /\ Done
  BY DEF Open, Wait, Drop, Turn
<1>2. /\ UNCHANGED <<life, credentials, generation, calls, loop, task, stored>>
      /\ login' \in {login, generation, 0}
  BY DEF Open, Wait, Drop
<1>3. login' \in Nat
  BY <1>2 DEF WeixinInv, TypeOK
<1> QED BY <1>1, <1>2, <1>3, DoneKeepsInv

(* A launch is only asked for where there is no loop: of a channel that is logged  *)
(* in and up, where its account could not be stored.                               *)
LEMMA RejoinKeepsInv == ASSUME WeixinInv, Rejoin PROVE WeixinInv'
<1>1. /\ queue # <<>> /\ ~Turn("swap") /\ Done
      /\ UNCHANGED <<life, credentials, generation, calls, stored>>
  BY DEF Rejoin, Turn
<1>2. login' \in {login, 0}
  BY DEF Rejoin
<1>3. login' \in Nat
  BY <1>2 DEF WeixinInv, TypeOK
<1>4. CASE UNCHANGED <<loop, task>>
  BY <1>1, <1>3, <1>4, DoneKeepsInv
<1>5. CASE life = "up" /\ credentials # None /\ task = 0 /\ Launch(credentials)
  <2>1. credentials \in Account /\ UNCHANGED <<active, unsaved, cursor, context, refused, settled>>
    BY <1>1, <1>5 DEF WeixinInv, TypeOK, stored
  <2>2. /\ loop' \in [Slot -> Loop] /\ task' \in Slot /\ Loops' /\ Handling'
        /\ loop'[task'].account = credentials /\ ~loop'[task'].aborted
    BY <1>5, <2>1, LaunchKeeps
  <2>3. TypeOK'
    BY <1>1, <1>3, <2>1, <2>2, DoneLeavesRest DEF WeixinInv, TypeOK, Loop
  <2>4. Queued'
    BY <1>1, DoneLeavesRest DEF WeixinInv, Queued
  <2>5. Fresh' /\ QuietAfterStop'
    BY <1>1, <1>5 DEF Fresh, QuietAfterStop
  <2>6. Following'
    BY <1>1, <1>5, <2>1, <2>2 DEF WeixinInv, Following, Slot
  <2> QED BY <2>2, <2>3, <2>4, <2>5, <2>6 DEF WeixinInv
<1> QED BY <1>4, <1>5 DEF Rejoin, StartPolling, Stopped

(* An abort keeps all of a loop but that it is told to end.                        *)
LEMMA AbortKeeps ==
  ASSUME WeixinInv, Abort, UNCHANGED stored
  PROVE  /\ loop' \in [Slot -> Loop] /\ UNCHANGED task
         /\ Loops' /\ Handling'
         /\ task # 0 => loop'[task].account = loop[task].account
         /\ \A i \in Slot : loop'[i].pc = loop[i].pc
<1>1. loop \in [Slot -> Loop] /\ task \in Slot \cup {0} /\ UNCHANGED task
  BY DEF WeixinInv, TypeOK, Loop, Abort
<1>2. CASE task = 0
  BY <1>1, <1>2 DEF WeixinInv, Abort, Loops, OneLoop, Handling, Passed, Handled, stored
<1>3. CASE task # 0
  <2> DEFINE r == [loop[task] EXCEPT !.aborted = TRUE]
  <2>1. task \in Slot /\ loop[task] \in Loop
    BY <1>1, <1>3
  <2>2. /\ r \in Loop /\ r.pc = loop[task].pc /\ r.account = loop[task].account
        /\ r.from = loop[task].from /\ r.at = loop[task].at
    BY <2>1 DEF Loop
  <2>3. loop' = [loop EXCEPT ![task] = r]
    BY <1>1, <1>3 DEF Abort
  <2> HIDE DEF r
  <2>4. /\ loop' \in [Slot -> Loop]
        /\ \A i \in Slot : /\ loop'[i].pc = loop[i].pc /\ loop'[i].account = loop[i].account
                           /\ loop'[i].from = loop[i].from /\ loop'[i].at = loop[i].at
    BY <1>1, <2>1, <2>2, <2>3
  <2>5. Loops'
    BY <1>1, <2>4 DEF WeixinInv, Loops, OneLoop
  <2>6. Handling'
    BY <2>4 DEF WeixinInv, Handling, Passed, Handled, stored
  <2> QED BY <1>1, <2>1, <2>4, <2>5, <2>6
<1> QED BY <1>2, <1>3

(* A transition that goes on as another one keeps its place.                       *)
LEMMA HeadBecomes ==
  ASSUME WeixinInv, queue # <<>>, NEW op \in Op,
         op = "swap" => Head(queue).account \in Account,
         op = "halt" => life \notin {"fresh", "up"},
         op # "stop", op # "confirm",
         queue' = <<[Head(queue) EXCEPT !.op = op]>> \o Tail(queue),
         UNCHANGED <<life, calls>>
  PROVE  queue' \in Seq(CallRecord) /\ Queued' /\ Turn(op)'
<1> DEFINE d == [Head(queue) EXCEPT !.op = op]
<1>1. queue \in Seq(CallRecord) /\ Head(queue) \in CallRecord /\ Tail(queue) \in Seq(CallRecord)
  BY DEF WeixinInv, TypeOK
<1>2. d \in CallRecord /\ d.op = op /\ d.account = Head(queue).account
  BY <1>1 DEF CallRecord
<1>3. queue' = <<d>> \o Tail(queue)
  OBVIOUS
<1> HIDE DEF d
<1>4. /\ queue' \in Seq(CallRecord) /\ queue' # <<>> /\ Head(queue') = d
      /\ \A k \in DOMAIN queue' : queue'[k] = d \/ (k \in DOMAIN queue /\ queue'[k] = queue[k])
  <2>1. <<d>> \in Seq(CallRecord) /\ Len(<<d>>) = 1 /\ <<d>>[1] = d
    BY <1>2
  <2>2. Len(queue) \in Nat \ {0} /\ Len(Tail(queue)) = Len(queue) - 1
    BY <1>1
  <2>3. /\ queue' \in Seq(CallRecord) /\ Len(queue') = Len(queue)
        /\ queue'[1] = d /\ \A k \in 2 .. Len(queue) : queue'[k] = Tail(queue)[k - 1]
    BY <1>1, <1>3, <2>1, <2>2
  <2>4. \A k \in 2 .. Len(queue) : Tail(queue)[k - 1] = queue[k]
    BY <1>1, <2>2
  <2> QED BY <1>1, <2>2, <2>3, <2>4
<1>5. Queued'
  BY <1>2, <1>4 DEF WeixinInv, Queued
<1> QED BY <1>2, <1>4, <1>5 DEF Turn

LEMMA HeadIsQueued ==
  ASSUME WeixinInv, queue # <<>>
  PROVE  /\ Head(queue).op \in {"confirm", "swap"} => Head(queue).account \in Account
         /\ life \in {"fresh", "up"} => Head(queue).op \notin {"stop", "halt"}
         /\ life # "fresh"
<1>1. 1 \in DOMAIN queue /\ Head(queue) = queue[1]
  BY DEF WeixinInv, TypeOK
<1> QED BY <1>1 DEF WeixinInv, Queued, Fresh

LEMMA ConfirmKeepsInv == ASSUME WeixinInv, Confirm PROVE WeixinInv'
<1>1. /\ Turn("confirm") /\ queue # <<>> /\ ~Turn("swap") /\ Head(queue).account \in Account
      /\ life # "fresh"
      /\ UNCHANGED <<life, credentials, generation, calls, stored>>
  BY HeadIsQueued DEF Confirm, Turn
<1>2. CASE Done /\ UNCHANGED <<login, loop, task>>
  <2>1. login' \in Nat
    BY <1>2 DEF WeixinInv, TypeOK
  <2> QED BY <1>1, <1>2, <2>1, DoneKeepsInv
<1>3. CASE /\ login' = 0 /\ Abort
           /\ queue' = <<[Head(queue) EXCEPT !.op = "swap"]>> \o Tail(queue)
  <2>1. queue' \in Seq(CallRecord) /\ Queued' /\ Turn("swap")'
    BY <1>1, <1>3, HeadBecomes DEF Op
  <2>2. /\ loop' \in [Slot -> Loop] /\ UNCHANGED task /\ Loops' /\ Handling'
        /\ task # 0 => loop'[task].account = loop[task].account
        /\ \A i \in Slot : loop'[i].pc = loop[i].pc
    BY <1>1, <1>3, AbortKeeps
  <2>3. TypeOK'
    BY <1>1, <1>3, <2>1, <2>2 DEF WeixinInv, TypeOK, Loop, stored
  <2>4. Fresh' /\ QuietAfterStop'
    BY <1>1, <2>2 DEF WeixinInv, Fresh, QuietAfterStop
  <2>5. Following'
    BY <1>1, <2>1, <2>2 DEF WeixinInv, Following, stored
  <2> QED BY <2>1, <2>2, <2>3, <2>4, <2>5 DEF WeixinInv
<1> QED BY <1>2, <1>3 DEF Confirm

(* A swap, or its call-off, launches the loop of the account that is logged in, and *)
(* none where that account could not be stored.                                     *)
LEMMA SwapKeepsInv == ASSUME WeixinInv, Swap PROVE WeixinInv'
<1>1. /\ queue # <<>> /\ task = 0 /\ Done /\ Head(queue).account \in Account /\ life # "fresh"
      /\ UNCHANGED <<life, generation, login, calls, cursor, context, refused, settled>>
  BY HeadIsQueued DEF Swap, Turn, Polling
<1>2. /\ queue' \in Seq(CallRecord)
      /\ \A k \in DOMAIN queue' :
           /\ queue'[k].op \in {"confirm", "swap"} => queue'[k].account \in Account
           /\ life \in {"fresh", "up"} => queue'[k].op \notin {"stop", "halt"}
  BY <1>1, DoneLeavesRest
<1>3. Queued'
  BY <1>1, <1>2 DEF WeixinInv, Queued
<1>4. ASSUME NEW a \in Account, life = "up", Launch(a), credentials' = a,
             active' \in Account \cup {None}, unsaved' \in BOOLEAN, ~unsaved' => active' = a
      PROVE  WeixinInv'
  <2>1. /\ loop' \in [Slot -> Loop] /\ task' \in Slot /\ Loops' /\ Handling'
        /\ loop'[task'].account = a /\ ~loop'[task'].aborted
    BY <1>1, <1>4, LaunchKeeps
  <2>2. TypeOK'
    BY <1>1, <1>2, <1>4, <2>1 DEF WeixinInv, TypeOK, Loop
  <2>3. Fresh' /\ QuietAfterStop'
    BY <1>1, <1>4 DEF Fresh, QuietAfterStop
  <2>4. Following'
    BY <1>4, <2>1 DEF Following, Slot
  <2> QED BY <1>3, <2>1, <2>2, <2>3, <2>4 DEF WeixinInv
<1>5. ASSUME UNCHANGED <<active, loop, task>>, credentials' \in Account \cup {None},
             unsaved' \in BOOLEAN, life # "up" \/ credentials' = None \/ unsaved'
      PROVE  WeixinInv'
  <2>1. Loops' /\ Handling'
    BY <1>1, <1>5 DEF WeixinInv, Loops, OneLoop, Handling, Passed, Handled
  <2>2. TypeOK'
    BY <1>1, <1>2, <1>5 DEF WeixinInv, TypeOK
  <2>3. Fresh' /\ QuietAfterStop' /\ Following'
    BY <1>1, <1>5 DEF WeixinInv, Fresh, QuietAfterStop, Following
  <2> QED BY <1>3, <2>1, <2>2, <2>3 DEF WeixinInv
<1>6. CASE Latest
  <2> DEFINE a == Head(queue).account
  <2>1. /\ credentials' = a
        /\ \/ active' = a /\ unsaved' = FALSE /\ StartPolling(a)
           \/ unsaved' = TRUE /\ UNCHANGED <<active, loop, task>>
    BY <1>6 DEF Swap, Activate
  <2>2. life = "up" /\ a # None /\ a \in Account
    BY <1>1, <1>6, WeixinConstants DEF Latest, Stopped
  <2>3. StartPolling(a) => Launch(a)
    BY <1>1, <2>2 DEF StartPolling, Stopped
  <2> HIDE DEF a
  <2> QED BY <1>4, <1>5, <2>1, <2>2, <2>3
<1>7. CASE ~Latest
  <2>1. StartPolling(credentials) /\ UNCHANGED <<credentials, active, unsaved>>
    BY <1>7 DEF Swap
  <2>2. CASE life = "up" /\ credentials # None
    <3>1. Launch(credentials) /\ credentials \in Account
      BY <1>1, <2>1, <2>2 DEF StartPolling, Stopped, WeixinInv, TypeOK
    <3>2. active \in Account \cup {None} /\ unsaved \in BOOLEAN /\ (~unsaved => active = credentials)
      BY <2>2 DEF WeixinInv, TypeOK, Following
    <3> QED BY <1>4, <2>1, <2>2, <3>1, <3>2
  <2>3. CASE life # "up" \/ credentials = None
    <3>1. UNCHANGED <<loop, task>>
      BY <2>1, <2>3 DEF StartPolling, Stopped
    <3>2. credentials \in Account \cup {None} /\ unsaved \in BOOLEAN
      BY DEF WeixinInv, TypeOK
    <3> QED BY <1>5, <2>1, <2>3, <3>1, <3>2
  <2> QED BY <2>2, <2>3
<1> QED BY <1>6, <1>7

LEMMA StartKeepsInv == ASSUME WeixinInv, Start PROVE WeixinInv'
<1>1. /\ life = "fresh" /\ life' = "up" /\ generation' = generation + 1 /\ credentials' = active
      /\ task = 0 /\ UNCHANGED <<login, calls, queue, active, unsaved, cursor, context, refused, settled>>
  BY DEF WeixinInv, Fresh, Start, stored
<1>2. Queued' /\ Fresh' /\ QuietAfterStop'
  BY <1>1 DEF WeixinInv, Queued, Fresh, QuietAfterStop
<1>3. CASE active = None /\ UNCHANGED <<loop, task>>
  <2>1. Loops' /\ Handling'
    BY <1>1, <1>3 DEF WeixinInv, Loops, OneLoop, Handling, Passed, Handled
  <2>2. TypeOK' /\ Following'
    BY <1>1, <1>3 DEF WeixinInv, TypeOK, Following
  <2> QED BY <1>2, <2>1, <2>2 DEF WeixinInv
<1>4. CASE active # None /\ Launch(active)
  <2>1. active \in Account
    BY <1>4 DEF WeixinInv, TypeOK
  <2>2. /\ loop' \in [Slot -> Loop] /\ task' \in Slot /\ Loops' /\ Handling'
        /\ loop'[task'].account = active /\ ~loop'[task'].aborted
    BY <1>1, <1>4, <2>1, LaunchKeeps
  <2>3. TypeOK'
    BY <1>1, <2>1, <2>2 DEF WeixinInv, TypeOK, Loop
  <2>4. Following'
    BY <1>1, <2>2 DEF Following, Slot
  <2> QED BY <1>2, <2>2, <2>3, <2>4 DEF WeixinInv
<1> QED BY <1>3, <1>4 DEF Start

LEMMA StopKeepsInv == ASSUME WeixinInv, Stop PROVE WeixinInv'
<1> DEFINE c == Call("stop", generation + 1)
<1>1. /\ life = "up" /\ life' = "stopping" /\ generation' = generation + 1 /\ queue' = Append(queue, c)
      /\ UNCHANGED <<credentials, login, calls, loop, task, stored>>
  BY DEF Stop
<1>2. c \in CallRecord /\ c.op = "stop"
  BY DEF WeixinInv, TypeOK, Call, CallRecord, Op
<1> HIDE DEF c
<1>3. /\ queue' \in Seq(CallRecord)
      /\ \A k \in DOMAIN queue' : queue'[k] = c \/ (k \in DOMAIN queue /\ queue'[k] = queue[k])
  BY <1>1, <1>2, AppendKeepsQueue
<1>4. Loops' /\ Handling'
  BY <1>1, CallsKeepRest
<1>5. TypeOK'
  BY <1>1, <1>3 DEF WeixinInv, TypeOK, stored
<1>6. Queued'
  BY <1>1, <1>2, <1>3 DEF WeixinInv, Queued
<1>7. Fresh' /\ QuietAfterStop' /\ Following'
  BY <1>1 DEF Fresh, QuietAfterStop, Following
<1> QED BY <1>4, <1>5, <1>6, <1>7 DEF WeixinInv

LEMMA StopLoopKeepsInv == ASSUME WeixinInv, StopLoop PROVE WeixinInv'
<1>1. /\ queue # <<>> /\ Head(queue).op = "stop" /\ life \notin {"fresh", "up"} /\ login' = 0 /\ Abort
      /\ queue' = <<[Head(queue) EXCEPT !.op = "halt"]>> \o Tail(queue)
      /\ UNCHANGED <<life, credentials, generation, calls, stored>>
  BY HeadIsQueued DEF StopLoop, Turn, WeixinInv, TypeOK
<1>2. queue' \in Seq(CallRecord) /\ Queued'
  BY <1>1, HeadBecomes DEF Op
<1>3. /\ loop' \in [Slot -> Loop] /\ UNCHANGED task /\ Loops' /\ Handling'
      /\ \A i \in Slot : loop'[i].pc = loop[i].pc
  BY <1>1, AbortKeeps
<1>4. TypeOK'
  BY <1>1, <1>2, <1>3 DEF WeixinInv, TypeOK, Loop, stored
<1>5. Fresh' /\ QuietAfterStop' /\ Following'
  BY <1>1, <1>3 DEF WeixinInv, Fresh, QuietAfterStop, Following
<1> QED BY <1>2, <1>3, <1>4, <1>5 DEF WeixinInv

LEMMA HaltKeepsInv == ASSUME WeixinInv, Halt PROVE WeixinInv'
<1>1. /\ queue # <<>> /\ life' = "over" /\ task = 0 /\ Done
      /\ UNCHANGED <<credentials, generation, login, calls, loop, task, stored>>
  BY DEF Halt, Turn, Polling
<1>2. Loops' /\ Handling'
  BY <1>1, CallsKeepRest
<1>3. /\ queue' \in Seq(CallRecord)
      /\ \A k \in DOMAIN queue' :
           queue'[k].op \in {"confirm", "swap"} => queue'[k].account \in Account
  BY <1>1, DoneLeavesRest
<1>4. TypeOK'
  BY <1>1, <1>3 DEF WeixinInv, TypeOK, stored
<1>5. Queued'
  BY <1>1, <1>3 DEF WeixinInv, Queued
<1>6. Fresh' /\ Following'
  BY <1>1 DEF Fresh, Following
<1>7. QuietAfterStop'
  BY <1>1 DEF WeixinInv, Loops, OneLoop, QuietAfterStop, Slot
<1> QED BY <1>2, <1>4, <1>5, <1>6, <1>7 DEF WeixinInv

LEMMA RestartKeepsInv == ASSUME WeixinInv, Restart PROVE WeixinInv'
<1>1. loop' \in [Slot -> Loop] /\ \A i \in Slot : loop'[i].pc = "off"
  BY DEF Restart, Off, Loop
<1>2. TypeOK'
  <2>1. /\ life' = "fresh" /\ credentials' = None /\ generation' = 0 /\ login' = 0
        /\ calls' = {} /\ queue' = <<>> /\ task' = 0 /\ unsaved' = FALSE
        /\ UNCHANGED <<active, cursor, context, refused, settled>>
    BY DEF Restart
  <2>2. queue' \in Seq(CallRecord)
    BY <2>1
  <2> QED BY <1>1, <2>1, <2>2 DEF WeixinInv, TypeOK, Loop
<1>3. Loops' /\ Queued' /\ Fresh' /\ QuietAfterStop' /\ Following'
  BY <1>1 DEF Loops, OneLoop, Queued, Fresh, QuietAfterStop, Following, Restart
<1>4. Handling'
  BY <1>1 DEF WeixinInv, Handling, Passed, Handled, Restart, stored
<1> QED BY <1>2, <1>3, <1>4 DEF WeixinInv

LEMMA NextKeepsInv == ASSUME WeixinInv, [Next]_vars PROVE WeixinInv'
<1>1. CASE UNCHANGED vars
  BY <1>1 DEF vars, memory, stored, WeixinInv, TypeOK, Loops, OneLoop, Fresh, Queued, Handling,
              Passed, Handled, Following, QuietAfterStop, Turn
<1>2. ASSUME NEW i \in Slot, Poll(i) PROVE WeixinInv'
  BY <1>2, FetchKeepsInv, AcceptKeepsInv, SaveCursorKeepsInv, RestKeepsInv DEF Poll
<1>3. ASSUME NEW c \in calls, Answered(c) PROVE WeixinInv'
  BY <1>3, AnsweredKeepsInv
<1>4. CASE Transition
  BY <1>4, OpenWaitDropKeepInv, RejoinKeepsInv, ConfirmKeepsInv, SwapKeepsInv, StopLoopKeepsInv,
     HaltKeepsInv DEF Transition
<1> QED BY <1>1, <1>2, <1>3, <1>4, StartLoginKeepsInv, PollLoginKeepsInv, StartKeepsInv, StopKeepsInv,
           RestartKeepsInv DEF Next

THEOREM InvariantHolds == Spec => []WeixinInv
<1>1. Init => WeixinInv
  BY InitialInv
<1>2. WeixinInv /\ [Next]_vars => WeixinInv'
  BY NextKeepsInv
<1> QED BY <1>1, <1>2, PTL DEF Spec

(* The adapter and what it stores keep their types.                                *)
THEOREM WeixinTypes == Spec => []TypeOK
BY InvariantHolds, PTL DEF WeixinInv

(* The cursor is never past a message that was neither taken nor refused.          *)
THEOREM CursorNeverSkips == Spec => []CursorFollowsAdmission
<1>1. WeixinInv => CursorFollowsAdmission
  BY DEF WeixinInv, Handling, Handled, CursorFollowsAdmission
<1> QED BY <1>1, InvariantHolds, PTL

(* Of two loops one is never there, and the adapter knows of the other.            *)
THEOREM NeverTwoLoops == Spec => []OneLoop
<1>1. WeixinInv => OneLoop
  BY DEF WeixinInv, Loops
<1> QED BY <1>1, InvariantHolds, PTL

(* What polls is one loop, of the account logged in; and that account is polled and *)
(* is the stored one, unless setActiveChannelAccount failed when its login was      *)
(* confirmed (#applyLoginStatus).                                                   *)
THEOREM AccountIsPolled == Spec => []LoggedInPolls
<1>1. WeixinInv => LoggedInPolls
  BY DEF WeixinInv, Following, Loops, LoggedInPolls
<1> QED BY <1>1, InvariantHolds, PTL

(* No loop outlives the stop.                                                      *)
THEOREM NothingAfterStop == Spec => []QuietAfterStop
BY InvariantHolds, PTL DEF WeixinInv

(* An account is set by a swap of the latest login of a channel that is not        *)
(* stopped, or at the start; every other step keeps it or logs it out.             *)
LEMMA OnlySwapSetsAccount ==
  ASSUME [Next]_vars, credentials' \notin {None, credentials}, life # "fresh"
  PROVE  Swap
<1>1. CASE UNCHANGED vars
  BY <1>1 DEF vars, memory
<1>2. ASSUME NEW i \in Slot, Poll(i) PROVE FALSE
  BY <1>2 DEF Poll, Fetch, Accept, SaveCursor, Rest
<1>3. ASSUME NEW c \in calls, Answered(c) PROVE FALSE
  BY <1>3 DEF Answered
<1>4. ASSUME Transition PROVE Swap
  BY <1>4 DEF Transition, Open, Wait, Drop, Rejoin, Confirm, StopLoop, Halt
<1>5. ~StartLogin /\ ~PollLogin /\ ~Start /\ ~Stop /\ ~Restart
  BY DEF StartLogin, PollLogin, Start, Stop, Restart
<1> QED BY <1>1, <1>2, <1>3, <1>4, <1>5 DEF Next

(* Only the latest login, of a channel that is not stopped, changes the account.   *)
THEOREM LatestLoginOnly == Spec => LatestLoginWins
<1>1. [Next]_vars =>
        [life # "fresh" /\ credentials' \notin {None, credentials} =>
           ~Stopped /\ Head(queue).gen = generation]_vars
  BY OnlySwapSetsAccount DEF Swap, Latest
<1> QED BY <1>1, PTL DEF Spec, LatestLoginWins

(* What a loop does to a context token.                                            *)
LEMMA TokenComesWithPlace ==
  ASSUME WeixinInv, NEW i \in Slot, Accept(i), NEW a \in Account, context'[a] < context[a]
  PROVE  context'[a] \in refused[a]
<1> DEFINE b == loop[i].account
           n == loop[i].at
<1>1. /\ b \in Account /\ n \in Nat /\ n >= 1 /\ context \in [Account -> Nat]
      /\ \A k \in 1 .. context[b] : k < context[b] => k \in Handled(b)
  BY DEF WeixinInv, TypeOK, Loops, Handling, Passed, Accept
<1>2. Materialize(b, n) \/ UNCHANGED context
  BY DEF Accept, Take
<1> HIDE DEF b, n
<1>3. n \notin settled[b] /\ context' = [context EXCEPT ![b] = n]
  BY <1>1, <1>2 DEF Materialize
<1>4. a = b /\ context'[a] = n /\ n < context[b]
  BY <1>1, <1>3
<1>5. n \in Handled(b)
  BY <1>1, <1>4
<1> QED BY <1>3, <1>4, <1>5 DEF Handled

(* The context token of a conversation is never replaced by that of an older       *)
(* message, unless that message had been refused.                                  *)
THEOREM ContextMovesOn == Spec => ContextNeverOlder
<1>1. WeixinInv /\ [Next]_vars =>
        [\A a \in Account : context'[a] < context[a] => context'[a] \in refused[a]]_vars
  <2> SUFFICES ASSUME WeixinInv, [Next]_vars, NEW a \in Account, context'[a] < context[a]
               PROVE  context'[a] \in refused[a]
    OBVIOUS
  <2>1. context # context'
    BY DEF WeixinInv, TypeOK
  <2>2. ASSUME NEW i \in Slot, Poll(i) PROVE Accept(i)
    BY <2>1, <2>2 DEF Poll, Fetch, SaveCursor, Rest, stored
  <2>3. \A c \in calls : ~Answered(c)
    BY <2>1 DEF Answered, stored
  <2>4. ~Transition
    BY <2>1 DEF Transition, Open, Wait, Drop, Rejoin, Confirm, Swap, StopLoop, Halt, stored
  <2>5. ~StartLogin /\ ~PollLogin /\ ~Start /\ ~Stop /\ ~Restart /\ vars' # vars
    BY <2>1 DEF StartLogin, PollLogin, Start, Stop, Restart, stored, vars
  <2> QED BY <2>2, <2>3, <2>4, <2>5, TokenComesWithPlace DEF Next
<1> QED BY <1>1, InvariantHolds, PTL DEF Spec, ContextNeverOlder
----------------------------------------------------------------------------
(* Who waits for what.  The loop the adapter knows of is running (Known).        *)

Known == task # 0 => loop[task].pc # "off"

Waiting == WaitsAreAnswered /\ Known

LEMMA AppendKeepsWaiting ==
  ASSUME WeixinInv, Waiting, NEW c, queue' = Append(queue, c), UNCHANGED <<loop, task>>,
         c.op \notin {"swap", "halt"},
         life' = life \/ (life' = "stopping" /\ c.op = "stop")
  PROVE  Waiting'
<1>1. /\ Len(queue) \in Nat /\ Len(queue') = Len(queue) + 1 /\ queue'[Len(queue) + 1] = c
      /\ \A k \in 1 .. Len(queue) : queue'[k] = queue[k]
      /\ DOMAIN queue = 1 .. Len(queue) /\ DOMAIN queue' = 1 .. (Len(queue) + 1)
      /\ queue = <<>> <=> Len(queue) = 0
      /\ Head(queue') = queue'[1] /\ queue # <<>> => Head(queue) = queue[1]
  BY DEF WeixinInv, TypeOK
<1>2. Turn("swap")' \/ Turn("halt")' => Turn("swap") \/ Turn("halt")
  BY <1>1 DEF Turn
<1>3. \A k \in DOMAIN queue' : queue'[k].op \in {"swap", "halt"} => k = 1
  BY <1>1 DEF Waiting, WaitsAreAnswered
<1>4. life' = "stopping" => \E k \in DOMAIN queue' : queue'[k].op \in {"stop", "halt"}
  BY <1>1 DEF Waiting, WaitsAreAnswered
<1> QED BY <1>2, <1>3, <1>4 DEF Waiting, WaitsAreAnswered, Known

(* The transition that ends is followed by one that awaits nothing yet.          *)
LEMMA DoneKeepsWaiting ==
  ASSUME WeixinInv, Waiting, queue # <<>>, Done,
         Head(queue).op \notin {"stop", "halt"} \/ life' # "stopping",
         life' = "stopping" => life = "stopping", Known'
  PROVE  Waiting'
<1>1. /\ Len(queue) \in Nat \ {0} /\ Len(queue') = Len(queue) - 1
      /\ \A k \in 1 .. Len(queue') : queue'[k] = queue[k + 1]
      /\ DOMAIN queue = 1 .. Len(queue) /\ DOMAIN queue' = 1 .. Len(queue')
      /\ Head(queue) = queue[1]
      /\ queue' # <<>> => Head(queue') = queue'[1] /\ 1 \in DOMAIN queue'
  BY DEF WeixinInv, TypeOK, Done
<1>2. \A k \in DOMAIN queue' : queue'[k].op \notin {"swap", "halt"}
  BY <1>1 DEF Waiting, WaitsAreAnswered
<1>3. ~Turn("swap")' /\ ~Turn("halt")'
  BY <1>1, <1>2 DEF Turn
<1>4. ASSUME life' = "stopping"
      PROVE  \E k \in DOMAIN queue' : queue'[k].op \in {"stop", "halt"}
  <2>1. PICK k \in DOMAIN queue : queue[k].op \in {"stop", "halt"}
    BY <1>4 DEF Waiting, WaitsAreAnswered
  <2>2. k # 1 BY <1>1, <1>4, <2>1
  <2>3. k - 1 \in DOMAIN queue' /\ queue'[k - 1] = queue[k] BY <1>1, <2>2
  <2> QED BY <2>1, <2>3
<1> QED BY <1>2, <1>3, <1>4 DEF Waiting, WaitsAreAnswered

(* A transition that begins to wait has told the loop to end.                    *)
LEMMA AbortKeepsWaiting ==
  ASSUME WeixinInv, Waiting, NEW op \in {"swap", "halt"}, queue # <<>>, Abort,
         queue' = <<[Head(queue) EXCEPT !.op = op]>> \o Tail(queue), UNCHANGED life,
         Head(queue).op \in {"stop", "halt"} => op = "halt"
  PROVE  Waiting'
<1> DEFINE d == [Head(queue) EXCEPT !.op = op]
<1>1. /\ queue \in Seq(CallRecord) /\ Head(queue) \in CallRecord
      /\ Tail(queue) \in Seq(CallRecord) /\ Len(queue) \in Nat \ {0}
      /\ Len(Tail(queue)) = Len(queue) - 1 /\ Head(queue) = queue[1]
      /\ \A k \in 2 .. Len(queue) : Tail(queue)[k - 1] = queue[k]
  BY DEF WeixinInv, TypeOK
<1>2. d.op = op
  BY <1>1 DEF CallRecord
<1> HIDE DEF d
<1>3. queue' = <<d>> \o Tail(queue)
  BY DEF d
<1>4. /\ Len(queue') = Len(queue) /\ queue'[1] = d
      /\ \A k \in 2 .. Len(queue) : queue'[k] = queue[k]
      /\ DOMAIN queue' = 1 .. Len(queue) /\ DOMAIN queue = 1 .. Len(queue)
  BY <1>1, <1>3
<1>5. /\ loop \in [Slot -> Loop] /\ task \in Slot \cup {0} /\ UNCHANGED task
      /\ loop' = IF task = 0 THEN loop ELSE [loop EXCEPT ![task].aborted = TRUE]
  BY DEF WeixinInv, TypeOK, Loop, Abort
<1>6. task' # 0 => loop'[task'].pc # "off" /\ loop'[task'].aborted
  BY <1>5 DEF Waiting, Known, Loop
<1>7. \A k \in DOMAIN queue' : queue'[k].op \in {"swap", "halt"} => k = 1
  BY <1>4 DEF Waiting, WaitsAreAnswered
<1>8. ASSUME life' = "stopping"
      PROVE  \E k \in DOMAIN queue' : queue'[k].op \in {"stop", "halt"}
  <2>1. PICK k \in DOMAIN queue : queue[k].op \in {"stop", "halt"}
    BY <1>8 DEF Waiting, WaitsAreAnswered
  <2>2. CASE k = 1
    <3>1. op = "halt"
      BY <1>1, <2>1, <2>2
    <3> QED BY <1>1, <1>2, <1>4, <3>1
  <2>3. CASE k # 1
    <3>1. k \in 2 .. Len(queue) BY <1>1, <1>4, <2>3
    <3> QED BY <1>4, <2>1, <3>1
  <2> QED BY <2>2, <2>3
<1> QED BY <1>6, <1>7, <1>8 DEF Waiting, WaitsAreAnswered, Known

LEMMA PollKeepsWaiting ==
  ASSUME WeixinInv, Waiting, NEW i \in Slot, Poll(i)
  PROVE  Waiting'
<1>1. /\ loop \in [Slot -> Loop] /\ task = i /\ UNCHANGED <<life, queue>>
      /\ loop[i].pc # "off"
  BY DEF WeixinInv, TypeOK, Loop, Loops, OneLoop, Poll, Fetch, Accept, SaveCursor, Rest, logins
<1>2. \/ Ends(i)
      \/ /\ UNCHANGED task /\ loop'[i].pc # "off"
         /\ loop'[i].aborted = loop[i].aborted
  <2>1. CASE Fetch(i)
    <3>1. ASSUME Rests(i) PROVE loop'[i].pc # "off" /\ loop'[i].aborted = loop[i].aborted
      BY <1>1, <3>1 DEF Rests, Loop
    <3>2. ASSUME NEW k, Fetched(i, k)
          PROVE  loop'[i].pc # "off" /\ loop'[i].aborted = loop[i].aborted
      BY <1>1, <3>2 DEF Fetched, Loop
    <3> QED BY <2>1, <3>1, <3>2 DEF Fetch, Rests, Fetched
  <2>2. CASE Accept(i)
    <3>1. ASSUME Rests(i) PROVE loop'[i].pc # "off" /\ loop'[i].aborted = loop[i].aborted
      BY <1>1, <3>1 DEF Rests, Loop
    <3>2. ASSUME NextInBatch(i)
          PROVE  loop'[i].pc # "off" /\ loop'[i].aborted = loop[i].aborted
      BY <1>1, <2>2, <3>2 DEF NextInBatch, Loop
    <3> QED BY <2>2, <3>1, <3>2 DEF Accept, Rests, NextInBatch
  <2>3. CASE SaveCursor(i) BY <1>1, <2>3 DEF SaveCursor, Loop
  <2>4. CASE Rest(i) BY <1>1, <2>4 DEF Rest, Loop
  <2> QED BY <2>1, <2>2, <2>3, <2>4 DEF Poll
<1>3. Ends(i) => task' = 0
  BY <1>1 DEF Ends
<1> QED BY <1>1, <1>2, <1>3 DEF Waiting, WaitsAreAnswered, Known, Turn

LEMMA StartKeepsWaiting == ASSUME WeixinInv, Waiting, Start PROVE Waiting'
<1>1. queue' = <<>> /\ task = 0 /\ life' = "up"
  BY DEF Start, WeixinInv, Fresh
<1>2. DOMAIN queue' = {} /\ ~Turn("swap")' /\ ~Turn("halt")'
  BY <1>1 DEF Turn
<1>3. Known'
  <2>1. CASE active = None BY <1>1, <2>1 DEF Start, Known
  <2>2. CASE active # None
    <3>1. active \in Account /\ Launch(active) BY <2>2 DEF Start, WeixinInv, TypeOK
    <3>2. task' \in Slot /\ loop'[task'] = NewLoop(active)
      BY <1>1, <3>1, LaunchLeavesOne DEF WeixinInv, Loops
    <3> QED BY <3>2 DEF Known, NewLoop, Off
  <2> QED BY <2>1, <2>2
<1> QED BY <1>1, <1>2, <1>3 DEF Waiting, WaitsAreAnswered

(* A loop that is asked for is there afterwards, or there is none.               *)
LEMMA StartPollingKnown ==
  ASSUME WeixinInv, Known, NEW a \in Account \cup {None}, StartPolling(a)
  PROVE  Known'
<1>1. CASE UNCHANGED <<loop, task>> BY <1>1 DEF Known
<1>2. CASE a \in Account /\ task = 0 /\ Launch(a)
  <2>1. task' \in Slot /\ loop'[task'] = NewLoop(a)
    BY <1>2, LaunchLeavesOne DEF WeixinInv, Loops
  <2> QED BY <2>1 DEF Known, NewLoop, Off
<1> QED BY <1>1, <1>2 DEF StartPolling

LEMMA TransitionKeepsWaiting == ASSUME WeixinInv, Waiting, Transition PROVE Waiting'
<1>1. CASE Open \/ Wait \/ Drop
  <2>1. UNCHANGED <<life, loop, task>> /\ Known'
    BY <1>1 DEF Open, Wait, Drop, Waiting, Known
  <2> QED BY <1>1, <2>1, DoneKeepsWaiting DEF Open, Wait, Drop, Turn
<1>2. CASE Rejoin
  <2>1. Known'
    BY <1>2, StartPollingKnown DEF Rejoin, Waiting, Known, WeixinInv, TypeOK
  <2> QED BY <1>2, <2>1, DoneKeepsWaiting DEF Rejoin, Turn
<1>3. CASE Confirm
  <2>1. Turn("confirm") /\ queue # <<>> /\ Head(queue).op = "confirm" /\ UNCHANGED life
    BY <1>3 DEF Confirm, Turn
  <2>2. CASE Done /\ UNCHANGED <<loop, task>>
    <3>1. Known' BY <2>2 DEF Waiting, Known
    <3> QED BY <2>1, <2>2, <3>1, DoneKeepsWaiting
  <2>3. CASE Abort /\ queue' = <<[Head(queue) EXCEPT !.op = "swap"]>> \o Tail(queue)
    BY <2>1, <2>3, AbortKeepsWaiting
  <2> QED BY <1>3, <2>2, <2>3 DEF Confirm
<1>4. CASE Swap
  <2>1. Known'
    <3>1. Head(queue).account \in Account
      BY <1>4, HeadIsQueued DEF Swap, Turn
    <3>2. CASE UNCHANGED <<loop, task>>
      BY <3>2 DEF Waiting, Known
    <3>3. CASE StartPolling(Head(queue).account) \/ StartPolling(credentials)
      BY <3>1, <3>3, StartPollingKnown DEF Waiting, WeixinInv, TypeOK
    <3> QED BY <1>4, <3>2, <3>3 DEF Swap, Activate
  <2> QED BY <1>4, <2>1, DoneKeepsWaiting DEF Swap, Turn
<1>5. CASE StopLoop
  <2>1. /\ queue # <<>> /\ Head(queue).op = "stop" /\ Abort /\ UNCHANGED life
        /\ queue' = <<[Head(queue) EXCEPT !.op = "halt"]>> \o Tail(queue)
    BY <1>5 DEF StopLoop, Turn
  <2> QED BY <2>1, AbortKeepsWaiting
<1>6. CASE Halt
  <2>1. Known' BY <1>6 DEF Halt, Waiting, Known
  <2> QED BY <1>6, <2>1, DoneKeepsWaiting DEF Halt, Turn
<1> QED BY <1>1, <1>2, <1>3, <1>4, <1>5, <1>6 DEF Transition

LEMMA NextKeepsWaiting == ASSUME WeixinInv, Waiting, [Next]_vars PROVE Waiting'
<1>1. CASE UNCHANGED <<life, queue, loop, task>>
  BY <1>1 DEF Waiting, WaitsAreAnswered, Known, Turn
<1>2. CASE StartLogin \/ PollLogin \/ UNCHANGED vars
  BY <1>1, <1>2 DEF StartLogin, PollLogin, vars, memory
<1>3. ASSUME NEW c \in calls, Answered(c) PROVE Waiting'
  <2>1. c \in CallRecord /\ Asked(c) BY DEF WeixinInv, TypeOK, Queued
  <2>2. \A op \in Op : [c EXCEPT !.op = op].op = op BY <2>1 DEF CallRecord
  <2>3. \A a \in Account : [c EXCEPT !.op = "confirm", !.account = a].op = "confirm"
    BY <2>1 DEF CallRecord
  <2>4. \/ UNCHANGED queue
        \/ \E d : queue' = Append(queue, d) /\ d.op \notin {"swap", "halt"}
    BY <1>3, <2>1, <2>2, <2>3 DEF Answered, Asked, Op
  <2> QED BY <1>1, <1>3, <2>4, AppendKeepsWaiting DEF Answered
<1>4. CASE Stop
  <2>1. Call("stop", generation + 1).op = "stop" BY DEF Call
  <2> QED BY <1>4, <2>1, AppendKeepsWaiting DEF Stop
<1>5. CASE Restart
  <2>1. queue' = <<>> /\ life' = "fresh" /\ task' = 0 BY <1>5 DEF Restart
  <2>2. DOMAIN queue' = {} /\ ~Turn("swap")' /\ ~Turn("halt")' BY <2>1 DEF Turn
  <2> QED BY <2>1, <2>2 DEF Waiting, WaitsAreAnswered, Known
<1> QED
  BY <1>2, <1>3, <1>4, <1>5, StartKeepsWaiting, TransitionKeepsWaiting, PollKeepsWaiting
     DEF Next

(* What StopCompletes needs of every state: a stop that is under way has its     *)
(* transition, and the one transition that may be waiting waits for a loop that  *)
(* runs and was told to end (stop, #stopPolling, #applyLogin).                   *)
THEOREM StopNeverBlocks == Spec => []WaitsAreAnswered
<1>1. Init => Waiting
  <2>1. ASSUME Init PROVE DOMAIN queue = {} /\ ~Turn("swap") /\ ~Turn("halt")
    BY <2>1 DEF Init, Turn
  <2> QED BY <2>1 DEF Init, Waiting, WaitsAreAnswered, Known
<1>2. Waiting => WaitsAreAnswered
  BY DEF Waiting
<1> QED BY <1>1, <1>2, NextKeepsWaiting, InvariantHolds, PTL DEF Spec
================================================================================
