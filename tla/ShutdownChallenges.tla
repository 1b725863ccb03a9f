---------------------------- MODULE ShutdownChallenges ----------------------------
(***************************************************************************)
(* ShutdownChallengeRegistry of src/daemon/http-server.ts: the one-use      *)
(* challenges of POST /v2/admin/identity, which POST /v2/admin/shutdown     *)
(* consumes.  Each process has a registry of its own, in memory.            *)
(*                                                                          *)
(* Time is kept per challenge: its ten seconds are running, over, or its    *)
(* five minutes as a tombstone are over too.  The code reads the wall clock,*)
(* which may be set back.                                                   *)
(***************************************************************************)
EXTENDS DaemonLifecycle

CONSTANTS
  Challenge,     \* challenge ids: random, so no two alike
  Nonce,         \* client nonces, which clients may choose alike
  MaxChallenges, \* maxShutdownChallenges
  Asked          \* bound of the model: processes that clients besides the guard ask

ASSUME ChallengeConstants ==
  /\ None \notin Nonce /\ None \notin Challenge /\ IsFiniteSet(Challenge)
  /\ MaxChallenges \in Nat /\ Asked \subseteq Process

VARIABLES
  challenge,  \* the record of each challenge id
  age,        \* of each challenge, by the clock of the machine
  accepted    \* shutdown requests accepted for each challenge

registry == <<challenge, age, accepted>>

Record == [by : Process \cup {None},    \* the process (instanceId) that issued it
           nonce : Nonce \cup {None},
           state : {"unissued", "active", "consumed", "expired", "removed"}]

Unissued == [by |-> None, nonce |-> None, state |-> "unissued"]
Tombstone == {"consumed", "expired"}

RegistryTypeOK ==
  /\ challenge \in [Challenge -> Record]
  /\ age \in [Challenge -> {"running", "over", "past"}]
  /\ accepted \in [Challenge -> Nat]

RegistryInit ==
  /\ challenge = [c \in Challenge |-> Unissued]
  /\ age = [c \in Challenge |-> "running"]
  /\ accepted = [c \in Challenge |-> 0]

\* The registry of a process in a table of records.
Held(table, p) == {c \in Challenge : table[c].by = p /\ table[c].state \in {"active"} \cup Tombstone}

\* #cleanupRetained.
Swept(p) ==
  [c \in Challenge |->
     IF c \notin Held(challenge, p) THEN challenge[c]
     ELSE IF age[c] = "past" THEN [challenge[c] EXCEPT !.state = "removed"]
     ELSE IF age[c] = "over" /\ challenge[c].state = "active"
          THEN [challenge[c] EXCEPT !.state = "expired"]
     ELSE challenge[c]]

\* Faulty variant: tombstones take no room.
HasRoomForLive(table, p) ==
  Cardinality({c \in Held(table, p) : table[c].state = "active"}) < MaxChallenges

HasRoom(table, p) == Cardinality(Held(table, p)) < MaxChallenges

IsNewNonce(table, p, n) == \A c \in Held(table, p) : table[c].nonce # n

----------------------------------------------------------------------------
(* issue().  The proof of the request covers the PID, which the process       *)
(* compares with its own, and the creation marker and the paths, which it     *)
(* only repeats.                                                              *)

MayIssue(p, pid, n) ==
  /\ Handling(p) /\ PidOf[p] = pid
  /\ IsNewNonce(Swept(p), p, n) /\ HasRoom(Swept(p), p)

Issue(p, pid, n, c) ==
  /\ MayIssue(p, pid, n)
  /\ challenge[c].state = "unissued"
  /\ challenge' = [Swept(p) EXCEPT ![c] = [by |-> p, nonce |-> n, state |-> "active"]]
  /\ UNCHANGED <<age, accepted>>

\* 503 of a process that is not ready, 401, 409 or 503 of the registry.
RefuseIdentity(p, pid, n) ==
  /\ ~MayIssue(p, pid, n)
  /\ challenge' = IF Handling(p) /\ PidOf[p] = pid THEN Swept(p) ELSE challenge
  /\ UNCHANGED <<age, accepted>>

----------------------------------------------------------------------------
(* consume(). *)

\* Faulty variant: a challenge is good for as long as its ten seconds run.
GoodWhileRunning(p, c, n) ==
  /\ c \in Held(Swept(p), p) /\ age[c] = "running"
  /\ challenge[c].nonce = n

Good(p, c, n) ==
  /\ c \in Held(Swept(p), p) /\ Swept(p)[c].state = "active"
  /\ challenge[c].nonce = n

\* 202: the stop of the process is scheduled.
Consume(p, c, n) ==
  /\ Handling(p) /\ Good(p, c, n)
  /\ challenge' = [Swept(p) EXCEPT ![c].state = "consumed"]
  /\ accepted' = [accepted EXCEPT ![c] = @ + 1]
  /\ UNCHANGED age

\* 401 or 409.
RefuseShutdown(p, c, n) ==
  /\ Handling(p) /\ ~Good(p, c, n)
  /\ challenge' = Swept(p)
  /\ UNCHANGED <<age, accepted>>

\* Some accepted request has scheduled the stop of this process.
Ordered(p) == \E c \in Challenge : challenge[c].by = p /\ accepted[c] > 0

----------------------------------------------------------------------------
(* The clock, as far as some registry still cares. *)

Remembered(c) == \E p \in Process : Alive(p) /\ c \in Held(challenge, p)

TimePasses(c) ==
  /\ Remembered(c) /\ age[c] # "past"
  /\ age' = [age EXCEPT ![c] = IF @ = "running" THEN "over" ELSE "past"]
  /\ UNCHANGED <<challenge, accepted>>

ClockSetBack(c) ==
  /\ Remembered(c) /\ age[c] # "running"
  /\ age' = [age EXCEPT ![c] = IF @ = "past" THEN "over" ELSE "running"]
  /\ UNCHANGED <<challenge, accepted>>

----------------------------------------------------------------------------
(* Other clients with the token ask for identities and send the shutdown      *)
(* requests they were given the parts of, in any order and again.             *)

OtherClient(p) ==
  /\ Listening(p) \/ Handling(p)
  /\ \E n \in Nonce :
       \/ \E c \in Challenge : Issue(p, PidOf[p], n, c)
       \/ RefuseIdentity(p, PidOf[p], n)
       \/ \E c \in Challenge :
            /\ challenge[c].state # "unissued"
            /\ Consume(p, c, n) \/ RefuseShutdown(p, c, n)

RegistryStep ==
  \/ \E p \in Asked : OtherClient(p)
  \/ \E c \in Challenge : TimePasses(c) \/ ClockSetBack(c)
===================================================================================
