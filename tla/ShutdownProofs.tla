------------------------------ MODULE ShutdownProofs ------------------------------
(* Proofs about UpgradeGuard: types, where the bearer token goes, what an       *)
(* accepted request and an orderly end leave behind, and when the guard says    *)
(* that the installer may go on.                                                *)
EXTENDS UpgradeGuard, FiniteSetTheorems, TLAPS

(* What is known of the guard at each of its steps.                             *)
Shape ==
  /\ guard.pc \in {"ask", "asked"} => guard.owner # None /\ guard.challenge = None
  /\ guard.pc \in {"told", "connect", "send", "sent", "watch", "port", "last"}
       => guard.challenge # None
  /\ guard.challenge # None => guard.owner # None
  /\ guard.owner # None => guard.owner \in Installed
  /\ guard.pc = "sole" => guard.found \in Installed
  /\ guard.pc = "asked" => guard.conn # None
  /\ guard.pc = "asked" \/ guard.challenge # None => guard.nonce # None
  /\ guard.challenge # None /\ guard.pc \in {"listener", "process", "sole", "send", "sent"}
       => guard.conn # None

OnePort == \A p, q \in Process : Listening(p) /\ Listening(q) => p = q
OnePid  == \A p, q \in Process : Alive(p) /\ Alive(q) /\ PidOf[p] = PidOf[q] => p = q

(* A process the guard has resolved has begun, and one that answered is past    *)
(* its start: neither will ever begin to listen again.                          *)
Begun ==
  /\ guard.pc = "sole" => phase[guard.found] # "off"
  /\ guard.owner # None => phase[guard.owner] # "off"

Past(p) == phase[p] \notin {"off", "starting", "opened", "aborting", "unwinding"}

Proven ==
  guard.challenge # None =>
    /\ challenge[guard.challenge].state # "unissued"
    /\ challenge[guard.challenge].by \in Process
    /\ Alive(guard.owner) => challenge[guard.challenge].by = guard.owner /\ Past(guard.owner)

Verified == guard.conn = guard.owner /\ challenge[guard.challenge].by = guard.owner

(* As long as the owner listens, the connection that was made after its answer  *)
(* is a connection to it; resolving the listener, then its process, makes that  *)
(* a fact that outlasts the owner.                                              *)
Connected ==
  guard.challenge # None =>
    /\ guard.pc = "listener" => (Listening(guard.owner) => Verified)
    /\ guard.pc = "process" =>
         (Alive(guard.owner) /\ PidOf[guard.owner] = guard.pid => Verified)
    /\ guard.pc = "sole" => (guard.found = guard.owner => Verified)
    /\ guard.pc \in {"send", "sent"} => Verified

(* A challenge is accepted once, when it is active.                             *)
Unspent ==
  \A c \in Challenge :
    /\ accepted[c] <= 1
    /\ challenge[c].state \in {"unissued", "active"} => accepted[c] = 0

GuardInv == TypeOK /\ Shape /\ OnePort /\ OnePid /\ Begun /\ Proven /\ Connected

----------------------------------------------------------------------------
(* The registry. *)

(* A sweep turns records that are held into tombstones, or forgets them.        *)
LEMMA SweepKeeps ==
  ASSUME RegistryTypeOK, NEW p \in Process
  PROVE  /\ Swept(p) \in [Challenge -> Record]
         /\ \A c \in Challenge :
              /\ Swept(p)[c].by = challenge[c].by
              /\ Swept(p)[c].nonce = challenge[c].nonce
              /\ Swept(p)[c].state = "unissued" <=> challenge[c].state = "unissued"
              /\ Swept(p)[c].state = "active" => challenge[c].state = "active"
              /\ challenge[c].state = "consumed" => Swept(p)[c].state \in {"consumed", "removed"}
<1>1. \A c \in Challenge : challenge[c] \in Record
  BY DEF RegistryTypeOK
<1> QED
  BY <1>1 DEF Swept, Held, Record, Tombstone

(* One request that a registry handles.                                         *)
Handles(p) ==
  \E n \in Nonce :
    \/ \E pid : RefuseIdentity(p, pid, n) \/ \E c \in Challenge : Issue(p, pid, n, c)
    \/ \E c \in Challenge : Consume(p, c, n) \/ RefuseShutdown(p, c, n)

(* Whatever a registry does, a record that was issued keeps its process, and    *)
(* only an active record is accepted.                                           *)
LEMMA RequestMoves ==
  ASSUME RegistryTypeOK, NEW p \in Process, Handles(p)
  PROVE  /\ RegistryTypeOK'
         /\ \A c \in Challenge :
              /\ challenge[c].state # "unissued" =>
                   challenge'[c].by = challenge[c].by /\ challenge'[c].state # "unissued"
              /\ accepted'[c] # accepted[c] =>
                   challenge[c].state = "active" /\ challenge'[c].state = "consumed"
                   /\ accepted'[c] = accepted[c] + 1
              /\ challenge'[c].state \in {"unissued", "active"} =>
                   challenge[c].state \in {"unissued", "active"}
<1> PICK n \in Nonce : \/ \E pid : RefuseIdentity(p, pid, n) \/ \E c \in Challenge : Issue(p, pid, n, c)
                       \/ \E c \in Challenge : Consume(p, c, n) \/ RefuseShutdown(p, c, n)
  BY DEF Handles
<1>s. /\ Swept(p) \in [Challenge -> Record]
      /\ \A c \in Challenge :
           /\ Swept(p)[c].by = challenge[c].by
           /\ Swept(p)[c].state = "unissued" <=> challenge[c].state = "unissued"
           /\ Swept(p)[c].state = "active" => challenge[c].state = "active"
  BY SweepKeeps
<1>t. /\ challenge \in [Challenge -> Record] /\ accepted \in [Challenge -> Nat]
      /\ age \in [Challenge -> {"running", "over", "past"}]
  BY DEF RegistryTypeOK
<1>1. ASSUME challenge' \in {challenge, Swept(p)}, UNCHANGED <<age, accepted>>
      PROVE  RegistryTypeOK' /\ \A c \in Challenge :
               /\ challenge[c].state # "unissued" =>
                    challenge'[c].by = challenge[c].by /\ challenge'[c].state # "unissued"
               /\ accepted'[c] = accepted[c]
               /\ challenge'[c].state \in {"unissued", "active"} =>
                    challenge[c].state \in {"unissued", "active"}
  BY <1>1, <1>s, <1>t DEF RegistryTypeOK
<1>2. ASSUME NEW pid, RefuseIdentity(p, pid, n)
      PROVE  challenge' \in {challenge, Swept(p)} /\ UNCHANGED <<age, accepted>>
  BY <1>2 DEF RefuseIdentity
<1>3. ASSUME NEW c \in Challenge, RefuseShutdown(p, c, n)
      PROVE  challenge' \in {challenge, Swept(p)} /\ UNCHANGED <<age, accepted>>
  BY <1>3 DEF RefuseShutdown
<1>4. ASSUME NEW pid, NEW c \in Challenge, Issue(p, pid, n, c)
      PROVE  RegistryTypeOK' /\ \A d \in Challenge :
               /\ challenge[d].state # "unissued" =>
                    challenge'[d].by = challenge[d].by /\ challenge'[d].state # "unissued"
               /\ accepted'[d] = accepted[d]
               /\ challenge'[d].state \in {"unissued", "active"} =>
                    challenge[d].state \in {"unissued", "active"}
  <2> DEFINE new == [by |-> p, nonce |-> n, state |-> "active"]
  <2>1. new \in Record /\ challenge[c].state = "unissued"
    BY <1>4 DEF Record, Issue
  <2> HIDE DEF new
  <2>2. challenge' = [Swept(p) EXCEPT ![c] = new] /\ UNCHANGED <<age, accepted>>
    BY <1>4 DEF Issue, new
  <2> QED BY <2>1, <2>2, <1>s, <1>t DEF RegistryTypeOK
<1>5. ASSUME NEW c \in Challenge, Consume(p, c, n)
      PROVE  RegistryTypeOK' /\ \A d \in Challenge :
               /\ challenge[d].state # "unissued" =>
                    challenge'[d].by = challenge[d].by /\ challenge'[d].state # "unissued"
               /\ accepted'[d] # accepted[d] =>
                    challenge[d].state = "active" /\ challenge'[d].state = "consumed"
                    /\ accepted'[d] = accepted[d] + 1
               /\ challenge'[d].state \in {"unissued", "active"} =>
                    challenge[d].state \in {"unissued", "active"}
  <2>1. /\ Swept(p)[c].state = "active" /\ challenge[c].state = "active"
        /\ challenge' = [Swept(p) EXCEPT ![c].state = "consumed"]
        /\ accepted' = [accepted EXCEPT ![c] = @ + 1] /\ UNCHANGED age
    BY <1>5, <1>s DEF Consume, Good
  <2>2. challenge' \in [Challenge -> Record]
    BY <2>1, <1>s DEF Record
  <2>3. accepted' \in [Challenge -> Nat]
    BY <2>1, <1>t
  <2>4. \A d \in Challenge :
          /\ challenge'[d].by = Swept(p)[d].by
          /\ challenge'[d].state = IF d = c THEN "consumed" ELSE Swept(p)[d].state
          /\ accepted'[d] = IF d = c THEN accepted[d] + 1 ELSE accepted[d]
    BY <2>1, <1>s, <1>t DEF Record
  <2> QED BY <2>1, <2>2, <2>3, <2>4, <1>s, <1>t DEF RegistryTypeOK
<1> QED BY <1>1, <1>2, <1>3, <1>4, <1>5

LEMMA RegistryMoves ==
  ASSUME RegistryTypeOK, RegistryStep \/ \E p \in Process : Handles(p)
  PROVE  /\ RegistryTypeOK'
         /\ \A c \in Challenge :
              /\ challenge[c].state # "unissued" =>
                   challenge'[c].by = challenge[c].by /\ challenge'[c].state # "unissued"
              /\ accepted'[c] # accepted[c] =>
                   challenge[c].state = "active" /\ challenge'[c].state = "consumed"
                   /\ accepted'[c] = accepted[c] + 1
              /\ challenge'[c].state \in {"unissued", "active"} =>
                   challenge[c].state \in {"unissued", "active"}
<1>1. CASE \E p \in Asked : OtherClient(p)
  BY <1>1, RequestMoves, ChallengeConstants DEF OtherClient, Handles
<1>2. CASE \E c \in Challenge : TimePasses(c) \/ ClockSetBack(c)
  BY <1>2 DEF TimePasses, ClockSetBack, RegistryTypeOK
<1>3. CASE \E p \in Process : Handles(p)
  BY <1>3, RequestMoves
<1> QED BY <1>1, <1>2, <1>3 DEF RegistryStep

----------------------------------------------------------------------------
(* The processes. *)

DaemonMoves == DaemonStep \/ \E p \in Process : Stop(p) \/ Drain(p)

(* Types, one listener and one process of a PID at a time, and the way of a     *)
(* process: from its start down, never back.                                    *)
LEMMA ProcessesMove ==
  ASSUME DaemonTypeOK, OnePort, OnePid, DaemonMoves
  PROVE  /\ DaemonTypeOK' /\ OnePort' /\ OnePid'
         /\ \A q \in Process :
              /\ phase[q] # "off" => phase'[q] # "off"
              /\ Alive(q)' => Alive(q) \/ phase[q] = "off"
              /\ Listening(q)' => Listening(q) \/ phase[q] = "off"
              /\ Past(q) => Past(q)'
<1>1. CASE Lapse
  BY <1>1 DEF Lapse, DaemonTypeOK, OnePort, OnePid, Listening, Alive, Past
<1>2. CASE \E p \in Process : Reserve(p)
  <2>1. PICK p \in Process : Reserve(p) BY <1>2
  <2>2. phase[p] = "off" /\ UNCHANGED <<row, lapsed>>
    BY <2>1 DEF Reserve
  <2>3. \E to \in {"starting", "exited"} :
          phase' = [phase EXCEPT ![p] = to] /\ (to = "starting" => PortFree)
    BY <2>1 DEF Reserve, Goes
  <2>4. \A q \in Process : PidOf[q] = PidOf[p] => ~Alive(q)
    BY <2>1 DEF Reserve
  <2>5. DaemonTypeOK'
    BY <2>2, <2>3 DEF DaemonTypeOK, Phase
  <2>6. OnePort'
    BY <2>2, <2>3 DEF DaemonTypeOK, OnePort, Listening, PortFree
  <2>7. OnePid'
    BY <2>2, <2>3, <2>4 DEF DaemonTypeOK, OnePid, Alive
  <2> QED BY <2>2, <2>3, <2>5, <2>6, <2>7 DEF DaemonTypeOK, Alive, Listening, Past
<1>3. ASSUME NEW p \in Process,
             \/ OpenStore(p) \/ StartChannels(p) \/ StartFails(p) \/ Renew(p) \/ Stop(p)
             \/ Drain(p) \/ StopChannels(p) \/ CloseStore(p) \/ CloseFails(p) \/ Crash(p)
      PROVE  /\ DaemonTypeOK' /\ OnePort' /\ OnePid'
             /\ \A q \in Process :
                  /\ phase[q] # "off" => phase'[q] # "off"
                  /\ Alive(q)' => Alive(q) \/ phase[q] = "off"
                  /\ Listening(q)' => Listening(q) \/ phase[q] = "off"
                  /\ Past(q) => Past(q)'
  <2>1. \E to \in Phase \ {"off"} :
          /\ phase' = [phase EXCEPT ![p] = to]
          /\ Alive(p)
          /\ to \in {"starting", "opened", "serving"} => Listening(p)
          /\ Past(p) => to \notin {"starting", "opened", "aborting", "unwinding"}
    BY <1>3 DEF OpenStore, StartChannels, StartFails, Renew, Stop, Drain, StopChannels,
       CloseStore, CloseFails, Crash, Goes, Phase, Alive, Listening, Draining, Past, DaemonTypeOK
  <2>2. row' \in Process \cup {None} /\ lapsed' \in BOOLEAN
    BY <1>3 DEF OpenStore, StartChannels, StartFails, Renew, Stop, Drain, StopChannels,
       CloseStore, CloseFails, Crash, DaemonTypeOK
  <2>3. DaemonTypeOK'
    BY <2>1, <2>2 DEF DaemonTypeOK
  <2>4. \A q \in Process :
          /\ phase[q] # "off" => phase'[q] # "off"
          /\ Alive(q)' => Alive(q)
          /\ Listening(q)' => Listening(q)
          /\ Past(q) => Past(q)'
    BY <2>1 DEF DaemonTypeOK, Alive, Listening, Past
  <2> QED BY <2>3, <2>4 DEF OnePort, OnePid
<1> QED BY <1>1, <1>2, <1>3 DEF DaemonMoves, DaemonStep

----------------------------------------------------------------------------
(* The guard. *)

LEMMA InitialGuard == Init => GuardInv
<1> SUFFICES ASSUME Init PROVE GuardInv
  OBVIOUS
<1>1. DaemonTypeOK /\ OnePort /\ OnePid
  BY DEF Init, DaemonInit, DaemonTypeOK, Phase, OnePort, OnePid, Listening, Alive
<1>2. Unissued \in Record
  BY DEF Unissued, Record
<1>3. RegistryTypeOK
  BY <1>2 DEF Init, RegistryInit, RegistryTypeOK
<1>4. /\ guard \in Guard /\ guard.pc = "idle"
      /\ guard.conn = None /\ guard.owner = None /\ guard.challenge = None
  BY DEF Init, Idle, Guard
<1> QED
  BY <1>1, <1>3, <1>4 DEF GuardInv, TypeOK, Shape, Begun, Proven, Connected

(* The processes move while the guard looks elsewhere.                          *)
LEMMA DaemonKeepsInv ==
  ASSUME GuardInv, DaemonMoves, UNCHANGED <<registry, guard>>
  PROVE  GuardInv'
<1>1. /\ DaemonTypeOK' /\ OnePort' /\ OnePid'
      /\ \A q \in Process :
           /\ phase[q] # "off" => phase'[q] # "off"
           /\ Alive(q)' => Alive(q) \/ phase[q] = "off"
           /\ Listening(q)' => Listening(q) \/ phase[q] = "off"
           /\ Past(q) => Past(q)'
  BY ProcessesMove DEF GuardInv, TypeOK
<1>2. TypeOK' /\ Shape'
  BY <1>1 DEF GuardInv, TypeOK, RegistryTypeOK, Shape, registry
<1>3. guard.owner # None => guard.owner \in Process /\ phase[guard.owner] # "off"
  BY GuardConstants DEF GuardInv, Shape, Begun
<1>4. Begun'
  BY <1>1, <1>3, GuardConstants DEF GuardInv, Shape, Begun
<1>5. Proven'
  BY <1>1, <1>3 DEF GuardInv, Shape, Proven, registry
<1>6. Connected'
  BY <1>1, <1>3 DEF GuardInv, Shape, Connected, Verified, registry
<1> QED BY <1>1, <1>2, <1>4, <1>5, <1>6 DEF GuardInv

(* A registry serves other clients, or time passes.                             *)
LEMMA RegistryKeepsInv ==
  ASSUME GuardInv, RegistryStep, UNCHANGED <<daemon, guard>>
  PROVE  GuardInv'
<1>1. /\ RegistryTypeOK'
      /\ \A c \in Challenge : challenge[c].state # "unissued" =>
           challenge'[c].by = challenge[c].by /\ challenge'[c].state # "unissued"
  BY RegistryMoves DEF GuardInv, TypeOK
<1>2. TypeOK' /\ Shape' /\ OnePort' /\ OnePid' /\ Begun'
  BY <1>1 DEF GuardInv, TypeOK, DaemonTypeOK, Shape, OnePort, OnePid, Begun, Listening, Alive, daemon
<1>3. guard.challenge # None => guard.challenge \in Challenge
  BY DEF GuardInv, TypeOK, Guard
<1>4. Proven'
  BY <1>1, <1>3 DEF GuardInv, Proven, Alive, Past, daemon
<1>5. guard.challenge # None => challenge'[guard.challenge].by = challenge[guard.challenge].by
  BY <1>1, <1>3 DEF GuardInv, Proven
<1>6. Connected'
  BY <1>5 DEF GuardInv, Connected, Verified, Alive, Listening, daemon
<1> QED BY <1>2, <1>4, <1>6 DEF GuardInv

(* The guard looks, or connects: nothing else changes.                          *)
Looks ==
  \/ Begin \/ Inventory \/ ResolveListener \/ ResolveProcess \/ ResolveSole
  \/ Ask \/ CheckIdentity \/ Connect \/ Send
  \/ WatchOwner \/ WatchPort \/ WatchInstalled \/ GiveUp

LEMMA LooksKeepInv ==
  ASSUME GuardInv, Looks
  PROVE  GuardInv'
<1>1. UNCHANGED <<daemon, registry>>
  BY DEF Looks, Quiet, Begin, Inventory, ResolveListener, ResolveProcess, ResolveSole, Ask,
     CheckIdentity, Connect, Send, WatchOwner, WatchPort, WatchInstalled, GiveUp
<1>2. DaemonTypeOK' /\ RegistryTypeOK' /\ OnePort' /\ OnePid'
  BY <1>1 DEF GuardInv, TypeOK, DaemonTypeOK, RegistryTypeOK, OnePort, OnePid, Listening, Alive, daemon, registry
<1>k. guard \in Guard /\ Installed \subseteq Process /\ None \notin Process /\ None \notin Nonce
  BY GuardConstants, ProcessConstants, ChallengeConstants DEF GuardInv, TypeOK
<1>q. ASSUME guard'.owner = None, guard'.challenge = None, guard' \in Guard,
             guard'.conn = None, guard'.pc \in {"idle", "inventory", "listener", "done", "failed"}
      PROVE  GuardInv'
  BY <1>q, <1>2 DEF GuardInv, TypeOK, Shape, Begun, Proven, Connected
<1>3. CASE Begin \/ GiveUp
  BY <1>3, <1>q DEF Begin, GiveUp, Fails, Idle, Guard
<1>c. guard.challenge # None => guard.owner # None /\ guard.owner \in Process
  BY <1>k DEF GuardInv, Shape
<1>4. CASE Inventory \/ WatchOwner \/ WatchPort \/ WatchInstalled \/ CheckIdentity
  <2>1. CASE Fails
    BY <2>1, <1>q DEF Fails, Idle, Guard
  <2>2. CASE ~Fails
    <3>1. PICK pc \in {"done", "port", "last", "watch", "connect"} :
             /\ guard' = [guard EXCEPT !.pc = pc]
             /\ guard.conn = None
             /\ pc = "done" \/ guard.challenge # None
      BY <1>4, <2>2 DEF Inventory, WatchOwner, WatchPort, WatchInstalled, CheckIdentity,
         GuardGoes, GuardAt, GuardInv, TypeOK, Shape
    <3>3. /\ guard' \in Guard /\ guard'.pc = pc /\ guard'.conn = None /\ guard'.nonce = guard.nonce
          /\ guard'.challenge = guard.challenge /\ guard'.owner = guard.owner
      BY <3>1, <1>k DEF Guard
    <3>2. TypeOK' /\ Shape' /\ Begun'
      BY <3>1, <3>3, <1>1, <1>2 DEF GuardInv, TypeOK, Shape, Begun, daemon
    <3>4. Proven' /\ Connected'
      BY <3>1, <3>3, <1>1 DEF GuardInv, Proven, Connected, Alive, Past, daemon, registry
    <3> QED BY <3>2, <3>4, <1>2 DEF GuardInv
  <2> QED BY <2>1, <2>2
<1>5. CASE ResolveListener
  <2>1. CASE Fails
    BY <2>1, <1>q DEF Fails, Idle, Guard
  <2>2. CASE ~Fails
    <3>1. PICK p \in Process : Listening(p) /\ guard' = [guard EXCEPT !.pc = "process", !.pid = PidOf[p]]
      BY <1>5, <2>2 DEF ResolveListener
    <3>2. /\ guard' \in Guard /\ guard.pc = "listener" /\ guard'.pc = "process" /\ guard'.pid = PidOf[p]
          /\ guard'.challenge = guard.challenge /\ guard'.owner = guard.owner /\ guard'.conn = guard.conn
          /\ guard'.nonce = guard.nonce
      BY <1>5, <3>1, <1>k DEF Guard, ResolveListener, GuardAt
    <3>3. TypeOK' /\ Shape' /\ Begun' /\ Proven'
      BY <3>2, <1>1, <1>2 DEF GuardInv, TypeOK, Shape, Begun, Proven, Alive, Past, daemon, registry
    <3>4. ASSUME guard.challenge # None, Alive(guard.owner), PidOf[guard.owner] = PidOf[p]
          PROVE  Verified
      <4>1. Alive(p)
        BY <3>1 DEF Listening, Alive
      <4>2. guard.owner = p
        BY <4>1, <3>4, <1>c DEF GuardInv, OnePid
      <4> QED BY <4>2, <3>1, <3>2, <3>4 DEF GuardInv, Connected
    <3>5. Connected'
      BY <3>2, <3>4, <1>1 DEF Connected, Verified, Alive, daemon, registry
    <3> QED BY <3>3, <3>5, <1>2 DEF GuardInv
  <2> QED BY <2>1, <2>2
<1>6. CASE ResolveProcess
  <2>1. CASE Fails
    BY <2>1, <1>q DEF Fails, Idle, Guard
  <2>2. CASE ~Fails
    <3>1. PICK p \in LiveInstalled : PidOf[p] = guard.pid /\
            guard' = [guard EXCEPT !.pc = "sole", !.pid = None, !.found = p]
      BY <1>6, <2>2 DEF ResolveProcess
    <3>2. p \in Installed /\ p \in Process /\ Alive(p)
      BY <3>1, <1>k DEF LiveInstalled
    <3>3. /\ guard' \in Guard /\ guard.pc = "process" /\ guard'.pc = "sole" /\ guard'.found = p
          /\ guard'.challenge = guard.challenge /\ guard'.owner = guard.owner /\ guard'.conn = guard.conn
          /\ guard'.nonce = guard.nonce
      BY <1>6, <3>1, <3>2, <1>k DEF Guard, ResolveProcess, GuardAt
    <3>4. TypeOK' /\ Shape' /\ Begun' /\ Proven'
      BY <3>2, <3>3, <1>1, <1>2 DEF GuardInv, TypeOK, Shape, Begun, Proven, Alive, Past, daemon, registry
    <3>5. ASSUME guard.challenge # None, p = guard.owner
          PROVE  Verified
      BY <3>1, <3>2, <3>3, <3>5 DEF GuardInv, Connected
    <3>6. Connected'
      BY <3>3, <3>5, <1>1 DEF Connected, Verified, daemon, registry
    <3> QED BY <3>4, <3>6, <1>2 DEF GuardInv
  <2> QED BY <2>1, <2>2
<1>7. CASE ResolveSole
  <2>1. CASE Fails
    BY <2>1, <1>q DEF Fails, Idle, Guard
  <2>2. CASE ~Fails /\ ~Again
    <3>1. guard' = [guard EXCEPT !.pc = "ask", !.owner = guard.found, !.found = None]
      BY <1>7, <2>2 DEF ResolveSole
    <3>2. /\ guard' \in Guard /\ guard.pc = "sole" /\ guard'.pc = "ask" /\ guard'.owner = guard.found
          /\ guard'.challenge = None /\ guard.found \in Installed
      BY <1>7, <2>2, <3>1, <1>k DEF Guard, ResolveSole, GuardAt, Again, GuardInv, Shape
    <3> QED
      BY <3>2, <1>1, <1>2, <1>k DEF GuardInv, TypeOK, Shape, Begun, Proven, Connected, daemon
  <2>3. CASE ~Fails /\ Again
    <3>1. guard.found = guard.owner /\ guard' = [guard EXCEPT !.pc = "send", !.found = None]
      BY <1>7, <2>3 DEF ResolveSole
    <3>2. /\ guard' \in Guard /\ guard.pc = "sole" /\ guard'.pc = "send" /\ guard.challenge # None
          /\ guard'.challenge = guard.challenge /\ guard'.owner = guard.owner /\ guard'.conn = guard.conn
          /\ guard'.nonce = guard.nonce
      BY <1>7, <2>3, <3>1, <1>k DEF Guard, ResolveSole, GuardAt, Again
    <3>3. TypeOK' /\ Shape' /\ Begun' /\ Proven'
      BY <3>2, <1>1, <1>2 DEF GuardInv, TypeOK, Shape, Begun, Proven, Alive, Past, daemon, registry
    <3>4. Connected'
      BY <3>1, <3>2, <1>1 DEF GuardInv, Connected, Verified, daemon, registry
    <3> QED BY <3>3, <3>4, <1>2 DEF GuardInv
  <2> QED BY <2>1, <2>2, <2>3
<1>8. CASE Ask
  <2>1. CASE Fails
    BY <2>1, <1>q DEF Fails, Idle, Guard
  <2>2. CASE ~Fails
    <3>1. PICK p \in Process, n \in Nonce : guard' = [guard EXCEPT !.pc = "asked", !.conn = p, !.nonce = n]
      BY <1>8, <2>2 DEF Ask
    <3>2. /\ guard' \in Guard /\ guard'.pc = "asked" /\ guard'.owner = guard.owner
          /\ guard'.challenge = None /\ guard'.conn = p /\ guard.owner # None /\ guard'.nonce # None
      BY <1>8, <3>1, <1>k DEF Guard, Ask, GuardAt, GuardInv, Shape
    <3> QED
      BY <3>2, <1>1, <1>2, <1>k DEF GuardInv, TypeOK, Shape, Begun, Proven, Connected, daemon
  <2> QED BY <2>1, <2>2
<1>9. CASE Connect
  <2>1. CASE Fails
    BY <2>1, <1>q DEF Fails, Idle, Guard
  <2>2. CASE ~Fails
    <3>1. PICK p \in Process : Listening(p) /\ guard' = [guard EXCEPT !.pc = "listener", !.conn = p]
      BY <1>9, <2>2 DEF Connect
    <3>2. /\ guard' \in Guard /\ guard.pc = "connect" /\ guard'.pc = "listener" /\ guard'.conn = p
          /\ guard'.challenge = guard.challenge /\ guard'.owner = guard.owner /\ guard.challenge # None
          /\ guard'.nonce = guard.nonce
      BY <1>9, <3>1, <1>k DEF Guard, Connect, GuardAt, GuardInv, Shape
    <3>3. TypeOK' /\ Shape' /\ Begun' /\ Proven'
      BY <3>2, <1>1, <1>2, <1>k DEF GuardInv, TypeOK, Shape, Begun, Proven, Alive, Past, daemon, registry
    <3>4. Listening(guard.owner) => guard.owner = p /\ challenge[guard.challenge].by = guard.owner
      BY <3>1, <3>2, <1>c DEF GuardInv, OnePort, Proven, Listening, Alive
    <3>5. Connected'
      BY <3>2, <3>4, <1>1 DEF Connected, Verified, Listening, daemon, registry
    <3> QED BY <3>3, <3>5, <1>2 DEF GuardInv
  <2> QED BY <2>1, <2>2
<1>10. CASE Send
  <2>1. CASE Fails
    BY <2>1, <1>q DEF Fails, Idle, Guard
  <2>2. CASE ~Fails
    <3>1. guard' = [guard EXCEPT !.pc = "sent", !.conn = guard.conn]
      BY <1>10, <2>2 DEF Send, Stream
    <3>2. /\ guard' \in Guard /\ guard.pc = "send" /\ guard'.pc = "sent" /\ guard'.conn = guard.conn
          /\ guard'.nonce = guard.nonce
          /\ guard'.challenge = guard.challenge /\ guard'.owner = guard.owner
      BY <1>10, <3>1, <1>k DEF Guard, Send, GuardAt
    <3>3. TypeOK' /\ Shape' /\ Begun' /\ Proven'
      BY <3>2, <1>1, <1>2 DEF GuardInv, TypeOK, Shape, Begun, Proven, Alive, Past, daemon, registry
    <3>4. Connected'
      BY <3>2, <1>1 DEF GuardInv, Connected, Verified, daemon, registry
    <3> QED BY <3>3, <3>4, <1>2 DEF GuardInv
  <2> QED BY <2>1, <2>2
<1> QED BY <1>3, <1>4, <1>5, <1>6, <1>7, <1>8, <1>9, <1>10 DEF Looks

(* A process answers the guard.                                                 *)
LEMMA AnswersKeepInv ==
  ASSUME GuardInv, AnswerIdentity \/ AnswerShutdown
  PROVE  GuardInv'
<1>1. UNCHANGED daemon
  BY DEF AnswerIdentity, AnswerShutdown
<1>k. guard \in Guard /\ Installed \subseteq Process /\ None \notin Process /\ None \notin Nonce
  BY GuardConstants, ProcessConstants, ChallengeConstants DEF GuardInv, TypeOK
<1>2. guard.conn \in Process /\ Alive(guard.conn)
  BY <1>k, ProcessConstants DEF AnswerIdentity, AnswerShutdown, Alive, GuardInv, Shape, Guard, TypeOK, GuardAt, Verified, Connected
<1>n. /\ guard.pc \in {"asked", "sent"} => guard.nonce \in Nonce
      /\ guard.pc = "sent" => guard.challenge \in Challenge
  BY <1>k DEF GuardInv, Shape, Guard
<1>3. ASSUME Handles(guard.conn)
      PROVE  /\ DaemonTypeOK' /\ RegistryTypeOK' /\ OnePort' /\ OnePid'
             /\ \A c \in Challenge : challenge[c].state # "unissued" =>
                  challenge'[c].by = challenge[c].by /\ challenge'[c].state # "unissued"
  BY <1>1, <1>2, <1>3, RegistryMoves
     DEF GuardInv, TypeOK, DaemonTypeOK, OnePort, OnePid, Listening, Alive, daemon
<1>4. CASE Fails /\ Handles(guard.conn)
  <2>1. /\ guard' \in Guard /\ guard'.pc = "failed" /\ guard'.owner = None
        /\ guard'.challenge = None /\ guard'.conn = None
    BY <1>4 DEF Fails, Idle, Guard
  <2> QED BY <2>1, <1>3, <1>4 DEF GuardInv, TypeOK, Shape, Begun, Proven, Connected
<1>5. ASSUME NEW c \in Challenge, GuardAt("asked"),
             Issue(guard.conn, PidOf[guard.owner], guard.nonce, c),
             guard' = [guard EXCEPT !.pc = "told", !.challenge = c, !.conn = None]
      PROVE  GuardInv'
  <2>1. /\ guard' \in Guard /\ guard'.pc = "told" /\ guard'.owner = guard.owner
        /\ guard'.challenge = c /\ guard'.conn = None /\ guard'.nonce = guard.nonce
        /\ guard.owner # None /\ guard.owner \in Process
    BY <1>5, <1>k, <1>n DEF Guard, GuardAt, GuardInv, Shape
  <2>2. Handling(guard.conn) /\ PidOf[guard.conn] = PidOf[guard.owner]
    BY <1>5 DEF Issue, MayIssue
  <2>3. challenge'[c].by = guard.conn /\ challenge'[c].state = "active"
    BY <1>2, <1>5, SweepKeeps DEF Issue, GuardInv, TypeOK
  <2>4. Alive(guard.owner) => guard.owner = guard.conn
    BY <2>1, <2>2, <1>2 DEF GuardInv, OnePid
  <2>5. Handles(guard.conn)
    BY <1>5, <1>n DEF Handles, GuardAt
  <2>6. /\ DaemonTypeOK' /\ RegistryTypeOK' /\ OnePort' /\ OnePid' /\ c # None
        /\ guard.nonce # None /\ guard.owner \in Installed /\ phase'[guard.owner] # "off"
    BY <2>1, <2>5, <1>1, <1>3, <1>5, <1>n, <1>k, ChallengeConstants
       DEF GuardInv, Shape, Begun, GuardAt, daemon
  <2>a. TypeOK'
    BY <2>1, <2>6 DEF TypeOK
  <2>b. Shape' /\ Begun'
    BY <2>1, <2>6 DEF Shape, Begun
  <2>7. Proven'
    BY <2>1, <2>2, <2>3, <2>4, <1>1, <1>2 DEF Proven, Alive, Past, Handling, daemon
  <2>8. Connected'
    BY <2>1 DEF Connected
  <2> QED BY <2>6, <2>a, <2>b, <2>7, <2>8 DEF GuardInv
<1>6. ASSUME GuardAt("sent"), Watch, Handles(guard.conn)
      PROVE  GuardInv'
  <2>1. /\ guard' \in Guard /\ guard'.pc = "watch" /\ guard'.owner = guard.owner
        /\ guard'.challenge = guard.challenge /\ guard'.conn = None /\ guard.challenge # None
        /\ guard'.nonce = guard.nonce
    BY <1>6, <1>k DEF Guard, Watch, GuardAt, GuardInv, Shape
  <2>2. TypeOK' /\ Shape' /\ Begun' /\ OnePort' /\ OnePid'
    BY <2>1, <1>1, <1>3, <1>6 DEF GuardInv, TypeOK, Shape, Begun, daemon
  <2>3. guard.challenge \in Challenge
    BY <2>1, <1>k DEF Guard
  <2>4. Proven' /\ Connected'
    BY <2>1, <2>3, <1>1, <1>3, <1>6 DEF GuardInv, Proven, Connected, Alive, Past, daemon
  <2> QED BY <2>2, <2>4 DEF GuardInv
<1>7. CASE AnswerIdentity
  BY <1>2, <1>4, <1>5, <1>7, <1>n DEF AnswerIdentity, Handles, GuardAt
<1>8. CASE AnswerShutdown
  BY <1>2, <1>4, <1>6, <1>8, <1>n DEF AnswerShutdown, Handles, GuardAt
<1> QED BY <1>7, <1>8

----------------------------------------------------------------------------
(* The theorems. *)

LEMMA StepsKeepInv == GuardInv /\ [Next]_vars => GuardInv'
<1> SUFFICES ASSUME GuardInv, [Next]_vars PROVE GuardInv'
  OBVIOUS
<1>1. CASE UNCHANGED vars
  BY <1>1 DEF vars, daemon, registry, GuardInv, TypeOK, DaemonTypeOK, RegistryTypeOK, Shape, OnePort,
     OnePid, Begun, Proven, Connected, Verified, Past, Alive, Listening
<1>2. CASE DaemonMoves /\ UNCHANGED <<registry, guard>>
  BY <1>2, DaemonKeepsInv
<1>3. CASE RegistryStep /\ UNCHANGED <<daemon, guard>>
  BY <1>3, RegistryKeepsInv
<1>4. CASE Looks \/ AnswerIdentity \/ AnswerShutdown
  BY <1>4, LooksKeepInv, AnswersKeepInv
<1> QED
  BY <1>1, <1>2, <1>3, <1>4 DEF Next, StopsNow, Drains, DaemonMoves, GuardStep, Looks

LEMMA GuardSafe == Spec => []GuardInv
BY InitialGuard, StepsKeepInv, PTL DEF Spec

(* The variables keep their types, and the guard holds no connection while it   *)
(* waits for the process at its other end to be gone.                           *)
THEOREM ShutdownTypes == Spec => []TypeOK
BY GuardSafe, PTL DEF GuardInv

(* The bearer token reaches only the installed process that was validated and   *)
(* answered, for any number of processes and any reuse of PIDs and the port.    *)
THEOREM TokenReachesVerifiedOnly == Spec => []TokenReachesVerified
<1>1. GuardInv => TokenReachesVerified
  BY DEF GuardInv, Shape, Connected, Verified, TokenReachesVerified, GuardAt
<1> QED BY <1>1, GuardSafe, PTL

(* What a step does to the registry.                                            *)
LEMMA StepsMoveRegistry ==
  ASSUME GuardInv, [Next]_vars
  PROVE  UNCHANGED registry \/ RegistryStep \/ \E p \in Process : Handles(p)
<1>1. CASE AnswerIdentity \/ AnswerShutdown
  <2>1. /\ guard.conn \in Process
        /\ guard.nonce \in Nonce
        /\ AnswerShutdown => guard.challenge \in Challenge
    BY <1>1 DEF AnswerIdentity, AnswerShutdown, GuardInv, TypeOK, Guard, Shape, GuardAt
  <2> QED BY <1>1, <2>1 DEF AnswerIdentity, AnswerShutdown, Handles
<1>2. CASE Looks
  BY <1>2 DEF Looks, Quiet, Begin, Inventory, ResolveListener, ResolveProcess, ResolveSole, Ask,
     CheckIdentity, Connect, Send, WatchOwner, WatchPort, WatchInstalled, GiveUp
<1> QED
  BY <1>1, <1>2 DEF Next, StopsNow, Drains, GuardStep, Looks, vars

(* A challenge that is spent is never accepted again.                           *)
THEOREM SpentForGood == Spec => SpentStaysSpent
<1>1. GuardInv /\ [Next]_vars =>
        [\A c \in Challenge :
           challenge[c].state \in Tombstone \cup {"removed"} => accepted'[c] = accepted[c]]_vars
  <2> SUFFICES ASSUME GuardInv, [Next]_vars, NEW c \in Challenge,
                      challenge[c].state \in Tombstone \cup {"removed"}
               PROVE  accepted'[c] = accepted[c]
    OBVIOUS
  <2>1. CASE UNCHANGED registry
    BY <2>1 DEF registry
  <2>2. CASE RegistryStep \/ \E p \in Process : Handles(p)
    BY <2>2, RegistryMoves DEF GuardInv, TypeOK, Tombstone
  <2> QED BY <2>1, <2>2, StepsMoveRegistry
<1> QED BY <1>1, GuardSafe, PTL DEF Spec, SpentStaysSpent

(* Over the whole life of a registry a challenge is accepted at most once.      *)
THEOREM AcceptedAtMostOnce == Spec => [](\A c \in Challenge : accepted[c] <= 1)
<1>1. Init => Unspent
  BY DEF Init, RegistryInit, Unspent, Unissued
<1>2. GuardInv /\ Unspent /\ [Next]_vars => Unspent'
  <2> SUFFICES ASSUME GuardInv, Unspent, [Next]_vars PROVE Unspent'
    OBVIOUS
  <2>1. CASE UNCHANGED registry
    BY <2>1 DEF registry, Unspent
  <2>2. CASE RegistryStep \/ \E p \in Process : Handles(p)
    BY <2>2, RegistryMoves DEF GuardInv, TypeOK, RegistryTypeOK, Unspent
  <2> QED BY <2>1, <2>2, StepsMoveRegistry
<1>3. Unspent => \A c \in Challenge : accepted[c] <= 1
  BY DEF Unspent
<1> QED BY <1>1, <1>2, <1>3, GuardSafe, PTL DEF Spec

(* A process that ends of itself leaves no row of its own behind.               *)
THEOREM CleanExitGivesUpDatabase == Spec => []CleanExitFreesDatabase
<1> DEFINE Inv == \A p \in Process : phase[p] \in {"off", "starting", "aborting", "exited"} => row # p
<1>1. Init => Inv
  BY ProcessConstants DEF Init, DaemonInit
<1>2. GuardInv /\ Inv /\ [Next]_vars => Inv'
  <2> SUFFICES ASSUME GuardInv, Inv, [Next]_vars PROVE Inv'
    OBVIOUS
  <2>1. CASE UNCHANGED daemon
    BY <2>1 DEF daemon
  <2>2. CASE DaemonMoves
    BY <2>2, ProcessConstants
       DEF DaemonMoves, DaemonStep, Lapse, Reserve, OpenStore, StartChannels, StartFails, Renew, Stop,
           Drain, Draining, StopChannels, CloseStore, CloseFails, Crash, Goes, GuardInv, TypeOK, DaemonTypeOK, Alive
  <2>3. UNCHANGED daemon \/ DaemonMoves
    BY DEF Next, StopsNow, Drains, DaemonMoves, GuardStep, vars, Quiet, Begin, Inventory, ResolveListener,
       ResolveProcess, ResolveSole, Ask, AnswerIdentity, CheckIdentity, Connect, Send, AnswerShutdown,
       WatchOwner, WatchPort, WatchInstalled, GiveUp
  <2> QED BY <2>1, <2>2, <2>3
<1>3. Inv => CleanExitFreesDatabase
  BY DEF CleanExitFreesDatabase
<1> HIDE DEF Inv
<1> QED BY <1>1, <1>2, <1>3, GuardSafe, PTL DEF Spec

(* What a process does to the database, step by step as DatabaseOwnership has it.*)
LEMMA DaemonsHandOver ==
  ASSUME DaemonTypeOK, DaemonMoves
  PROVE  [Ownership!Next]_(Ownership!vars)
<1> DEFINE Ends(p) == p \notin Over /\ Over' = Over \cup {p} /\ Untaken' = Untaken \ {p}
           Keeps   == row' = row /\ lapsed' = lapsed
           Frees(p) == row = p /\ row' = None /\ lapsed' = FALSE
<1>q. ASSUME UNCHANGED <<row, lapsed, Untaken, Over>>
      PROVE  UNCHANGED Ownership!vars
  BY <1>q DEF Ownership!vars
<1>e. ASSUME NEW p \in Process, Ends(p), Keeps \/ Frees(p)
      PROVE  Ownership!Next
  <2>1. Ownership!End(p) BY <1>e DEF Ownership!End
  <2> QED BY <2>1 DEF Ownership!Next
<1>1. CASE Lapse
  <2>1. Ownership!Lapse
    BY <1>1 DEF Lapse, Ownership!Lapse, Untaken, Over
  <2> QED BY <2>1 DEF Ownership!Next
<1>2. ASSUME NEW p \in Process, Reserve(p) PROVE [Ownership!Next]_(Ownership!vars)
  <2>1. CASE PortFree
    <3>1. Untaken' = Untaken /\ Over' = Over
      BY <1>2, <2>1 DEF Reserve, Goes, DaemonTypeOK, Untaken, Over
    <3> QED BY <3>1, <1>2, <1>q DEF Reserve
  <2>2. CASE ~PortFree
    <3>1. Ends(p)
      BY <1>2, <2>2 DEF Reserve, Goes, DaemonTypeOK, Untaken, Over
    <3> QED BY <3>1, <1>2, <1>e DEF Reserve
  <2> QED BY <2>1, <2>2
<1>3. ASSUME NEW p \in Process, OpenStore(p) PROVE Ownership!Next
  <2>1. p \in Untaken \ Over /\ Untaken' = Untaken \ {p} /\ Over' = Over
    BY <1>3 DEF OpenStore, Goes, DaemonTypeOK, Untaken, Over
  <2>2. Ownership!Take(p)
    BY <1>3, <2>1 DEF OpenStore, Ownership!Take
  <2> QED BY <2>2 DEF Ownership!Next
<1>4. ASSUME NEW p \in Process, Renew(p) PROVE Ownership!Next
  <2>1. p \notin Untaken \cup Over \cup {None} /\ Untaken' = Untaken /\ Over' = Over
    BY <1>4, ProcessConstants DEF Renew, Untaken, Over
  <2>2. Ownership!Renew
    BY <1>4, <2>1 DEF Renew, Ownership!Renew
  <2> QED BY <2>2 DEF Ownership!Next
<1>5. ASSUME NEW p \in Process, StartChannels(p) \/ StartFails(p) \/ Stop(p) \/ StopChannels(p)
      PROVE  UNCHANGED <<row, lapsed, Untaken, Over>>
  BY <1>5 DEF StartChannels, StartFails, Stop, StopChannels, Goes, DaemonTypeOK, Untaken, Over
<1>6. ASSUME NEW p \in Process, Drain(p) PROVE [Ownership!Next]_(Ownership!vars)
  <2>1. CASE phase[p] = "aborting"
    <3>1. Ends(p)
      BY <1>6, <2>1 DEF Drain, Goes, DaemonTypeOK, Untaken, Over
    <3> QED BY <3>1, <1>6, <1>e DEF Drain
  <2>2. CASE phase[p] # "aborting"
    <3>1. Untaken' = Untaken /\ Over' = Over
      BY <1>6, <2>2 DEF Drain, Draining, Goes, DaemonTypeOK, Untaken, Over
    <3> QED BY <3>1, <1>6, <1>q DEF Drain
  <2> QED BY <2>1, <2>2
<1>7. ASSUME NEW p \in Process, CloseStore(p) \/ CloseFails(p) \/ Crash(p)
      PROVE  Ownership!Next
  <2>1. Ends(p)
    BY <1>7 DEF CloseStore, CloseFails, Crash, Alive, Goes, DaemonTypeOK, Untaken, Over
  <2>2. Keeps \/ Frees(p)
    BY <1>7 DEF CloseStore, CloseFails, Crash, DaemonTypeOK
  <2> QED BY <2>1, <2>2, <1>e
<1> QED
  BY <1>1, <1>2, <1>3, <1>4, <1>5, <1>6, <1>7, <1>q DEF DaemonMoves, DaemonStep

(* Processes that start, fail, stop and crash in any order implement the        *)
(* ownership of the database that the inbound pipeline implements too           *)
(* (bootstrapGateway, GatewayStore's constructor, renewOwnership and close).    *)
THEOREM DatabaseHandedOver == Spec => HandsDatabaseOver
<1>1. Init => Ownership!Init
  BY DEF Init, DaemonInit, Ownership!Init, Untaken, Over
<1>2. GuardInv /\ [Next]_vars => [Ownership!Next]_(Ownership!vars)
  <2> SUFFICES ASSUME GuardInv, [Next]_vars PROVE [Ownership!Next]_(Ownership!vars)
    OBVIOUS
  <2>1. CASE DaemonMoves
    BY <2>1, DaemonsHandOver DEF GuardInv, TypeOK
  <2>2. CASE UNCHANGED daemon
    BY <2>2 DEF daemon, Ownership!vars, Untaken, Over
  <2>3. CASE GuardStep
    BY <2>2, <2>3 DEF GuardStep, Quiet, Begin, Inventory, ResolveListener, ResolveProcess,
       ResolveSole, Ask, AnswerIdentity, CheckIdentity, Connect, Send, AnswerShutdown,
       WatchOwner, WatchPort, WatchInstalled, GiveUp
  <2> QED
    BY <2>1, <2>2, <2>3 DEF Next, DaemonMoves, StopsNow, Drains, vars
<1> QED BY <1>1, <1>2, GuardSafe, PTL DEF Spec, HandsDatabaseOver, Ownership!Spec

(* When the guard says that the installer may go on, nothing installed runs:    *)
(* only the queries of the installation's processes lead there.                 *)
THEOREM DoneIsStopped == Spec => DoneMeansStopped
<1>1. GuardInv /\ [Next]_vars =>
        [~GuardAt("done") /\ guard'.pc = "done" => \A p \in Installed : ~Alive(p)]_vars
  <2> SUFFICES ASSUME GuardInv, [Next]_vars, guard'.pc = "done", ~GuardAt("done")
               PROVE  \A p \in Installed : ~Alive(p)
    OBVIOUS
  <2>k. guard \in Guard
    BY DEF GuardInv, TypeOK
  <2>1. CASE UNCHANGED guard
    BY <2>1 DEF GuardAt
  <2>2. CASE Inventory \/ WatchInstalled
    BY <2>2, <2>k DEF Inventory, WatchInstalled, GuardGoes, Fails, Idle, NoneInstalled, LiveInstalled, Guard
  <2>3. CASE Begin \/ ResolveListener \/ ResolveProcess \/ ResolveSole \/ Ask
    BY <2>3, <2>k DEF Begin, ResolveListener, ResolveProcess, ResolveSole, Ask, Fails, Idle, Guard
  <2>4. CASE CheckIdentity \/ Connect \/ Send \/ WatchOwner \/ WatchPort \/ GiveUp
    BY <2>4, <2>k DEF CheckIdentity, Connect, Send, WatchOwner, WatchPort, GiveUp, GuardGoes, Fails, Idle, Guard
  <2>5. CASE AnswerIdentity \/ AnswerShutdown
    BY <2>5, <2>k DEF AnswerIdentity, AnswerShutdown, Watch, Fails, Idle, Guard
  <2> QED
    BY <2>1, <2>2, <2>3, <2>4, <2>5 DEF Next, GuardStep, StopsNow, Drains, vars
<1> QED BY <1>1, GuardSafe, PTL DEF Spec, DoneMeansStopped

(* What a registry holds after a request.                                       *)
LEMMA RequestHolds ==
  ASSUME RegistryTypeOK, RegistryHolds, NEW p \in Process, Handles(p)
  PROVE  RegistryHolds'
<1> DEFINE Bare(q) == Held(Swept(p), q)
           New(q)  == Held(challenge', q)
<1>s. /\ Swept(p) \in [Challenge -> Record] /\ challenge \in [Challenge -> Record]
      /\ \A c \in Challenge : Swept(p)[c].by = challenge[c].by /\ Swept(p)[c].nonce = challenge[c].nonce
  BY SweepKeeps DEF RegistryTypeOK
<1>f. ASSUME NEW table, NEW q \in Process
      PROVE  IsFiniteSet(Held(table, q)) /\ Cardinality(Held(table, q)) \in Nat
  <2>1. Held(table, q) \subseteq Challenge
    BY DEF Held
  <2> QED BY <2>1, FS_Subset, FS_CardinalityType, ChallengeConstants
<1>1. ASSUME NEW q \in Process
      PROVE  /\ Bare(q) \subseteq Held(challenge, q)
             /\ Cardinality(Bare(q)) <= MaxChallenges
             /\ \A c, d \in Bare(q) : Swept(p)[c].nonce = Swept(p)[d].nonce => c = d
  <2>1. Bare(q) \subseteq Held(challenge, q)
    BY <1>s DEF Held, Swept, Tombstone
  <2>2. Cardinality(Bare(q)) <= Cardinality(Held(challenge, q))
    BY <2>1, <1>f, FS_Subset
  <2>3. Cardinality(Bare(q)) <= MaxChallenges
    <3>1. Cardinality(Held(challenge, q)) <= MaxChallenges
      BY DEF RegistryHolds
    <3>2. Cardinality(Bare(q)) \in Nat /\ Cardinality(Held(challenge, q)) \in Nat
      BY <1>f
    <3> HIDE DEF Bare
    <3> QED BY <2>2, <3>1, <3>2, ChallengeConstants
  <2>4. \A c \in Bare(q) : c \in Challenge
    BY DEF Held
  <2> HIDE DEF Bare
  <2> QED BY <2>1, <2>3, <2>4, <1>s DEF RegistryHolds
<1>2. ASSUME \A q \in Process : New(q) = Bare(q),
             \A c \in Challenge : challenge'[c].nonce = challenge[c].nonce
      PROVE  RegistryHolds'
  <2>1. \A q \in Process : \A c \in Held(Swept(p), q) : c \in Challenge
    BY DEF Held
  <2> QED BY <1>1, <1>2, <2>1, <1>s DEF RegistryHolds
<1>3. CASE challenge' = challenge
  BY <1>3 DEF RegistryHolds, Held
<1>4. CASE challenge' = Swept(p)
  <2>1. \A q \in Process : New(q) = Bare(q)
    BY <1>4
  <2>2. \A c \in Challenge : challenge'[c].nonce = challenge[c].nonce
    BY <1>4, <1>s
  <2> QED BY <1>2, <2>1, <2>2
<1>5. ASSUME NEW c \in Challenge, NEW n \in Nonce, Consume(p, c, n)
      PROVE  RegistryHolds'
  <2>1. /\ challenge' = [Swept(p) EXCEPT ![c].state = "consumed"]
        /\ Swept(p)[c].state = "active"
    BY <1>5 DEF Consume, Good
  <2>2. \A d \in Challenge :
          /\ challenge'[d].by = Swept(p)[d].by /\ challenge'[d].nonce = Swept(p)[d].nonce
          /\ challenge'[d].state = IF d = c THEN "consumed" ELSE Swept(p)[d].state
    BY <2>1, <1>s DEF Record
  <2>3. \A q \in Process : New(q) = Bare(q)
    BY <2>1, <2>2 DEF Held, Tombstone
  <2> QED BY <1>2, <2>2, <2>3, <1>s
<1>6. ASSUME NEW c \in Challenge, NEW n \in Nonce, NEW pid, Issue(p, pid, n, c)
      PROVE  RegistryHolds'
  <2> DEFINE rec == [by |-> p, nonce |-> n, state |-> "active"]
  <2>1. /\ challenge' = [Swept(p) EXCEPT ![c] = rec] /\ challenge[c].state = "unissued"
        /\ IsNewNonce(Swept(p), p, n) /\ Cardinality(Bare(p)) < MaxChallenges
    BY <1>6 DEF Issue, MayIssue, HasRoom
  <2>2. rec.by = p /\ rec.nonce = n /\ rec.state = "active"
    OBVIOUS
  <2> HIDE DEF rec
  <2>3. /\ challenge'[c] = rec
        /\ \A d \in Challenge : d # c => challenge'[d] = Swept(p)[d]
    BY <2>1, <1>s
  <2>4. \A q \in Process : c \notin Bare(q)
    BY <2>1, <1>s DEF Held, Swept, Tombstone
  <2>5. New(p) = Bare(p) \cup {c} /\ \A q \in Process : q # p => New(q) = Bare(q)
    BY <2>2, <2>3, <2>4 DEF Held
  <2>6. ASSUME NEW q \in Process
        PROVE  Cardinality(New(q)) <= MaxChallenges
    <3>1. CASE q # p
      BY <3>1, <2>5, <1>1
    <3>2. CASE q = p
      <4>1. IsFiniteSet(Bare(p)) /\ Cardinality(Bare(p)) \in Nat
        BY <1>f
      <4>2. Cardinality(New(p)) = Cardinality(Bare(p)) + 1
        <5> HIDE DEF Bare, New
        <5> QED BY <2>4, <2>5, <4>1, FS_AddElement
      <4> HIDE DEF Bare, New
      <4> QED BY <3>2, <4>1, <4>2, <2>1, ChallengeConstants
    <3> QED BY <3>1, <3>2
  <2>7. ASSUME NEW q \in Process, NEW d \in New(q), NEW e \in New(q),
               challenge'[d].nonce = challenge'[e].nonce
        PROVE  d = e
    <3>1. /\ d \in Challenge /\ e \in Challenge
          /\ d # c => d \in Bare(q) /\ challenge'[d].nonce = Swept(p)[d].nonce
          /\ e # c => e \in Bare(q) /\ challenge'[e].nonce = Swept(p)[e].nonce
          /\ (d = c \/ e = c) => q = p
      BY <2>2, <2>3, <2>7 DEF Held
    <3>2. CASE d # c /\ e # c
      BY <3>1, <3>2, <2>7, <1>1
    <3>3. CASE d = c \/ e = c
      BY <3>1, <3>3, <2>1, <2>2, <2>3, <2>7 DEF IsNewNonce
    <3> QED BY <3>2, <3>3
  <2> QED BY <2>6, <2>7 DEF RegistryHolds
<1> QED BY <1>3, <1>4, <1>5, <1>6 DEF Handles, RefuseIdentity, RefuseShutdown

(* A registry keeps within its limit, tombstones counted, and holds no nonce    *)
(* twice, whatever the limit and the number of clients.                         *)
THEOREM RegistryWithinLimit == Spec => []RegistryHolds
<1>1. Init => RegistryHolds
  <2> SUFFICES ASSUME Init PROVE RegistryHolds
    OBVIOUS
  <2>1. \A p \in Process : Held(challenge, p) = {}
    BY DEF Init, RegistryInit, Unissued, Held, Tombstone
  <2> QED BY <2>1, FS_EmptySet, ChallengeConstants DEF RegistryHolds
<1>2. GuardInv /\ RegistryHolds /\ [Next]_vars => RegistryHolds'
  <2> SUFFICES ASSUME GuardInv, RegistryHolds, [Next]_vars PROVE RegistryHolds'
    OBVIOUS
  <2>1. CASE UNCHANGED challenge
    BY <2>1 DEF RegistryHolds, Held
  <2>2. CASE \E p \in Process : Handles(p)
    BY <2>2, RequestHolds DEF GuardInv, TypeOK
  <2>3. CASE RegistryStep
    BY <2>1, <2>2, <2>3, ChallengeConstants
       DEF RegistryStep, OtherClient, Handles, TimePasses, ClockSetBack
  <2> QED BY <2>1, <2>2, <2>3, StepsMoveRegistry DEF registry
<1> QED BY <1>1, <1>2, GuardSafe, PTL DEF Spec
===================================================================================
