------------------------------ MODULE KeyRotation ------------------------------
(***************************************************************************)
(* The credential master key of the gateway: its creation, its offline     *)
(* rotation (src/daemon/maintenance.ts) and the recovery of an interrupted *)
(* rotation (src/daemon/master-key.ts), on POSIX.  The key is a file; the  *)
(* database records the id of the key it is encrypted under; a journal     *)
(* says which rotation is under way.                                       *)
(*                                                                         *)
(* A program is a daemon start or a rotation.  Each durable effect it has  *)
(* on the disk is one step, and it may die, or throw, between any two.     *)
(* The documentation asks for the daemon to be stopped, so a program       *)
(* begins only while no other one is recovering, rotating or starting.  A  *)
(* daemon that serves keeps a rotation out by its lease on the database,   *)
(* and only as long as it renews it: one that stalls loses the database to *)
(* the rotation, and serves on, with the key it has.                       *)
(***************************************************************************)
EXTENDS Naturals

CONSTANTS
  Proc,  \* programs that may run
  Key,   \* random keys, told apart by their id
  None   \* no file, no journal, no database

ASSUME KeyConstants ==
  None \notin Key \cup Proc \cup {"previous"} /\ {"key", "next", "previous"} \cap Key = {}

\* Where a retired key waits for its removal: the marker its journal names, or the
\* one path that journals of version 1 used.
Shelf == {"previous"} \cup Key

\* The canonical key, the prepared one, and the retired ones.
Path == {"key", "next"} \cup Shelf

VARIABLES
  file,     \* the key each path holds
  linked,   \* key files that still have their temporary link: nlink is not 1
  journal,  \* the rotation journal: the keys it leads from and to, and the shelf
  db,       \* credential_key_id; None before the first encrypted schema
  holder,   \* the program that the ownership row of the database names
  due,      \* its lease has run out
  sealed,   \* the keys that the secrets in channel_state are sealed under
  minted,   \* keys ever drawn; random keys never repeat
  pc, kind, \* the next durable effect of each program, and what the program is
  cur, nxt  \* the keys (or key ids) each program works with

disk == <<file, linked, journal, minted>>
base == <<db, holder, due, sealed>>
progs == <<pc, kind, cur, nxt>>
vars == <<disk, base, progs>>

NoJournal == [from |-> None, to |-> None, shelf |-> None]

Journal1(c, n) == [from |-> c, to |-> n, shelf |-> "previous"]
Journal2(c, n) == [from |-> c, to |-> n, shelf |-> c]

Label == {"idle", "load", "settleKey", "provision", "settleNext", "journal", "open",
          "reencrypt", "close", "retire", "promote", "wipe", "discard", "unjournal",
          "serve"}

----------------------------------------------------------------------------
(* Recovery. *)

\* The canonical key, the prepared key and the key on the journaled shelf.
At(k, n, r) == file["key"] = k /\ file["next"] = n /\ file[journal.shelf] = r

\* Version 2 has no use for the path of version 1.
Unexpected == journal.shelf # "previous" /\ file["previous"] # None

\* Faulty variant: recovery goes by the files alone and drops the prepared key.
ResumeByFiles ==
  LET c == journal.from
      n == journal.to
  IN  IF At(c, n, None) THEN "discard"
      ELSE IF At(c, None, None) THEN "unjournal"
      ELSE IF At(None, n, c) THEN "promote"
      ELSE IF At(n, None, c) THEN "wipe"
      ELSE IF At(n, None, None) THEN "unjournal"
      ELSE "refused"

\* Faulty variant: an interruption between the two renames is not recognised.
ResumeOutsideGap ==
  LET c == journal.from
      n == journal.to
  IN  IF db = c /\ At(c, n, None) THEN "discard"
      ELSE IF db = c /\ At(c, None, None) THEN "unjournal"
      ELSE IF db = n /\ At(c, n, None) THEN "retire"
      ELSE IF db = n /\ At(n, None, c) THEN "wipe"
      ELSE IF db = n /\ At(n, None, None) THEN "unjournal"
      ELSE "refused"

\* The effect recovery resumes with, from the journal, the database's key id and the
\* files; "refused" when they fit no interruption.  The two versions of the journal
\* differ in the shelf alone.
Resume ==
  LET c == journal.from
      n == journal.to
  IN  IF Unexpected THEN "refused"
      ELSE IF db = c /\ At(c, n, None) THEN "discard"
      ELSE IF db = c /\ At(c, None, None) THEN "unjournal"
      ELSE IF db = n /\ At(c, n, None) THEN "retire"
      ELSE IF db = n /\ At(None, n, c) THEN "promote"
      ELSE IF db = n /\ At(n, None, c) THEN "wipe"
      ELSE IF db = n /\ At(n, None, None) THEN "unjournal"
      ELSE "refused"

\* storage.read refuses a key file that has a second link.
Readable(q) == file[q] \notin linked

\* Recovery reads the journal and then all the key files, and finds what to do.
Recoverable ==
  Resume # "refused" /\ \A q \in {"key", "next", "previous", journal.shelf} : Readable(q)

Undisturbed == \A q \in Proc : pc[q] \in {"idle", "serve"}

\* Go on with label l.
Goto(p, l) == pc' = [pc EXCEPT ![p] = l]

\* A daemon start or a rotation begins; without a journal there is nothing to
\* recover.  A second daemon fails to bind the port before it comes to the key.
\* A refused recovery throws and changes nothing.
Begin(p) ==
  /\ pc[p] = "idle" /\ Undisturbed
  /\ \E k \in {"daemon", "rotate"} :
       /\ k = "daemon" => \A q \in Proc : pc[q] = "idle"
       /\ kind' = [kind EXCEPT ![p] = k]
  /\ IF journal = NoJournal
     THEN Goto(p, "load") /\ UNCHANGED <<cur, nxt>>
     ELSE /\ Recoverable /\ Goto(p, Resume)
          /\ cur' = [cur EXCEPT ![p] = journal.from]
          /\ nxt' = [nxt EXCEPT ![p] = journal.to]
  /\ UNCHANGED <<disk, base>>

----------------------------------------------------------------------------
(* Loading and creating keys. *)

AfterLoad(p) == IF kind[p] = "daemon" THEN "open" ELSE "provision"

\* storage.create links the finished temporary file to its path ...
Link(p, path, k) ==
  /\ k \notin minted /\ minted' = minted \cup {k}
  /\ file[path] = None /\ file' = [file EXCEPT ![path] = k]
  /\ linked' = linked \cup {k}
  /\ UNCHANGED <<journal, base, kind>>

\* ... and then removes the temporary name.
Unlink(p, k) ==
  /\ linked' = linked \ {k}
  /\ UNCHANGED <<file, journal, minted, base, kind, cur, nxt>>

LoadKey(p) ==
  /\ pc[p] = "load" /\ file["key"] # None /\ Readable("key")
  /\ cur' = [cur EXCEPT ![p] = file["key"]]
  /\ Goto(p, AfterLoad(p))
  /\ UNCHANGED <<disk, base, kind, nxt>>

\* A new key, unless an encrypted database needs the missing one.
CreateKey(p) ==
  /\ pc[p] = "load" /\ db = None
  /\ \E k \in Key : Link(p, "key", k) /\ cur' = [cur EXCEPT ![p] = k]
  /\ Goto(p, "settleKey") /\ UNCHANGED nxt

SettleKey(p) ==
  /\ pc[p] = "settleKey" /\ Unlink(p, cur[p]) /\ Goto(p, AfterLoad(p))

\* A prepared key that an earlier attempt left is taken up.
LoadNext(p) ==
  /\ pc[p] = "provision" /\ file["next"] # None /\ Readable("next")
  /\ nxt' = [nxt EXCEPT ![p] = file["next"]]
  /\ Goto(p, "journal")
  /\ UNCHANGED <<disk, base, kind, cur>>

CreateNext(p) ==
  /\ pc[p] = "provision"
  /\ \E k \in Key : Link(p, "next", k) /\ nxt' = [nxt EXCEPT ![p] = k]
  /\ Goto(p, "settleNext") /\ UNCHANGED cur

SettleNext(p) ==
  /\ pc[p] = "settleNext" /\ Unlink(p, nxt[p]) /\ Goto(p, "journal")

----------------------------------------------------------------------------
(* The rotation. *)

\* Faulty variant: the journal names the keys in the wrong order.
WriteJournalSwapped(p) ==
  /\ pc[p] = "journal" /\ journal = NoJournal
  /\ journal' = Journal2(nxt[p], cur[p])
  /\ Goto(p, "open")
  /\ UNCHANGED <<file, linked, minted, base, kind, cur, nxt>>

\* writeRotationJournal links a finished file: the journal is there or not.
WriteJournal(p) ==
  /\ pc[p] = "journal" /\ journal = NoJournal
  /\ journal' = Journal2(cur[p], nxt[p])
  /\ Goto(p, "open")
  /\ UNCHANGED <<file, linked, minted, base, kind, cur, nxt>>

\* Whether its owner lives or not, a database is to be had once the lease is over.
Available == holder = None \/ due

\* The owner may read and write, until its lease is over or the row is another's.
Holds(p) == holder = p /\ ~due

\* close() deletes the row if it is still this program's.
Release(p) ==
  /\ holder' = IF holder = p THEN None ELSE holder
  /\ due' = (due /\ holder # p)

\* A store opens with the key that the database and every secret in it is under.
Fits(k) == db = None \/ (db = k /\ sealed \subseteq {k})

\* new GatewayStore: takes the database if it is available and the key fits; one that
\* is new or still plain is encrypted under the key, with the secrets it may hold.
Open(p) ==
  /\ pc[p] = "open" /\ Available /\ Fits(cur[p])
  /\ db' = cur[p] /\ holder' = p /\ due' = FALSE
  /\ IF db = None THEN sealed' \in {{}, {cur[p]}} ELSE UNCHANGED sealed
  /\ Goto(p, IF kind[p] = "daemon" THEN "serve" ELSE "reencrypt")
  /\ UNCHANGED <<disk, kind, cur, nxt>>

\* rotateSecrets: every secret and the key id in one transaction of the owner.
Reencrypt(p) ==
  /\ pc[p] = "reencrypt" /\ Holds(p) /\ sealed \subseteq {cur[p]}
  /\ db' = nxt[p] /\ sealed' = {nxt[p] : k \in sealed}
  /\ Goto(p, "close")
  /\ UNCHANGED <<disk, holder, due, kind, cur, nxt>>

CloseStore(p) ==
  /\ pc[p] = "close" /\ Release(p) /\ Goto(p, "retire")
  /\ UNCHANGED <<disk, db, sealed, kind, cur, nxt>>

\* rename replaces whatever the destination held.
Rename(p, from, to) ==
  /\ file[from] # None
  /\ file' = [file EXCEPT ![from] = None, ![to] = file[from]]
  /\ UNCHANGED <<linked, journal, minted, base, kind, cur, nxt>>

Remove(p, path) ==
  /\ file[path] # None
  /\ file' = [file EXCEPT ![path] = None]
  /\ UNCHANGED <<linked, journal, minted, base, kind, cur, nxt>>

Retire(p) == pc[p] = "retire" /\ Rename(p, "key", journal.shelf) /\ Goto(p, "promote")

Promote(p) == pc[p] = "promote" /\ Rename(p, "next", "key") /\ Goto(p, "wipe")

Wipe(p) == pc[p] = "wipe" /\ Remove(p, journal.shelf) /\ Goto(p, "unjournal")

Discard(p) == pc[p] = "discard" /\ Remove(p, "next") /\ Goto(p, "unjournal")

\* Faulty variant: the journal goes before the old key does.
UnjournalEarly(p) ==
  /\ pc[p] \in {"unjournal", "wipe"} /\ journal # NoJournal
  /\ journal' = NoJournal
  /\ Goto(p, IF pc[p] = "wipe" THEN "wipe" ELSE "idle")
  /\ UNCHANGED <<file, linked, minted, base, kind, cur, nxt>>

\* The last effect of a rotation and of a recovery; a daemon goes on to start.
Unjournal(p) ==
  /\ pc[p] = "unjournal" /\ journal # NoJournal
  /\ journal' = NoJournal
  /\ Goto(p, IF kind[p] = "daemon" THEN "load" ELSE "idle")
  /\ UNCHANGED <<file, linked, minted, base, kind, cur, nxt>>

\* The daemon stops: on request, or because its heartbeat finds the row gone.
Stop(p) ==
  /\ pc[p] = "serve" /\ Release(p) /\ Goto(p, "idle")
  /\ UNCHANGED <<disk, db, sealed, kind, cur, nxt>>

\* The heartbeat of the daemon extends the lease, late too if the row is still its own.
Renew(p) ==
  /\ pc[p] = "serve" /\ holder = p /\ due' = FALSE
  /\ UNCHANGED <<disk, db, holder, sealed, progs>>

\* The owner died, or has not come to its heartbeat in time.
LeaseLapses ==
  /\ holder # None /\ due' = TRUE
  /\ UNCHANGED <<disk, db, holder, sealed, progs>>

\* Faulty variant: a secret is written without a look at the ownership row.
StoreUnowned(p) ==
  /\ pc[p] = "serve" /\ sealed' = sealed \cup {cur[p]}
  /\ UNCHANGED <<disk, db, holder, due, progs>>

\* setChannelState: the daemon stores a login, a cursor or a context token, sealed
\* under the key it was started with, in a transaction of the owner.
StoreSecret(p) ==
  /\ pc[p] = "serve" /\ Holds(p)
  /\ sealed' = sealed \cup {cur[p]}
  /\ UNCHANGED <<disk, db, holder, due, progs>>

\* The effects that throw: an unreadable or missing key, a journal that is already
\* there, a database that is held or does not fit the key, a lease that ran out.
Refused(p) ==
  \/ pc[p] = "load" /\ ((file["key"] = None /\ db # None) \/ ~Readable("key"))
  \/ pc[p] = "provision" /\ ~Readable("next")
  \/ pc[p] = "journal" /\ journal # NoJournal
  \/ pc[p] = "open" /\ ~(Available /\ Fits(cur[p]))
  \/ pc[p] = "reencrypt" /\ ~(Holds(p) /\ sealed \subseteq {cur[p]})

\* A rotation that throws closes its store on the way out.
Throw(p) ==
  /\ Refused(p) /\ Goto(p, "idle")
  /\ IF pc[p] = "reencrypt" THEN Release(p) ELSE UNCHANGED <<holder, due>>
  /\ UNCHANGED <<disk, db, sealed, kind, cur, nxt>>

\* The program is killed, or the disk or the database fails under it.
Die(p) ==
  /\ pc[p] # "idle" /\ Goto(p, "idle")
  /\ UNCHANGED <<disk, base, kind, cur, nxt>>

----------------------------------------------------------------------------
\* Nothing is installed yet ...
FirstInit == file = [q \in Path |-> None] /\ journal = NoJournal /\ db = None
             /\ minted = {} /\ sealed = {}

\* ... or an earlier release was interrupted in a rotation of its own: before or
\* after the re-encryption, and between any two of the effects that follow it.
LegacyInit ==
  \E c, n \in Key :
    /\ c # n /\ minted = {c, n} /\ journal = Journal1(c, n) /\ db \in {c, n}
    /\ \E held \in IF db = c THEN {<<c, n, None>>, <<c, None, None>>}
                    ELSE {<<c, n, None>>, <<None, n, c>>, <<n, None, c>>, <<n, None, None>>} :
         file = [q \in Path |-> CASE q = "key" -> held[1] [] q = "next" -> held[2]
                                   [] q = "previous" -> held[3] [] OTHER -> None]
    /\ sealed \in {{}, {db}}

Init ==
  /\ FirstInit \/ LegacyInit
  /\ linked = {} /\ holder = None /\ due = FALSE
  /\ pc = [p \in Proc |-> "idle"] /\ kind = [p \in Proc |-> "daemon"]
  /\ cur = [p \in Proc |-> None] /\ nxt = [p \in Proc |-> None]

Effect(p) ==
  \/ LoadKey(p) \/ CreateKey(p) \/ SettleKey(p)
  \/ LoadNext(p) \/ CreateNext(p) \/ SettleNext(p)
  \/ WriteJournal(p) \/ Open(p) \/ Reencrypt(p) \/ CloseStore(p)
  \/ Retire(p) \/ Promote(p) \/ Wipe(p) \/ Discard(p) \/ Unjournal(p)
  \/ Throw(p)

Serving(p) == Renew(p) \/ StoreSecret(p) \/ Stop(p)

\* Everything but death.
Work == LeaseLapses \/ \E p \in Proc : Begin(p) \/ Effect(p) \/ Serving(p)

Next == Work \/ \E p \in Proc : Die(p)

Spec == Init /\ [][Next]_vars
----------------------------------------------------------------------------
(* Correctness. *)

\* Types of the files, the database and the programs.
TypeOK ==
  /\ file \in [Path -> Key \cup {None}] /\ linked \subseteq Key
  /\ journal \in [from : Key \cup {None}, to : Key \cup {None}, shelf : Shelf \cup {None}]
  /\ db \in Key \cup {None} /\ holder \in Proc \cup {None} /\ minted \subseteq Key
  /\ due \in BOOLEAN /\ sealed \subseteq Key \cup {None}
  /\ pc \in [Proc -> Label] /\ kind \in [Proc -> {"daemon", "rotate"}]
  /\ cur \in [Proc -> Key \cup {None}] /\ nxt \in [Proc -> Key \cup {None}]

\* The key that is canonical once an interrupted rotation has been recovered.
Canonical ==
  IF journal # NoJournal /\ Resume \in {"retire", "promote"} THEN file["next"]
                                                           ELSE file["key"]

\* Whatever a program was doing when it died, a start finds the key that opens
\* the database: at every moment recovery accepts the disk and leaves that key, and
\* no temporary link makes a file it needs unreadable.
DatabaseReadable ==
  db # None => /\ journal # NoJournal => Recoverable
               /\ Canonical = db /\ db \notin linked

\* No rename or removal of a rotation or a recovery meets a missing file, replaces a
\* key, or takes the key of the database, and the journal goes last: the next effect
\* of a program is always possible.
EffectsFindTheirFiles ==
  \A p \in Proc :
    /\ pc[p] = "reencrypt" => holder = p /\ file["next"] = nxt[p]
    /\ pc[p] = "retire" =>
         file["key"] \notin {None, db} /\ file[journal.shelf] = None /\ file["next"] = db
    /\ pc[p] = "promote" => file["next"] = db /\ db # None /\ file["key"] = None
    /\ pc[p] = "wipe" => file[journal.shelf] \notin {None, db} /\ file["key"] = db
    /\ pc[p] = "discard" => file["next"] \notin {None, db} /\ file["key"] = db
    /\ pc[p] = "unjournal" =>
         /\ journal # NoJournal /\ file["key"] = db
         /\ file["next"] = None /\ \A s \in Shelf : file[s] = None

\* A retired key is on disk only under a journal that will have it removed.
NoStrayKeys == journal = NoJournal => \A s \in Shelf : file[s] = None

\* Every secret can be read with the key of the database, even while a daemon that
\* lost the database to a rotation serves on with the key from before.
SecretsReadable == sealed \subseteq {db}

\* The key that a start finds for the database: none if recovery is refused.
Found == IF db # None /\ journal # NoJournal /\ ~Recoverable THEN None ELSE Canonical

\* A prepared key is spare until the database is encrypted under it.
Spare == IF file["next"] = db THEN None ELSE file["next"]

Custody == INSTANCE KeyCustody WITH
  secret <- db, found <- Found, spare <- Spare, drawn <- minted

\* A rotation is atomic, whatever interrupts it: the key of the database and the key
\* that a start finds are the same at every moment, and change together.
ImplementsKeyCustody == Custody!Spec

\* An encrypted database changes keys only as journaled, and only to a key that
\* is safely on disk.
OnlyAsJournaled ==
  [][db # None /\ db' # db =>
       /\ journal.from = db /\ journal.to = db'
       /\ file["next"] = db' /\ db' \notin linked]_vars
================================================================================
