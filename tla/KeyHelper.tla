------------------------------- MODULE KeyHelper -------------------------------
(***************************************************************************)
(* The credential master key on Windows: the helper that creates, rotates  *)
(* and recovers it (scripts/release/credential-key.ps1) and the daemon it  *)
(* launches, which reads the journal and the keys by rules of its own      *)
(* (src/daemon/master-key.ts with platform win32).  A rotation moves old   *)
(* key material to a marker, and wipes and deletes the marker at last; a   *)
(* cleanup that fails is deferred and the helper goes on without it.       *)
(*                                                                         *)
(* The helper's durable effects are single steps, and it may die, or       *)
(* throw, between any two; file moves are atomic and written through.      *)
(* Helpers run one at a time, beside a daemon that may still serve.  The   *)
(* disk may start with a rotation that an earlier release, whose journal   *)
(* is of version 1, left unfinished.                                       *)
(***************************************************************************)
EXTENDS Naturals

CONSTANTS
  Key,   \* random keys, told apart by their id
  Scrap, \* what an overwrite, torn or whole, leaves of a key
  None   \* no file, no database, no daemon

ASSUME HelperConstants == None \notin Key /\ Scrap \notin Key /\ None # Scrap

canonicalKeyPath == <<"key", None>>
nextKeyPath == <<"next", None>>
previousKeyPath == <<"previous", None>> \* where version 1 kept the old key
RetireMarker(k) == <<"retire", k>>
AbortMarker(k) == <<"abort", k>>

Path == ({"key", "next", "previous"} \X {None}) \cup ({"retire", "abort"} \X Key)

VARIABLES
  file,    \* what each path holds
  journal, \* the rotation journal
  db,      \* credential_key_id; None before the first encrypted schema
  serving, \* the key the running daemon works with
  minted,  \* keys ever drawn; random keys never repeat
  pc, kind \* the helper's next durable effect, and what it was called for

vars == <<file, journal, db, serving, minted, pc, kind>>

NoJournal == [version |-> 0, from |-> None, to |-> None, state |-> "none"]

Journal2(c, n, s) == [version |-> 2, from |-> c, to |-> n, state |-> s]

Label == {"idle", "classify", "shelve", "markRollback", "demote", "retire", "promote",
          "markWiping", "clean", "drop", "complete", "key", "next", "journal",
          "reencrypt", "launch"}

\* start-daemon.cmd and start.ps1, -Rotate, -RecoverRotation, -ProvisionNext.
Kind == {"start", "rotate", "recover", "provision"}

----------------------------------------------------------------------------
(* What recovery makes of the disk. *)

At(c, n) == file[canonicalKeyPath] = c /\ file[nextKeyPath] = n

\* Recover-VersionTwoRotation resumes at label l.
ResumeV2(l) ==
  LET c == journal.from
      n == journal.to
      retired == file[RetireMarker(c)]
      aborted == file[AbortMarker(n)]
  IN  /\ file[previousKeyPath] = None
      /\ \/ journal.state = "rollback" /\ db = c /\ At(c, None) /\ l = "clean"
         \/ journal.state = "wiping" /\ db = n /\ At(n, None) /\ l = "clean"
         \/ /\ journal.state = "prepared" /\ db = c /\ retired = None
            /\ \/ At(c, n) /\ aborted = None /\ l = "shelve"
               \/ At(c, None) /\ aborted = n /\ l = "markRollback"
               \/ At(c, None) /\ aborted = None /\ l = "complete"
         \/ /\ journal.state = "prepared" /\ db = n /\ aborted = None
            /\ \/ At(c, n) /\ retired = None /\ l = "retire"
               \/ At(None, n) /\ retired = c /\ l = "promote"
               \/ At(n, None) /\ retired = c /\ l = "markWiping"

\* Faulty variant: an interruption between the moves to the marker and to the
\* canonical path is not recognised.
ResumeOutsideGap(l) ==
  LET c == journal.from
      n == journal.to
      previous == file[previousKeyPath]
      retired == file[RetireMarker(c)]
      aborted == file[AbortMarker(n)]
  IN  \/ /\ db = c /\ file[canonicalKeyPath] = c /\ previous = None /\ retired = None
         /\ \/ file[nextKeyPath] # None /\ aborted = None /\ l = "shelve"
            \/ file[nextKeyPath] = None /\ aborted # None /\ l = "markRollback"
            \/ file[nextKeyPath] = None /\ aborted = None /\ l = "complete"
      \/ /\ db = n /\ previous = None
         /\ \/ At(c, n) /\ retired = None /\ l = "retire"
            \/ At(n, None) /\ retired # None /\ l = "markWiping"
            \/ At(n, None) /\ retired = None /\ l = "complete"
      \/ /\ db = n /\ retired = None /\ l = "demote"
         /\ \/ At(None, n) /\ previous = c
            \/ At(n, None) /\ previous # None

\* Recover-LegacyRotation: version 1 wiped keys in place, so that a key of which
\* nothing is expected any more may be found overwritten.
ResumeV1(l) ==
  LET c == journal.from
      n == journal.to
      previous == file[previousKeyPath]
      retired == file[RetireMarker(c)]
      aborted == file[AbortMarker(n)]
  IN  \/ /\ db = c /\ file[canonicalKeyPath] = c /\ previous = None /\ retired = None
         /\ \/ file[nextKeyPath] # None /\ aborted = None /\ l = "shelve"
            \/ file[nextKeyPath] = None /\ aborted # None /\ l = "markRollback"
            \/ file[nextKeyPath] = None /\ aborted = None /\ l = "complete"
      \/ /\ db = n /\ previous = None
         /\ \/ At(c, n) /\ retired = None /\ l = "retire"
            \/ At(None, n) /\ retired = c /\ l = "promote"
            \/ At(n, None) /\ retired # None /\ l = "markWiping"
            \/ At(n, None) /\ retired = None /\ l = "complete"
      \/ /\ db = n /\ retired = None /\ l = "demote"
         /\ \/ At(None, n) /\ previous = c
            \/ At(n, None) /\ previous # None

\* Faulty variant: recovery does not allow for key material that was partly wiped,
\* and refuses a disk that holds some, at every start again.
ResumeIntact(l) ==
  /\ \A q \in Path : file[q] # Scrap
  /\ IF journal.version = 1 THEN ResumeV1(l) ELSE ResumeV2(l)

\* Recover-Rotation, once the database has been classified.
Resume(l) == IF journal.version = 1 THEN ResumeV1(l) ELSE ResumeV2(l)

Recoverable == \E l \in Label : Resume(l)

\* The marker of a version 2 journal.
Marker == IF journal.state = "rollback" THEN AbortMarker(journal.to)
                                        ELSE RetireMarker(journal.from)

\* Faulty variant: the daemon insists on the id of the marker that is being wiped.
AcceptsIntactMarker ==
  \/ journal = NoJournal
  \/ /\ journal.version = 2 /\ file[previousKeyPath] = None /\ file[Marker] # Scrap
     /\ \/ journal.state = "rollback" /\ db = journal.from /\ At(journal.from, None)
        \/ journal.state = "wiping" /\ db = journal.to /\ At(journal.to, None)

\* recoverInterruptedRotation on Windows: whatever would have to rename or remove
\* a file throws, so the daemon only accepts a rotation that is being cleaned up.
DaemonAccepts ==
  \/ journal = NoJournal
  \/ /\ journal.version = 2 /\ file[previousKeyPath] = None
     /\ \/ journal.state = "rollback" /\ db = journal.from /\ At(journal.from, None)
        \/ journal.state = "wiping" /\ db = journal.to /\ At(journal.to, None)

----------------------------------------------------------------------------
(* Recovery. *)

\* A recovery that runs because a journal was found is followed by the check of the
\* canonical key; the one that ends a rotation is the helper's last act.
AfterRecovery == IF kind = "rotate" THEN "idle" ELSE "key"

Goto(l) == pc' = l /\ UNCHANGED kind

\* The helper is called.  A -Rotate that finds a journal only recovers; without one
\* -RecoverRotation throws.  -ProvisionNext, called as documented, without a
\* node, cannot classify a journal and throws.
Begin(k) ==
  /\ pc = "idle"
  /\ IF journal # NoJournal
     THEN /\ k # "provision" /\ pc' = "classify"
          /\ kind' = IF k = "rotate" THEN "recover" ELSE k
     ELSE /\ k # "recover" /\ kind' = k
          /\ pc' = IF k = "provision" THEN "next" ELSE "key"
  /\ UNCHANGED <<file, journal, db, serving, minted>>

Classify ==
  /\ pc = "classify"
  /\ \E l \in Label : Resume(l) /\ Goto(l)
  /\ UNCHANGED <<file, journal, db, serving, minted>>

\* Move-DurableFile.
Move(from, to) ==
  /\ file[from] # None /\ file[to] = None
  /\ file' = [file EXCEPT ![from] = None, ![to] = file[from]]
  /\ UNCHANGED <<journal, db, serving, minted>>

\* The prepared key of a rotation that is rolled back is set aside ...
Shelve ==
  /\ pc = "shelve" /\ Move(nextKeyPath, AbortMarker(journal.to)) /\ Goto("markRollback")

\* ... and so is the old key of one that is carried through.
Retire ==
  /\ pc = "retire" /\ Move(canonicalKeyPath, RetireMarker(journal.from))
  /\ Goto("promote")

Demote ==
  /\ pc = "demote" /\ Move(previousKeyPath, RetireMarker(journal.from))
  /\ Goto(IF file[canonicalKeyPath] = None THEN "promote" ELSE "markWiping")

Promote == pc = "promote" /\ Move(nextKeyPath, canonicalKeyPath) /\ Goto("markWiping")

\* Write-RotationJournal -Replace.
Mark(l, state) ==
  /\ pc = l /\ journal' = Journal2(journal.from, journal.to, state)
  /\ Goto("clean")
  /\ UNCHANGED <<file, db, serving, minted>>

MarkRollback == Mark("markRollback", "rollback")
MarkWiping == Mark("markWiping", "wiping")

\* Complete-RetirementCleanup: the marker is overwritten and deleted, and the
\* directory flushed ...
Wipe ==
  /\ pc = "clean" /\ file[Marker] # None
  /\ file' = [file EXCEPT ![Marker] = Scrap]
  /\ Goto("drop")
  /\ UNCHANGED <<journal, db, serving, minted>>

Drop ==
  /\ pc = "drop"
  /\ file' = [file EXCEPT ![Marker] = None]
  /\ Goto("complete")
  /\ UNCHANGED <<journal, db, serving, minted>>

Flush ==
  /\ pc = "clean" /\ file[Marker] = None /\ Goto("complete")
  /\ UNCHANGED <<file, journal, db, serving, minted>>

\* Faulty variant: a cleanup that failed still completes the journal.
DeferCompletes ==
  /\ pc \in {"clean", "drop"} /\ Goto(AfterRecovery)
  /\ journal' = NoJournal
  /\ UNCHANGED <<file, db, serving, minted>>

\* ... or the wipe, the deletion or the flush fails, halfway perhaps, and the
\* journal is left for a later helper.
Defer ==
  /\ pc \in {"clean", "drop"} /\ Goto(AfterRecovery)
  /\ \/ UNCHANGED file
     \/ pc = "clean" /\ file[Marker] # None /\ file' = [file EXCEPT ![Marker] = Scrap]
     \/ pc = "drop" /\ file' = [file EXCEPT ![Marker] = None]
  /\ UNCHANGED <<journal, db, serving, minted>>

\* Complete-RotationJournal.
Complete ==
  /\ pc = "complete" /\ journal' = NoJournal /\ Goto(AfterRecovery)
  /\ UNCHANGED <<file, db, serving, minted>>

----------------------------------------------------------------------------
(* Keys and the rotation. *)

\* New-ProtectedKey: a finished file is moved to its path.
Create(path) ==
  /\ file[path] = None
  /\ \E k \in Key \ minted :
       /\ file' = [file EXCEPT ![path] = k]
       /\ minted' = minted \cup {k}
  /\ UNCHANGED <<journal, db, serving>>

Found(path) == file[path] # None /\ UNCHANGED <<file, journal, db, serving, minted>>

\* A missing canonical key is created unless an encrypted database needs it.
EnsureKey ==
  /\ pc = "key"
  /\ Found(canonicalKeyPath) \/ (db = None /\ Create(canonicalKeyPath))
  /\ Goto(CASE kind = "start" -> "launch"
            [] kind = "rotate" -> "next"
            [] OTHER -> "idle")

EnsureNext ==
  /\ pc = "next"
  /\ Found(nextKeyPath) \/ Create(nextKeyPath)
  /\ Goto(IF kind = "rotate" THEN "journal" ELSE "idle")

WriteJournal ==
  /\ pc = "journal" /\ journal = NoJournal
  /\ journal' = Journal2(file[canonicalKeyPath], file[nextKeyPath], "prepared")
  /\ Goto("reencrypt")
  /\ UNCHANGED <<file, db, serving, minted>>

\* reencryptCredentialMasterKey, in a process of its own: the keys and the database
\* must fit the journal.  A daemon that serves keeps it out by its lease, but not if
\* it has stalled past the end of it.
CanReencrypt == At(journal.from, journal.to) /\ db = journal.from

Reencrypt ==
  /\ pc = "reencrypt" /\ CanReencrypt
  /\ db' = journal.to /\ Goto("classify")
  /\ UNCHANGED <<file, journal, serving, minted>>

----------------------------------------------------------------------------
(* The daemon. *)

\* The daemon can start: no other one has the port, the journal is acceptable and
\* the key is there and fits the database.
DaemonStarts ==
  /\ serving = None /\ DaemonAccepts
  /\ file[canonicalKeyPath] # None /\ db \in {None, file[canonicalKeyPath]}

\* A database that is new or still plain is encrypted under the key.
Launch ==
  /\ pc = "launch" /\ DaemonStarts
  /\ serving' = file[canonicalKeyPath] /\ db' = file[canonicalKeyPath]
  /\ Goto("idle") /\ UNCHANGED <<file, journal, minted>>

\* The daemon stops or dies, and its port is free.
DaemonEnds ==
  /\ serving # None /\ serving' = None
  /\ UNCHANGED <<file, journal, db, minted, pc, kind>>

----------------------------------------------------------------------------
\* What makes the helper throw, or end with the daemon's failure.
Throw ==
  /\ \/ pc = "classify" /\ ~Recoverable
     \/ pc = "key" /\ file[canonicalKeyPath] = None /\ db # None
     \/ pc = "reencrypt" /\ (~CanReencrypt \/ serving # None)
     \/ pc = "launch" /\ ~DaemonStarts
  /\ Goto("idle") /\ UNCHANGED <<file, journal, db, serving, minted>>

\* The helper is killed, or the disk or the database fails under it.
Die ==
  /\ pc # "idle" /\ Goto("idle") /\ UNCHANGED <<file, journal, db, serving, minted>>

\* The files, by path, of a rotation from c to n: canonical, prepared, previous.
Holding(c, n, p) ==
  [q \in Path |-> CASE q = canonicalKeyPath -> c
                    [] q = nextKeyPath -> n
                    [] q = previousKeyPath -> p
                    [] OTHER -> None]

\* A rotation that version 1 left, which swapped through the previous key and wiped
\* the key it no longer needed in place.
LegacyInit ==
  \E c, n \in Key :
    /\ c # n /\ minted = {c, n} /\ db \in {c, n}
    /\ journal = [version |-> 1, from |-> c, to |-> n, state |-> "none"]
    /\ file \in IF db = c
                THEN {Holding(c, x, None) : x \in {n, Scrap, None}}
                ELSE {Holding(c, n, None), Holding(None, n, c)}
                       \cup {Holding(n, None, x) : x \in {c, Scrap, None}}

Init ==
  /\ serving = None /\ pc = "idle" /\ kind = "start"
  /\ \/ /\ file = Holding(None, None, None) /\ journal = NoJournal
        /\ db = None /\ minted = {}
     \/ LegacyInit

Effect ==
  \/ Classify \/ Shelve \/ Retire \/ Demote \/ Promote \/ MarkRollback \/ MarkWiping
  \/ Wipe \/ Drop \/ Flush \/ Complete
  \/ EnsureKey \/ EnsureNext \/ WriteJournal \/ Reencrypt \/ Launch \/ Throw

Next == (\E k \in Kind : Begin(k)) \/ Effect \/ Defer \/ DaemonEnds \/ Die

Spec == Init /\ [][Next]_vars
----------------------------------------------------------------------------
(* Correctness. *)

\* Types of the disk, the journal and the programs.
TypeOK ==
  /\ file \in [Path -> Key \cup {Scrap, None}]
  /\ journal \in [version : 0..2, from : Key \cup {None}, to : Key \cup {None},
                  state : {"none", "prepared", "wiping", "rollback"}]
  /\ db \in Key \cup {None} /\ serving \in Key \cup {None} /\ minted \subseteq Key
  /\ pc \in Label /\ kind \in Kind

\* Wherever the helper was interrupted and whatever cleanup failed, a later one
\* recovers: at every moment an encrypted database fits the journal and the files,
\* and its key is the canonical one or the one recovery will make canonical.
HelperRecovers ==
  db # None =>
    /\ journal # NoJournal => Recoverable
    /\ \/ file[canonicalKeyPath] = db
       \/ file[nextKeyPath] = db /\ \E l \in {"retire", "demote", "promote"} : Resume(l)

\* The key that is canonical once the interrupted rotation has been recovered.
Canonical ==
  IF \/ Resume("retire") \/ Resume("promote")
     \/ Resume("demote") /\ file[canonicalKeyPath] = None
  THEN file[nextKeyPath] ELSE file[canonicalKeyPath]

\* The key that a helper finds for the database: none if it cannot recover.
FoundKey ==
  IF journal = NoJournal \/ db = None THEN file[canonicalKeyPath]
  ELSE IF Recoverable THEN Canonical ELSE None

\* A prepared key is spare until the database is encrypted under it.
Spare == IF file[nextKeyPath] \in {db, Scrap} THEN None ELSE file[nextKeyPath]

Custody == INSTANCE KeyCustody WITH
  secret <- db, found <- FoundKey, spare <- Spare, drawn <- minted

\* A rotation is atomic, whatever interrupts the helper and whatever cleanup fails:
\* the key of the database and the key that a recovery leaves are the same at every
\* moment, and change together.
ImplementsKeyCustody == Custody!Spec

\* No move of the helper meets a missing file or an occupied path, none of its steps
\* takes or wipes the key of the database, and the journal goes when there is no other
\* key left: a helper that is not interrupted carries its recovery through.
EffectsFindTheirFiles ==
  LET c == journal.from
      n == journal.to
  IN  /\ pc = "classify" /\ db # None => Recoverable
      /\ pc = "shelve" =>
           file[nextKeyPath] \notin {None, db} /\ file[AbortMarker(n)] = None
      /\ pc = "retire" =>
           file[canonicalKeyPath] \notin {None, db} /\ file[RetireMarker(c)] = None
      /\ pc = "demote" =>
           file[previousKeyPath] \notin {None, db} /\ file[RetireMarker(c)] = None
      /\ pc = "promote" => file[nextKeyPath] = db /\ file[canonicalKeyPath] = None
      /\ pc \in {"clean", "drop"} => file[Marker] # db /\ file[canonicalKeyPath] = db
      /\ pc = "complete" =>
           /\ file[canonicalKeyPath] = db /\ db # None
           /\ \A q \in Path \ {canonicalKeyPath} : file[q] = None

\* A recovery has one way to go on at most: the cases of the two recoveries exclude
\* each other, so that the order in which the code tries them does not matter.
ResumesOneWay == \A l, m \in Label : Resume(l) /\ Resume(m) => l = m

\* Old, shelved and wiped key material is on disk only where the journal in force
\* has it removed; once there is no journal there is none.
MaterialIsJournaled ==
  /\ \A k \in Key :
       /\ file[RetireMarker(k)] # None => journal.from = k
       /\ file[AbortMarker(k)] # None => journal.to = k
  /\ file[previousKeyPath] # None => journal.version = 1
  /\ \A q \in {canonicalKeyPath, nextKeyPath} :
       file[q] = Scrap => q = nextKeyPath /\ journal.version = 1

\* The helper never launches a daemon that the keys stop, even if its cleanup was
\* deferred.  security.md: "A torn wipe affects only that marker: the canonical key
\* can start while later recovery retries cleanup."
LaunchIsAccepted == pc = "launch" /\ serving = None => DaemonStarts
================================================================================
