---------------------------- MODULE KeyHelperProofs ----------------------------
(***************************************************************************)
(* Proofs about KeyHelper, for any set of keys.  The inductive invariant   *)
(* says what the disk may look like: without a journal only the canonical  *)
(* and the prepared key, under a journal of an encrypted database a disk   *)
(* that recovery accepts, and at each step of the helper the disk from     *)
(* which recovery would resume at exactly that step.                       *)
(***************************************************************************)
EXTENDS KeyHelper, TLAPS

\* A journal leads from one key to another one.
ProperJournal ==
  \/ journal = NoJournal
  \/ /\ journal.from \in Key /\ journal.to \in Key /\ journal.from # journal.to
     /\ \/ journal.version = 1
        \/ journal.version = 2 /\ journal.state \in {"prepared", "wiping", "rollback"}

\* Keys on disk were drawn, and each is at one path only.
KeysApart ==
  /\ \A q \in Path : file[q] \in minted \cup {Scrap, None}
  /\ \A q, r \in Path : file[q] \in Key /\ file[q] = file[r] => q = r

\* Without a journal the canonical key opens the database.
Settled == journal = NoJournal /\ db # None => file[canonicalKeyPath] = db

\* Under a journal recovery accepts the disk.  A database without a key id, which no
\* recovery accepts, is as the rotation found it.
Underway ==
  journal # NoJournal =>
    /\ db = journal.to => file[AbortMarker(journal.to)] = None
    /\ db = journal.from => file[RetireMarker(journal.from)] = None
    /\ IF db = None THEN journal.version = 2 /\ journal.state = "prepared"
       ELSE Recoverable

\* The step the helper is at is the one recovery would resume at.
Stage ==
  /\ pc \in {"shelve", "markRollback", "demote", "retire", "promote", "markWiping", "clean"}
       => db # None /\ Resume(pc)
  /\ pc = "classify" => journal # NoJournal
  /\ pc = "drop" => db # None /\ Resume("clean")
  /\ pc = "complete" =>
       /\ db # None
       /\ Resume("complete") \/ (Resume("clean") /\ file[Marker] = None)
  /\ pc \in {"key", "launch"} =>
       journal = NoJournal \/ (db # None /\ Resume("clean") /\ kind # "rotate")
  /\ pc = "launch" => file[canonicalKeyPath] # None
  /\ pc = "next" =>
       journal = NoJournal /\ (kind = "rotate" => file[canonicalKeyPath] # None)
  /\ pc = "journal" =>
       journal = NoJournal /\ file[canonicalKeyPath] # None /\ file[nextKeyPath] # None
  /\ pc = "reencrypt" =>
       /\ journal # NoJournal /\ journal.version = 2 /\ journal.state = "prepared"
       /\ file[RetireMarker(journal.from)] = None /\ file[AbortMarker(journal.to)] = None

DiskInv == MaterialIsJournaled /\ KeysApart /\ Settled /\ Underway

IInv == TypeOK /\ ProperJournal /\ DiskInv /\ Stage

----------------------------------------------------------------------------
(* The paths differ, and what a move makes of them. *)

LEMMA PathFacts ==
  /\ canonicalKeyPath \in Path /\ nextKeyPath \in Path /\ previousKeyPath \in Path
  /\ canonicalKeyPath # nextKeyPath /\ canonicalKeyPath # previousKeyPath
  /\ nextKeyPath # previousKeyPath
  /\ \A k \in Key :
       /\ RetireMarker(k) \in Path /\ AbortMarker(k) \in Path
       /\ RetireMarker(k) \notin {canonicalKeyPath, nextKeyPath, previousKeyPath}
       /\ AbortMarker(k) \notin {canonicalKeyPath, nextKeyPath, previousKeyPath}
       /\ \A j \in Key : /\ RetireMarker(k) # AbortMarker(j)
                         /\ RetireMarker(k) = RetireMarker(j) => k = j
                         /\ AbortMarker(k) = AbortMarker(j) => k = j
BY DEF Path, canonicalKeyPath, nextKeyPath, previousKeyPath, RetireMarker, AbortMarker

LEMMA MoveFacts ==
  ASSUME TypeOK, NEW a \in Path, NEW b \in Path, a # b, Move(a, b)
  PROVE  /\ file'[a] = None /\ file'[b] = file[a] /\ file[a] # None /\ file[b] = None
         /\ \A q \in Path \ {a, b} : file'[q] = file[q]
         /\ file' \in [Path -> Key \cup {Scrap, None}]
BY DEF TypeOK, Move

\* The initial disk satisfies the invariant.
LEMMA InitEstablishes == Init => IInv
<1> SUFFICES ASSUME Init PROVE IInv
  OBVIOUS
<1> USE HelperConstants, PathFacts
<1>1. CASE /\ file = Holding(None, None, None) /\ journal = NoJournal
           /\ db = None /\ minted = {}
  <2>1. \A q \in Path : file[q] = None
    BY <1>1 DEF Holding
  <2>2. file \in [Path -> Key \cup {Scrap, None}]
    BY <1>1 DEF Holding
  <2> QED BY <1>1, <2>1, <2>2 DEF Init, IInv, TypeOK, ProperJournal, DiskInv,
        MaterialIsJournaled, KeysApart, Settled, Underway, Stage, NoJournal, Label, Kind
<1>2. CASE LegacyInit
  <2>1. PICK c \in Key, n \in Key :
          /\ c # n /\ minted = {c, n} /\ db \in {c, n}
          /\ journal = [version |-> 1, from |-> c, to |-> n, state |-> "none"]
          /\ file \in IF db = c
                      THEN {Holding(c, x, None) : x \in {n, Scrap, None}}
                      ELSE {Holding(c, n, None), Holding(None, n, c)}
                             \cup {Holding(n, None, x) : x \in {c, Scrap, None}}
    BY <1>2 DEF LegacyInit
  <2>2. PICK x \in {c, n, Scrap, None}, y \in {c, n, Scrap, None},
             z \in {c, n, Scrap, None} :
          /\ file = Holding(x, y, z)
          /\ \/ db = c /\ x = c /\ z = None /\ y # c
             \/ db = n /\ \/ x = c /\ y = n /\ z = None
                          \/ x = None /\ y = n /\ z = c
                          \/ x = n /\ y = None /\ z # n
    <3>1. CASE db = c
      BY <2>1, <3>1
    <3>2. CASE db # c
      BY <2>1, <3>2
    <3> QED BY <3>1, <3>2
  <2>3. /\ file[canonicalKeyPath] = x /\ file[nextKeyPath] = y
        /\ file[previousKeyPath] = z
        /\ \A k \in Key : file[RetireMarker(k)] = None /\ file[AbortMarker(k)] = None
        /\ \A q \in Path : q \in {canonicalKeyPath, nextKeyPath, previousKeyPath} \/ file[q] = None
        /\ file \in [Path -> Key \cup {Scrap, None}]
    BY <2>2 DEF Holding
  <2>4. TypeOK /\ ProperJournal
    BY <2>1, <2>3 DEF Init, TypeOK, ProperJournal, Label, Kind
  <2>5. MaterialIsJournaled /\ Settled
    BY <2>1, <2>2, <2>3 DEF MaterialIsJournaled, Settled, NoJournal
  <2>6. Recoverable
    BY <2>1, <2>2, <2>3 DEF Recoverable, Resume, ResumeV1, At, Label
  <2>7. KeysApart
    <3>1. \A q \in Path : file[q] \in minted \cup {Scrap, None}
      BY <2>1, <2>2, <2>3
    <3>2. \A q, r \in Path : file[q] \in Key /\ file[q] = file[r] => q = r
      BY <2>1, <2>2, <2>3, PathFacts
    <3> QED BY <3>1, <3>2 DEF KeysApart
  <2> QED BY <2>1, <2>3, <2>4, <2>5, <2>6, <2>7 DEF Init, IInv, DiskInv, Underway, Stage
<1> QED BY <1>1, <1>2 DEF Init

----------------------------------------------------------------------------
(* Recovery preserves the invariant. *)

LEMMA ClassifyStep ==
  ASSUME IInv, Classify PROVE IInv'
<1>1. PICK l \in Label : Resume(l) /\ pc' = l /\ kind' = kind
  BY DEF Classify, Goto
<1>2. /\ l \in {"shelve", "markRollback", "demote", "retire", "promote", "markWiping",
               "clean", "complete"}
      /\ journal # NoJournal /\ db # None
  BY <1>1, HelperConstants DEF IInv, TypeOK, ProperJournal, Resume, ResumeV1, ResumeV2, At, NoJournal
<1>3. UNCHANGED <<file, journal, db, serving, minted>>
  BY DEF Classify
<1>4. TypeOK' /\ ProperJournal'
  BY <1>1, <1>3 DEF IInv, TypeOK, ProperJournal
<1>5. DiskInv'
  BY <1>3 DEF IInv, DiskInv, MaterialIsJournaled, KeysApart, Settled, Underway,
              Recoverable, Resume, ResumeV1, ResumeV2, At
<1>6. Stage'
  BY <1>1, <1>2, <1>3 DEF Stage, Resume, ResumeV1, ResumeV2, At, Marker
<1> QED BY <1>4, <1>5, <1>6 DEF IInv

\* A move of old or prepared material leads to the disk of the step after it.
LEMMA ShelveStep ==
  ASSUME IInv, Shelve PROVE IInv'
<1> DEFINE c == journal.from
           n == journal.to
<1>1. /\ journal # NoJournal /\ c \in Key /\ n \in Key /\ c # n
      /\ db = c /\ Resume("shelve") /\ At(c, file[nextKeyPath])
      /\ file[RetireMarker(c)] = None /\ file[previousKeyPath] = None
      /\ journal.version = 1 \/ (journal.version = 2 /\ journal.state = "prepared")
      /\ journal.version = 2 => file[nextKeyPath] = n
  BY HelperConstants DEF Shelve, IInv, Stage, TypeOK, ProperJournal, Resume, ResumeV1,
                         ResumeV2, At, NoJournal
<1>2. /\ file'[nextKeyPath] = None /\ file'[AbortMarker(n)] = file[nextKeyPath]
      /\ file[nextKeyPath] # None
      /\ \A q \in Path \ {nextKeyPath, AbortMarker(n)} : file'[q] = file[q]
      /\ file' \in [Path -> Key \cup {Scrap, None}]
  BY <1>1, PathFacts, MoveFacts DEF Shelve, IInv
<1>3. UNCHANGED <<journal, db, serving, minted, kind>> /\ pc' = "markRollback"
  BY DEF Shelve, Move, Goto
<1>4. TypeOK' /\ ProperJournal'
  BY <1>2, <1>3 DEF IInv, TypeOK, ProperJournal, Label
<1>5. MaterialIsJournaled' /\ KeysApart' /\ Settled'
  BY <1>1, <1>2, <1>3, PathFacts, HelperConstants
     DEF IInv, DiskInv, MaterialIsJournaled, KeysApart, Settled
<1>6. Resume("markRollback")'
  BY <1>1, <1>2, <1>3, PathFacts DEF Resume, ResumeV1, ResumeV2, At
<1>7. Underway' /\ Stage'
  BY <1>1, <1>2, <1>3, <1>6, PathFacts, HelperConstants
     DEF IInv, DiskInv, Underway, Stage, Recoverable, Label
<1> QED BY <1>4, <1>5, <1>7 DEF IInv, DiskInv

LEMMA RetireStep ==
  ASSUME IInv, Retire PROVE IInv'
<1> DEFINE c == journal.from
           n == journal.to
<1>1. /\ journal # NoJournal /\ c \in Key /\ n \in Key /\ c # n
      /\ db = n /\ At(c, n) /\ file[previousKeyPath] = None
      /\ file[AbortMarker(n)] = None
      /\ journal.version = 1 \/ (journal.version = 2 /\ journal.state = "prepared")
  BY HelperConstants DEF Retire, IInv, DiskInv, Underway, Stage, TypeOK, ProperJournal,
                         Resume, ResumeV1, ResumeV2, At, NoJournal
<1>2. /\ file'[canonicalKeyPath] = None /\ file'[RetireMarker(c)] = c
      /\ \A q \in Path \ {canonicalKeyPath, RetireMarker(c)} : file'[q] = file[q]
      /\ file' \in [Path -> Key \cup {Scrap, None}]
  BY <1>1, PathFacts, MoveFacts DEF Retire, IInv, At
<1>3. UNCHANGED <<journal, db, serving, minted, kind>> /\ pc' = "promote"
  BY DEF Retire, Move, Goto
<1>4. TypeOK' /\ ProperJournal'
  BY <1>2, <1>3 DEF IInv, TypeOK, ProperJournal, Label
<1>5. MaterialIsJournaled' /\ KeysApart' /\ Settled'
  BY <1>1, <1>2, <1>3, PathFacts, HelperConstants
     DEF IInv, DiskInv, MaterialIsJournaled, KeysApart, Settled, At
<1>6. Resume("promote")'
  BY <1>1, <1>2, <1>3, PathFacts DEF Resume, ResumeV1, ResumeV2, At
<1>7. Underway' /\ Stage'
  BY <1>1, <1>2, <1>3, <1>6, PathFacts, HelperConstants
     DEF IInv, DiskInv, Underway, Stage, Recoverable, Label
<1> QED BY <1>4, <1>5, <1>7 DEF IInv, DiskInv

\* Only version 1 kept the old key at the previous path.
LEMMA DemoteStep ==
  ASSUME IInv, Demote PROVE IInv'
<1> DEFINE c == journal.from
           n == journal.to
<1>1. /\ journal # NoJournal /\ c \in Key /\ n \in Key /\ c # n
      /\ db = n /\ journal.version = 1 /\ file[AbortMarker(n)] = None
      /\ file[RetireMarker(c)] = None
      /\ \/ At(None, n) /\ file[previousKeyPath] = c
         \/ At(n, None)
  BY HelperConstants DEF Demote, IInv, DiskInv, Underway, Stage, TypeOK, ProperJournal,
                         Resume, ResumeV1, ResumeV2, At, NoJournal
<1>2. /\ file'[previousKeyPath] = None
      /\ file'[RetireMarker(c)] = file[previousKeyPath] /\ file[previousKeyPath] # None
      /\ \A q \in Path \ {previousKeyPath, RetireMarker(c)} : file'[q] = file[q]
      /\ file' \in [Path -> Key \cup {Scrap, None}]
  BY <1>1, PathFacts, MoveFacts DEF Demote, IInv
<1>3. /\ UNCHANGED <<journal, db, serving, minted, kind>>
      /\ pc' = IF file[canonicalKeyPath] = None THEN "promote" ELSE "markWiping"
  BY DEF Demote, Move, Goto
<1>4. TypeOK' /\ ProperJournal'
  BY <1>2, <1>3 DEF IInv, TypeOK, ProperJournal, Label
<1>5. MaterialIsJournaled' /\ KeysApart' /\ Settled'
  BY <1>1, <1>2, <1>3, PathFacts, HelperConstants
     DEF IInv, DiskInv, MaterialIsJournaled, KeysApart, Settled, At
<1>6. Resume(pc)'
  BY <1>1, <1>2, <1>3, PathFacts, HelperConstants DEF Resume, ResumeV1, ResumeV2, At
<1>7. Underway' /\ Stage'
  BY <1>1, <1>2, <1>3, <1>6, PathFacts, HelperConstants
     DEF IInv, DiskInv, Underway, Stage, Recoverable, Label
<1> QED BY <1>4, <1>5, <1>7 DEF IInv, DiskInv

LEMMA PromoteStep ==
  ASSUME IInv, Promote PROVE IInv'
<1> DEFINE c == journal.from
           n == journal.to
<1>1. /\ journal # NoJournal /\ c \in Key /\ n \in Key /\ c # n
      /\ db = n /\ At(None, n) /\ file[RetireMarker(c)] = c
      /\ file[AbortMarker(n)] = None /\ file[previousKeyPath] = None
      /\ journal.version = 1 \/ (journal.version = 2 /\ journal.state = "prepared")
  BY HelperConstants DEF Promote, IInv, DiskInv, Underway, Stage, TypeOK, ProperJournal,
                         Resume, ResumeV1, ResumeV2, At, NoJournal
<1>2. /\ file'[nextKeyPath] = None /\ file'[canonicalKeyPath] = n
      /\ \A q \in Path \ {nextKeyPath, canonicalKeyPath} : file'[q] = file[q]
      /\ file' \in [Path -> Key \cup {Scrap, None}]
  BY <1>1, PathFacts, MoveFacts DEF Promote, IInv, At
<1>3. UNCHANGED <<journal, db, serving, minted, kind>> /\ pc' = "markWiping"
  BY DEF Promote, Move, Goto
<1>4. TypeOK' /\ ProperJournal'
  BY <1>2, <1>3 DEF IInv, TypeOK, ProperJournal, Label
<1>5. MaterialIsJournaled' /\ KeysApart' /\ Settled'
  BY <1>1, <1>2, <1>3, PathFacts, HelperConstants
     DEF IInv, DiskInv, MaterialIsJournaled, KeysApart, Settled, At
<1>6. Resume("markWiping")'
  BY <1>1, <1>2, <1>3, PathFacts, HelperConstants DEF Resume, ResumeV1, ResumeV2, At
<1>7. Underway' /\ Stage'
  BY <1>1, <1>2, <1>3, <1>6, PathFacts, HelperConstants
     DEF IInv, DiskInv, Underway, Stage, Recoverable, Label
<1> QED BY <1>4, <1>5, <1>7 DEF IInv, DiskInv

\* Marking the journal: only the marker it names holds old material then.
LEMMA MarkRollbackStep ==
  ASSUME IInv, MarkRollback PROVE IInv'
<1> DEFINE c == journal.from
           n == journal.to
<1>1. /\ journal # NoJournal /\ c \in Key /\ n \in Key /\ c # n
      /\ db = c /\ At(c, None) /\ file[RetireMarker(c)] = None
      /\ file[previousKeyPath] = None
  BY HelperConstants DEF MarkRollback, Mark, IInv, Stage, TypeOK, ProperJournal,
                         Resume, ResumeV1, ResumeV2, At, NoJournal
<1>2. /\ journal' = Journal2(c, n, "rollback") /\ pc' = "clean"
      /\ UNCHANGED <<file, db, serving, minted, kind>>
  BY DEF MarkRollback, Mark, Goto
<1>3. TypeOK' /\ ProperJournal'
  BY <1>1, <1>2 DEF IInv, TypeOK, ProperJournal, Journal2, Label
<1>4. MaterialIsJournaled' /\ KeysApart' /\ Settled'
  BY <1>1, <1>2, HelperConstants
     DEF IInv, DiskInv, MaterialIsJournaled, KeysApart, Settled, Journal2, NoJournal, At
<1>5. Resume("clean")'
  BY <1>1, <1>2 DEF Resume, ResumeV2, At, Journal2
<1>6. Underway' /\ Stage'
  BY <1>1, <1>2, <1>5, HelperConstants
     DEF IInv, DiskInv, Underway, Stage, Recoverable, Label, Journal2
<1> QED BY <1>3, <1>4, <1>6 DEF IInv, DiskInv

LEMMA MarkWipingStep ==
  ASSUME IInv, MarkWiping PROVE IInv'
<1> DEFINE c == journal.from
           n == journal.to
<1>1. /\ journal # NoJournal /\ c \in Key /\ n \in Key /\ c # n
      /\ db = n /\ At(n, None) /\ file[AbortMarker(n)] = None
      /\ file[previousKeyPath] = None
  BY HelperConstants DEF MarkWiping, Mark, IInv, DiskInv, Underway, Stage, TypeOK,
                         ProperJournal, Resume, ResumeV1, ResumeV2, At, NoJournal
<1>2. /\ journal' = Journal2(c, n, "wiping") /\ pc' = "clean"
      /\ UNCHANGED <<file, db, serving, minted, kind>>
  BY DEF MarkWiping, Mark, Goto
<1>3. TypeOK' /\ ProperJournal'
  BY <1>1, <1>2 DEF IInv, TypeOK, ProperJournal, Journal2, Label
<1>4. MaterialIsJournaled' /\ KeysApart' /\ Settled'
  BY <1>1, <1>2, HelperConstants
     DEF IInv, DiskInv, MaterialIsJournaled, KeysApart, Settled, Journal2, NoJournal, At
<1>5. Resume("clean")'
  BY <1>1, <1>2 DEF Resume, ResumeV2, At, Journal2
<1>6. Underway' /\ Stage'
  BY <1>1, <1>2, <1>5, HelperConstants
     DEF IInv, DiskInv, Underway, Stage, Recoverable, Label, Journal2
<1> QED BY <1>3, <1>4, <1>6 DEF IInv, DiskInv

----------------------------------------------------------------------------
(* The cleanup. *)

\* The disk of a rotation that is being cleaned up, with its marker in any state.
LEMMA CleaningDisk ==
  ASSUME IInv, Resume("clean")
  PROVE  /\ journal.version = 2 /\ journal # NoJournal /\ db # None
         /\ journal.from \in Key /\ journal.to \in Key /\ journal.from # journal.to
         /\ At(db, None) /\ file[previousKeyPath] = None /\ Marker \in Path
         /\ Marker \notin {canonicalKeyPath, nextKeyPath, previousKeyPath}
         /\ journal.state = "rollback" =>
              /\ db = journal.from /\ Marker = AbortMarker(journal.to)
              /\ file[RetireMarker(journal.from)] = None
         /\ journal.state # "rollback" =>
              /\ journal.state = "wiping" /\ db = journal.to
              /\ Marker = RetireMarker(journal.from)
              /\ file[AbortMarker(journal.to)] = None
BY PathFacts, HelperConstants
   DEF IInv, DiskInv, Underway, TypeOK, ProperJournal, Resume, ResumeV1, ResumeV2, At,
       NoJournal, Marker

\* Whatever becomes of the marker, the disk stays one that recovery cleans up.
LEMMA MarkerChanges ==
  ASSUME IInv, Resume("clean"), UNCHANGED <<journal, db, serving, minted>>,
         NEW x \in {Scrap, None}, file' = [file EXCEPT ![Marker] = x] \/ file' = file
  PROVE  DiskInv' /\ Resume("clean")' /\ Marker' = Marker /\ Marker \in Path
         /\ file' \in [Path -> Key \cup {Scrap, None}] /\ ProperJournal'
<1>1. /\ file' \in [Path -> Key \cup {Scrap, None}]
      /\ \A q \in Path \ {Marker} : file'[q] = file[q]
      /\ file'[Marker] \in {file[Marker], Scrap, None}
      /\ Marker' = Marker
  BY CleaningDisk DEF IInv, TypeOK, Marker
<1>2. Resume("clean")'
  BY <1>1, CleaningDisk, PathFacts DEF Resume, ResumeV2, At
<1>3. MaterialIsJournaled'
  BY <1>1, CleaningDisk, PathFacts, HelperConstants
     DEF IInv, DiskInv, MaterialIsJournaled, At, TypeOK
<1>4. KeysApart' /\ Settled'
  BY <1>1, CleaningDisk, PathFacts, HelperConstants
     DEF IInv, DiskInv, KeysApart, Settled, At
<1>5. Underway'
  BY <1>1, <1>2, CleaningDisk, PathFacts DEF IInv, DiskInv, Underway, Recoverable, Label
<1> QED BY <1>1, <1>2, <1>3, <1>4, <1>5, CleaningDisk DEF DiskInv, IInv, ProperJournal

LEMMA CleanSteps ==
  ASSUME IInv, Wipe \/ Drop \/ Flush \/ Defer PROVE IInv'
<1>1. /\ Resume("clean") /\ db # None
      /\ UNCHANGED <<journal, db, serving, minted, kind>>
  BY DEF IInv, Stage, Wipe, Drop, Flush, Defer, Goto
<1>2. \E x \in {Scrap, None} : file' = [file EXCEPT ![Marker] = x] \/ file' = file
  BY DEF Wipe, Drop, Flush, Defer
<1>3. /\ DiskInv' /\ Resume("clean")' /\ Marker' = Marker /\ Marker \in Path
      /\ file' \in [Path -> Key \cup {Scrap, None}] /\ ProperJournal'
  BY <1>1, <1>2, MarkerChanges
<1>4. /\ pc' \in {"drop", "complete", "idle", "key"}
      /\ pc' = "complete" => file'[Marker] = None
      /\ pc' = "key" => kind # "rotate"
  BY <1>3 DEF Wipe, Drop, Flush, Defer, Goto, AfterRecovery, IInv, TypeOK
<1>5. TypeOK'
  BY <1>1, <1>3, <1>4 DEF IInv, TypeOK, Label
<1>6. Stage'
  BY <1>1, <1>3, <1>4 DEF Stage
<1> QED BY <1>3, <1>5, <1>6 DEF IInv

\* The journal goes when there is nothing left that it names.
LEMMA CompletedDisk ==
  ASSUME IInv, pc = "complete"
  PROVE  /\ journal # NoJournal /\ db # None /\ At(db, None) /\ file[previousKeyPath] = None
         /\ file[RetireMarker(journal.from)] = None /\ file[AbortMarker(journal.to)] = None
<1>1. CASE Resume("complete")
  BY <1>1, HelperConstants DEF IInv, DiskInv, Underway, Stage, TypeOK,
     ProperJournal, Resume, ResumeV1, ResumeV2, At, NoJournal
<1>2. CASE Resume("clean") /\ file[Marker] = None
  BY <1>2, CleaningDisk
<1> QED BY <1>1, <1>2 DEF IInv, Stage

LEMMA CompleteStep ==
  ASSUME IInv, Complete PROVE IInv'
<1>1. /\ journal' = NoJournal /\ UNCHANGED <<file, db, serving, minted, kind>>
      /\ pc' = AfterRecovery
  BY DEF Complete, Goto
<1>2. /\ journal # NoJournal /\ db # None /\ At(db, None) /\ file[previousKeyPath] = None
      /\ file[RetireMarker(journal.from)] = None /\ file[AbortMarker(journal.to)] = None
  BY CompletedDisk DEF Complete
<1>3. TypeOK' /\ ProperJournal'
  BY <1>1 DEF IInv, TypeOK, ProperJournal, NoJournal, Label, AfterRecovery
<1>4. MaterialIsJournaled'
  BY <1>1, <1>2, PathFacts, HelperConstants
     DEF IInv, TypeOK, DiskInv, MaterialIsJournaled, NoJournal, At
<1>5. KeysApart' /\ Settled' /\ Underway'
  BY <1>1, <1>2 DEF IInv, DiskInv, KeysApart, Settled, Underway, At
<1>6. Stage'
  BY <1>1 DEF Stage, AfterRecovery, NoJournal
<1> QED BY <1>3, <1>4, <1>5, <1>6 DEF IInv, DiskInv

----------------------------------------------------------------------------
(* Keys, the rotation and the daemon. *)

\* A key that is created is none of those on disk, nor the database's.
LEMMA CreateStep ==
  ASSUME IInv, journal = NoJournal,
         NEW q \in {canonicalKeyPath, nextKeyPath}, Create(q),
         q = canonicalKeyPath => db = None
  PROVE  DiskInv' /\ ProperJournal' /\ file'[q] # None /\ minted' \subseteq Key
         /\ file' \in [Path -> Key \cup {Scrap, None}]
         /\ \A r \in Path \ {q} : file'[r] = file[r]
<1>1. PICK k \in Key \ minted : /\ file' = [file EXCEPT ![q] = k]
                                /\ minted' = minted \cup {k}
  BY DEF Create
<1>2. file[q] = None /\ UNCHANGED <<journal, db, serving>> /\ q \in Path
  BY PathFacts DEF Create
<1>3. /\ file' \in [Path -> Key \cup {Scrap, None}] /\ file'[q] = k
      /\ \A r \in Path \ {q} : file'[r] = file[r]
  BY <1>1, <1>2 DEF IInv, TypeOK
<1>4. MaterialIsJournaled'
  BY <1>2, <1>3, PathFacts, HelperConstants DEF IInv, DiskInv, MaterialIsJournaled
<1>5. KeysApart' /\ Settled' /\ Underway'
  BY <1>1, <1>2, <1>3, PathFacts, HelperConstants
     DEF IInv, TypeOK, DiskInv, KeysApart, Settled, Underway
<1> QED BY <1>1, <1>2, <1>3, <1>4, <1>5, HelperConstants
           DEF IInv, TypeOK, DiskInv, ProperJournal

LEMMA EnsureKeyStep ==
  ASSUME IInv, EnsureKey PROVE IInv'
<1>1. /\ pc = "key" /\ kind' = kind /\ kind \in Kind
      /\ pc' = CASE kind = "start" -> "launch"
                 [] kind = "rotate" -> "next"
                 [] OTHER -> "idle"
  BY DEF EnsureKey, Goto, IInv, TypeOK
<1>2. /\ pc' \in {"launch", "next", "idle"}
      /\ pc' = "next" => kind = "rotate"
      /\ pc' = "launch" => kind = "start"
  BY <1>1 DEF Kind
<1>3. CASE Found(canonicalKeyPath)
  <2>1. UNCHANGED <<file, journal, db, serving, minted>> /\ file[canonicalKeyPath] # None
    BY <1>3 DEF Found
  <2>2. TypeOK' /\ ProperJournal'
    BY <1>1, <1>2, <2>1 DEF IInv, TypeOK, ProperJournal, Label
  <2>3. DiskInv'
    BY <2>1 DEF IInv, DiskInv, MaterialIsJournaled, KeysApart, Settled, Underway,
                Recoverable, Resume, ResumeV1, ResumeV2, At
  <2>4. journal = NoJournal \/ (db # None /\ Resume("clean") /\ kind # "rotate")
    BY <1>1 DEF IInv, Stage
  <2>5. Resume("clean")' = Resume("clean")
    BY <2>1 DEF Resume, ResumeV1, ResumeV2, At
  <2>6. Stage'
    BY <1>1, <1>2, <2>1, <2>4, <2>5 DEF Stage
  <2> QED BY <2>2, <2>3, <2>6 DEF IInv
<1>4. CASE db = None /\ Create(canonicalKeyPath)
  <2>1. journal = NoJournal
    BY <1>1, <1>4 DEF IInv, Stage
  <2>2. /\ DiskInv' /\ ProperJournal' /\ file'[canonicalKeyPath] # None
        /\ file' \in [Path -> Key \cup {Scrap, None}] /\ minted' \subseteq Key
        /\ UNCHANGED <<journal, db, serving>>
    BY <2>1, <1>4, CreateStep DEF Create
  <2>3. TypeOK'
    BY <1>1, <1>2, <2>2 DEF IInv, TypeOK, Label
  <2>4. Stage'
    <3>1. journal' = NoJournal
      BY <2>1, <1>4 DEF Create
    <3> QED BY <1>2, <2>2, <3>1 DEF Stage
  <2> QED BY <2>2, <2>3, <2>4 DEF IInv
<1> QED BY <1>3, <1>4 DEF EnsureKey

LEMMA EnsureNextStep ==
  ASSUME IInv, EnsureNext PROVE IInv'
<1>1. /\ pc = "next" /\ kind' = kind /\ journal = NoJournal
      /\ pc' = IF kind = "rotate" THEN "journal" ELSE "idle"
      /\ kind = "rotate" => file[canonicalKeyPath] # None
  BY DEF EnsureNext, Goto, IInv, Stage
<1>2. /\ DiskInv' /\ ProperJournal' /\ file'[nextKeyPath] # None
      /\ file' \in [Path -> Key \cup {Scrap, None}] /\ minted' \subseteq Key
      /\ UNCHANGED <<journal, db, serving>>
      /\ file'[canonicalKeyPath] = file[canonicalKeyPath]
  <2>1. CASE Found(nextKeyPath)
    BY <1>1, <2>1 DEF Found, IInv, TypeOK, ProperJournal, DiskInv, MaterialIsJournaled,
       KeysApart, Settled, Underway
  <2>2. CASE Create(nextKeyPath)
    BY <1>1, <2>2, CreateStep, PathFacts DEF Create
  <2> QED BY <2>1, <2>2 DEF EnsureNext
<1>3. TypeOK'
  BY <1>1, <1>2 DEF IInv, TypeOK, Label
<1>4. Stage'
  BY <1>1, <1>2 DEF Stage
<1> QED BY <1>2, <1>3, <1>4 DEF IInv

\* The journal of a rotation names two different keys, and no marker exists.
LEMMA WriteJournalStep ==
  ASSUME IInv, WriteJournal PROVE IInv'
<1> DEFINE c == file[canonicalKeyPath]
           n == file[nextKeyPath]
<1>1. /\ journal' = Journal2(c, n, "prepared") /\ pc' = "reencrypt"
      /\ UNCHANGED <<file, db, serving, minted, kind>> /\ journal = NoJournal
  BY DEF WriteJournal, Goto
<1>2. /\ c \in Key /\ n \in Key /\ c # n /\ db \in {None, c}
      /\ file[RetireMarker(c)] = None /\ file[AbortMarker(n)] = None
      /\ file[previousKeyPath] = None
      /\ \A k \in Key : file[RetireMarker(k)] = None /\ file[AbortMarker(k)] = None
      /\ \A q \in {canonicalKeyPath, nextKeyPath} : file[q] # Scrap
  <2>1. /\ file[canonicalKeyPath] # None /\ file[nextKeyPath] # None
        /\ file[canonicalKeyPath] \in Key \cup {Scrap, None}
        /\ file[nextKeyPath] \in Key \cup {Scrap, None}
    BY PathFacts DEF WriteJournal, IInv, TypeOK, Stage
  <2>2. journal.version # 1 /\ journal.from \notin Key /\ journal.to \notin Key
    BY <1>1, HelperConstants DEF NoJournal
  <2>3. /\ \A q \in {canonicalKeyPath, nextKeyPath} : file[q] # Scrap
        /\ \A k \in Key : file[RetireMarker(k)] = None /\ file[AbortMarker(k)] = None
        /\ file[previousKeyPath] = None
    BY <2>2 DEF IInv, DiskInv, MaterialIsJournaled
  <2>4. c # n /\ db \in {None, c}
    BY <1>1, <2>1, <2>3, PathFacts DEF IInv, DiskInv, KeysApart, Settled
  <2> QED BY <2>1, <2>3, <2>4
<1>3. TypeOK' /\ ProperJournal'
  BY <1>1, <1>2 DEF IInv, TypeOK, ProperJournal, Journal2, Label
<1>4. MaterialIsJournaled' /\ KeysApart' /\ Settled'
  BY <1>1, <1>2, HelperConstants
     DEF IInv, DiskInv, MaterialIsJournaled, KeysApart, Settled, Journal2, NoJournal
<1>5. db = c => Resume("shelve")'
  BY <1>1, <1>2 DEF Resume, ResumeV2, At, Journal2
<1>6. Underway' /\ Stage'
  BY <1>1, <1>2, <1>5, HelperConstants
     DEF Underway, Stage, Recoverable, Label, Journal2, NoJournal
<1> QED BY <1>3, <1>4, <1>6 DEF IInv, DiskInv

LEMMA ReencryptStep ==
  ASSUME IInv, Reencrypt PROVE IInv'
<1> DEFINE c == journal.from
           n == journal.to
<1>1. /\ journal # NoJournal /\ journal.version = 2 /\ journal.state = "prepared"
      /\ file[RetireMarker(c)] = None /\ file[AbortMarker(n)] = None
      /\ c \in Key /\ n \in Key /\ c # n /\ At(c, n) /\ db = c
      /\ db' = n /\ pc' = "classify" /\ UNCHANGED <<file, journal, serving, minted, kind>>
  BY DEF Reencrypt, CanReencrypt, Goto, IInv, Stage, ProperJournal
<1>2. file[previousKeyPath] = None
  BY <1>1 DEF IInv, DiskInv, MaterialIsJournaled
<1>3. TypeOK' /\ ProperJournal'
  BY <1>1 DEF IInv, TypeOK, ProperJournal, Label
<1>4. MaterialIsJournaled' /\ KeysApart' /\ Settled'
  BY <1>1 DEF IInv, DiskInv, MaterialIsJournaled, KeysApart, Settled
<1>5. Resume("retire")'
  BY <1>1, <1>2 DEF Resume, ResumeV2, At
<1>6. Underway' /\ Stage'
  BY <1>1, <1>5, HelperConstants DEF Underway, Stage, Recoverable, Label
<1> QED BY <1>3, <1>4, <1>6 DEF IInv, DiskInv

\* A launched daemon encrypts the database under the canonical key.
LEMMA LaunchStep ==
  ASSUME IInv, Launch PROVE IInv'
<1>1. /\ db \in {None, file[canonicalKeyPath]} /\ db' = file[canonicalKeyPath]
      /\ serving' = file[canonicalKeyPath] /\ pc = "launch" /\ pc' = "idle"
      /\ file[canonicalKeyPath] # None
      /\ UNCHANGED <<file, journal, minted, kind>>
  BY DEF Launch, DaemonStarts, Goto
<1>2. file[canonicalKeyPath] \in Key
  BY <1>1, PathFacts DEF IInv, TypeOK, DiskInv, MaterialIsJournaled
<1>3. journal # NoJournal => db' = db
  BY <1>1 DEF IInv, Stage
<1>4. TypeOK' /\ ProperJournal' /\ Stage'
  BY <1>1, <1>2 DEF IInv, TypeOK, ProperJournal, Label, Stage
<1>5. MaterialIsJournaled' /\ KeysApart' /\ Settled'
  BY <1>1 DEF IInv, DiskInv, MaterialIsJournaled, KeysApart, Settled
<1>6. Underway'
  BY <1>1, <1>3 DEF IInv, DiskInv, Underway, Recoverable, Resume, ResumeV1, ResumeV2, At
<1> QED BY <1>4, <1>5, <1>6 DEF IInv, DiskInv

\* Steps that leave the disk and the database alone.
LEMMA QuietSteps ==
  ASSUME IInv, (\E k \in Kind : Begin(k)) \/ DaemonEnds \/ Throw \/ Die \/ UNCHANGED vars
  PROVE  IInv'
<1>1. UNCHANGED <<file, journal, db, minted>> /\ serving' \in {serving, None}
  BY DEF Begin, DaemonEnds, Throw, Die, vars
<1>2. DiskInv' /\ ProperJournal'
  BY <1>1 DEF IInv, DiskInv, MaterialIsJournaled, KeysApart, Settled, Underway, ProperJournal,
              Recoverable, Resume, ResumeV1, ResumeV2, At
<1>3. CASE \E k \in Kind : Begin(k)
  <2>1. /\ pc' \in {"classify", "key", "next"} /\ kind' \in Kind
        /\ pc' \in {"key", "next"} => journal = NoJournal
        /\ pc' = "next" => kind' # "rotate"
        /\ pc' = "classify" => journal # NoJournal
    BY <1>3 DEF Begin, Kind
  <2> QED BY <1>1, <1>2, <2>1 DEF IInv, TypeOK, Stage, Label
<1>4. CASE DaemonEnds \/ UNCHANGED vars
  BY <1>1, <1>2, <1>4 DEF DaemonEnds, vars, IInv, TypeOK, Stage, Resume, ResumeV1, ResumeV2,
                          At, Marker
<1>5. CASE Throw \/ Die
  BY <1>1, <1>2, <1>5 DEF Throw, Die, Goto, IInv, TypeOK, Stage, Label
<1> QED BY <1>3, <1>4, <1>5

----------------------------------------------------------------------------
(* The theorems. *)

LEMMA StepPreserves == IInv /\ [Next]_vars => IInv'
<1> SUFFICES ASSUME IInv, [Next]_vars PROVE IInv'
  OBVIOUS
<1>1. CASE Classify \/ Shelve \/ Retire \/ Demote \/ Promote
  BY <1>1, ClassifyStep, ShelveStep, RetireStep, DemoteStep, PromoteStep
<1>2. CASE MarkRollback \/ MarkWiping \/ Wipe \/ Drop \/ Flush \/ Defer \/ Complete
  BY <1>2, MarkRollbackStep, MarkWipingStep, CleanSteps, CompleteStep
<1>3. CASE EnsureKey \/ EnsureNext \/ WriteJournal \/ Reencrypt \/ Launch
  BY <1>3, EnsureKeyStep, EnsureNextStep, WriteJournalStep, ReencryptStep, LaunchStep
<1>4. CASE (\E k \in Kind : Begin(k)) \/ DaemonEnds \/ Throw \/ Die \/ UNCHANGED vars
  BY <1>4, QuietSteps
<1> QED BY <1>1, <1>2, <1>3, <1>4 DEF Next, Effect

\* At every moment the disk is one the invariant describes.
THEOREM InvariantHolds == Spec => []IInv
BY InitEstablishes, StepPreserves, PTL DEF Spec

\* The variables keep their types.
THEOREM TypesHold == Spec => []TypeOK
<1>1. IInv => TypeOK
  BY DEF IInv
<1> QED BY <1>1, InvariantHolds, PTL

LEMMA DiskRecovers ==
  ASSUME IInv
  PROVE  HelperRecovers
<1>1. CASE journal = NoJournal
  BY <1>1 DEF IInv, DiskInv, Settled, HelperRecovers
<1>2. CASE journal # NoJournal /\ db # None
  <2>1. PICK l \in Label : Resume(l)
    BY <1>2 DEF IInv, DiskInv, Underway, Recoverable
  <2>2. \/ file[canonicalKeyPath] = db
        \/ file[nextKeyPath] = db /\ l \in {"retire", "demote", "promote"}
    BY <1>2, <2>1, HelperConstants DEF Resume, ResumeV1, ResumeV2, At
  <2> QED BY <2>1, <2>2 DEF HelperRecovers, Recoverable
<1> QED BY <1>1, <1>2 DEF HelperRecovers

\* However the helper is interrupted and whichever cleanup fails, a later helper
\* recovers, and the database's key is the canonical one or becomes it.
THEOREM AlwaysRecovers == Spec => []HelperRecovers
BY DiskRecovers, InvariantHolds, PTL

\* No old, shelved or wiped key material outlives the journal that names it.
THEOREM MaterialStaysJournaled == Spec => []MaterialIsJournaled
<1>1. IInv => MaterialIsJournaled
  BY DEF IInv, DiskInv
<1> QED BY <1>1, InvariantHolds, PTL

\* A daemon the helper launches accepts the journal and the keys: the two programs
\* agree on which states a deferred cleanup may leave.
THEOREM LaunchesAreAccepted == Spec => []LaunchIsAccepted
<1>1. ASSUME IInv, pc = "launch", serving = None PROVE DaemonStarts
  <2>1. file[canonicalKeyPath] # None
    BY <1>1 DEF IInv, Stage
  <2>2. CASE journal = NoJournal
    BY <1>1, <2>1, <2>2 DEF IInv, DiskInv, Settled, DaemonStarts, DaemonAccepts
  <2>3. CASE Resume("clean")
    BY <1>1, <2>1, <2>3, CleaningDisk DEF DaemonStarts, DaemonAccepts, At
  <2> QED BY <1>1, <2>2, <2>3 DEF IInv, Stage
<1>2. IInv => LaunchIsAccepted
  BY <1>1 DEF LaunchIsAccepted
<1> QED BY <1>2, InvariantHolds, PTL

\* Recover-VersionTwoRotation and Recover-LegacyRotation have one way to go on at
\* most, so that the order of their cases does not matter.
THEOREM RecoveryIsDetermined == Spec => []ResumesOneWay
<1>1. ASSUME IInv, NEW l \in Label, NEW m \in Label, Resume(l), Resume(m) PROVE l = m
  <2>1. /\ journal # NoJournal => journal.from # journal.to
        /\ None \notin {journal.from, journal.to} \/ journal = NoJournal
        /\ journal = NoJournal => journal.state = "none" /\ journal.version = 0
    BY <1>1, HelperConstants DEF IInv, ProperJournal, NoJournal
  <2>2. CASE journal.version = 1
    <3>1. journal # NoJournal BY <2>2 DEF NoJournal
    <3> QED BY <1>1, <2>1, <2>2, <3>1 DEF Resume, ResumeV1, At
  <2>3. CASE journal.version # 1
    BY <1>1, <2>1, <2>3 DEF Resume, ResumeV2, At
  <2> QED BY <2>2, <2>3
<1>2. IInv => ResumesOneWay
  BY <1>1 DEF ResumesOneWay
<1> QED BY <1>2, InvariantHolds, PTL

LEMMA EffectsFind ==
  ASSUME IInv
  PROVE  EffectsFindTheirFiles
<1> DEFINE c == journal.from
           n == journal.to
<1>1. pc = "classify" /\ db # None => Recoverable
  BY DEF IInv, Stage, DiskInv, Underway
<1>2. journal # NoJournal =>
        /\ c \in Key /\ n \in Key /\ c # n /\ None \notin {c, n} /\ Scrap \notin {c, n}
        /\ db = n => file[AbortMarker(n)] = None
        /\ db = c => file[RetireMarker(c)] = None
  BY HelperConstants DEF IInv, ProperJournal, DiskInv, Underway
<1>3. ASSUME pc \in {"shelve", "retire", "demote", "promote"}
      PROVE  journal # NoJournal /\ db # None /\ Resume(pc)
  BY <1>3, HelperConstants
     DEF IInv, Stage, TypeOK, Resume, ResumeV2, At, NoJournal
<1>4. file[canonicalKeyPath] = db /\ db # None =>
        \A q \in Path : file[q] = db => q = canonicalKeyPath
  BY PathFacts DEF IInv, TypeOK, DiskInv, KeysApart
<1>5. ASSUME pc = "shelve"
      PROVE  file[nextKeyPath] \notin {None, db} /\ file[AbortMarker(n)] = None
  BY <1>2, <1>3, <1>4, <1>5, PathFacts DEF Resume, ResumeV1, ResumeV2, At
<1>6. ASSUME pc = "retire"
      PROVE  file[canonicalKeyPath] \notin {None, db} /\ file[RetireMarker(c)] = None
  BY <1>2, <1>3, <1>6 DEF Resume, ResumeV1, ResumeV2, At
<1>7. ASSUME pc = "demote"
      PROVE  file[previousKeyPath] \notin {None, db} /\ file[RetireMarker(c)] = None
  BY <1>2, <1>3, <1>4, <1>7, PathFacts DEF Resume, ResumeV1, ResumeV2, At
<1>8. ASSUME pc = "promote"
      PROVE  file[nextKeyPath] = db /\ file[canonicalKeyPath] = None
  BY <1>2, <1>3, <1>8 DEF Resume, ResumeV1, ResumeV2, At
<1>9. ASSUME pc \in {"clean", "drop"}
      PROVE  file[Marker] # db /\ file[canonicalKeyPath] = db
  <2>1. Resume("clean") BY <1>9 DEF IInv, Stage
  <2> QED BY <1>4, <2>1, CleaningDisk DEF At
<1>10. ASSUME pc = "complete"
       PROVE  /\ file[canonicalKeyPath] = db /\ db # None
              /\ \A q \in Path \ {canonicalKeyPath} : file[q] = None
  <2>1. /\ At(db, None) /\ db # None /\ file[previousKeyPath] = None
        /\ file[RetireMarker(c)] = None /\ file[AbortMarker(n)] = None
    BY <1>10, CompletedDisk
  <2>2. \A k \in Key : file[RetireMarker(k)] = None /\ file[AbortMarker(k)] = None
    BY <2>1 DEF IInv, DiskInv, MaterialIsJournaled
  <2>3. ASSUME NEW q \in Path
        PROVE  \/ q \in {canonicalKeyPath, nextKeyPath, previousKeyPath}
               \/ \E k \in Key : q = RetireMarker(k) \/ q = AbortMarker(k)
    BY DEF Path, canonicalKeyPath, nextKeyPath, previousKeyPath, RetireMarker, AbortMarker
  <2> QED BY <2>1, <2>2, <2>3 DEF At
<1> QED
  BY <1>1, <1>5, <1>6, <1>7, <1>8, <1>9, <1>10 DEF EffectsFindTheirFiles

\* Every move of the helper finds its file and a free path, no step takes or wipes the
\* key of the database, and the journal goes when no other key is left
\* (Move-DurableFile, Complete-RetirementCleanup, Complete-RotationJournal).
THEOREM HelperGoesOn == Spec => []EffectsFindTheirFiles
BY EffectsFind, InvariantHolds, PTL

----------------------------------------------------------------------------
(* The custody of the key.  What a helper finds is the database's key wherever *)
(* there is one, so a step of the custody is a step that changes the key of    *)
(* the database, or what the canonical and the prepared path hold besides it.  *)

FindsKey == FoundKey = IF db = None THEN file[canonicalKeyPath] ELSE db

LEMMA KeyFound ==
  ASSUME IInv
  PROVE  FindsKey
<1>1. CASE journal = NoJournal \/ db = None
  BY <1>1 DEF IInv, DiskInv, Settled, FindsKey, FoundKey
<1>2. CASE journal # NoJournal /\ db # None
  <2>1. PICK l \in Label : Resume(l)
    BY <1>2 DEF IInv, DiskInv, Underway, Recoverable
  <2>2. \A k \in {"retire", "promote"} : Resume(k) => file[nextKeyPath] = db
    BY <1>2, HelperConstants DEF Resume, ResumeV1, ResumeV2, At
  <2>3. Resume("demote") => \/ file[canonicalKeyPath] = None /\ file[nextKeyPath] = db
                            \/ file[canonicalKeyPath] = db
    BY <1>2, HelperConstants DEF Resume, ResumeV1, ResumeV2, At
  <2>4. l \notin {"retire", "promote", "demote"} => file[canonicalKeyPath] = db
    BY <1>2, <2>1, HelperConstants DEF Resume, ResumeV1, ResumeV2, At
  <2>5. Canonical = db BY <1>2, <2>1, <2>2, <2>3, <2>4 DEF Canonical
  <2> QED BY <1>2, <2>1, <2>5 DEF FindsKey, FoundKey, Recoverable
<1> QED BY <1>1, <1>2

LEMMA CustodyStep ==
  ASSUME IInv, FindsKey, FindsKey', [Next]_vars
  PROVE  [Custody!Next]_(Custody!vars)
<1> USE PathFacts
<1>1. /\ FoundKey = IF db = None THEN file[canonicalKeyPath] ELSE db
      /\ FoundKey' = IF db' = None THEN file'[canonicalKeyPath] ELSE db'
  BY DEF FindsKey
<1>2. EffectsFindTheirFiles BY EffectsFind
<1>3. ASSUME UNCHANGED <<db, minted>>, Spare' = Spare,
             file'[canonicalKeyPath] = file[canonicalKeyPath] \/ db # None
      PROVE  UNCHANGED Custody!vars
  BY <1>1, <1>3 DEF Custody!vars
<1>4. ASSUME UNCHANGED <<db, minted>>, file'[nextKeyPath] = file[nextKeyPath],
             file'[canonicalKeyPath] = file[canonicalKeyPath] \/ db # None
      PROVE  UNCHANGED Custody!vars
  BY <1>3, <1>4 DEF Spare
<1>5. CASE Shelve
  <2>1. journal.to \in Key /\ db # None
    BY <1>5, HelperConstants
       DEF Shelve, IInv, ProperJournal, Stage, Resume, ResumeV1, ResumeV2, NoJournal
  <2>2. /\ UNCHANGED <<db, minted>> /\ file'[nextKeyPath] = None
        /\ file'[canonicalKeyPath] = file[canonicalKeyPath]
    BY <1>5, <2>1, MoveFacts DEF Shelve, Move, IInv
  <2>3. Spare' = None BY <2>2 DEF Spare
  <2>4. CASE Spare = None BY <1>3, <2>1, <2>2, <2>3, <2>4
  <2>5. CASE Spare # None
    BY <1>1, <2>1, <2>2, <2>3, <2>5 DEF Custody!DropSpare, Custody!Next
  <2> QED BY <2>4, <2>5
<1>6. CASE Retire \/ Demote
  <2>1. journal.from \in Key /\ db # None
    BY <1>6, HelperConstants
       DEF Retire, Demote, IInv, ProperJournal, Stage, Resume, ResumeV1, ResumeV2, NoJournal
  <2>2. UNCHANGED <<db, minted>> /\ file'[nextKeyPath] = file[nextKeyPath]
    BY <1>6, <2>1, MoveFacts DEF Retire, Demote, Move, IInv
  <2> QED BY <1>4, <2>1, <2>2
<1>7. CASE Promote
  <2>1. /\ UNCHANGED <<db, minted>> /\ file'[nextKeyPath] = None /\ db # None
        /\ file[nextKeyPath] = db
    BY <1>2, <1>7, MoveFacts DEF Promote, Move, IInv, Stage, EffectsFindTheirFiles
  <2> QED BY <1>3, <2>1 DEF Spare
<1>8. CASE Wipe \/ Drop \/ Defer
  <2>1. db # None /\ Resume("clean") BY <1>8 DEF Wipe, Drop, Defer, IInv, Stage
  <2>2. Marker \in Path \ {canonicalKeyPath, nextKeyPath}
    BY <2>1, HelperConstants DEF Marker, IInv, ProperJournal, Resume, ResumeV1, ResumeV2, NoJournal
  <2>3. UNCHANGED <<db, minted>> /\ file'[nextKeyPath] = file[nextKeyPath]
    BY <1>8, <2>2 DEF Wipe, Drop, Defer, IInv, TypeOK
  <2> QED BY <1>4, <2>1, <2>3
<1>9. CASE EnsureKey
  <2>1. CASE UNCHANGED <<db, minted, file>> BY <1>4, <2>1
  <2>2. CASE db = None /\ Create(canonicalKeyPath)
    <3>1. PICK k \in Key \ minted : /\ file' = [file EXCEPT ![canonicalKeyPath] = k]
                                    /\ minted' = minted \cup {k}
      BY <2>2 DEF Create
    <3>2. /\ db' = None /\ file[canonicalKeyPath] = None /\ file'[canonicalKeyPath] = k
          /\ file'[nextKeyPath] = file[nextKeyPath]
      BY <2>2, <3>1 DEF Create, IInv, TypeOK
    <3>3. Spare' = Spare BY <2>2, <3>2 DEF Spare
    <3> QED BY <1>1, <2>2, <3>1, <3>2, <3>3 DEF Custody!DrawKey, Custody!Draw, Custody!Next
  <2> QED BY <1>9, <2>1, <2>2 DEF EnsureKey, Found
<1>10. CASE EnsureNext
  <2>1. CASE UNCHANGED <<db, minted, file>> BY <1>4, <2>1
  <2>2. CASE Create(nextKeyPath)
    <3>1. PICK k \in Key \ minted : /\ file' = [file EXCEPT ![nextKeyPath] = k]
                                    /\ minted' = minted \cup {k}
      BY <2>2 DEF Create
    <3>2. /\ db' = db /\ file[nextKeyPath] = None /\ file'[nextKeyPath] = k
          /\ file'[canonicalKeyPath] = file[canonicalKeyPath]
      BY <2>2, <3>1 DEF Create, IInv, TypeOK
    <3>3. db # k /\ k # Scrap /\ k # None
      <4>1. db = None \/ file[canonicalKeyPath] = db \/ file[nextKeyPath] = db
        BY DiskRecovers DEF HelperRecovers
      <4> QED BY <3>1, <4>1, HelperConstants DEF IInv, DiskInv, KeysApart, TypeOK
    <3>4. Spare = None /\ Spare' = k BY <3>2, <3>3 DEF Spare
    <3> QED BY <1>1, <3>1, <3>2, <3>4 DEF Custody!DrawSpare, Custody!Draw, Custody!Next
  <2> QED BY <1>10, <2>1, <2>2 DEF EnsureNext, Found
<1>11. CASE Launch
  <2>1. /\ UNCHANGED <<file, minted>> /\ db' = file[canonicalKeyPath]
        /\ file[canonicalKeyPath] # None /\ db \in {None, file[canonicalKeyPath]}
    BY <1>11 DEF Launch, DaemonStarts
  <2>2. CASE db = file[canonicalKeyPath] BY <1>4, <2>1, <2>2
  <2>3. CASE db = None
    <3>1. file[nextKeyPath] \in Key => file[nextKeyPath] # file[canonicalKeyPath]
      BY DEF IInv, DiskInv, KeysApart
    <3>2. file[nextKeyPath] \in Key \cup {Scrap, None} BY DEF IInv, TypeOK
    <3>3. Spare' = Spare BY <2>1, <2>3, <3>1, <3>2 DEF Spare
    <3> QED BY <1>1, <2>1, <2>3, <3>3 DEF Custody!Encrypt, Custody!Next
  <2> QED BY <2>1, <2>2, <2>3
<1>12. CASE Reencrypt
  <2>1. /\ UNCHANGED <<file, minted>> /\ db = journal.from /\ db' = journal.to
        /\ file[nextKeyPath] = journal.to
    BY <1>12 DEF Reencrypt, CanReencrypt, At
  <2>2. /\ journal.from # journal.to /\ None \notin {journal.from, journal.to}
        /\ journal.to # Scrap
    BY <1>12, HelperConstants DEF Reencrypt, IInv, Stage, ProperJournal
  <2>3. Spare = journal.to /\ Spare' = None BY <2>1, <2>2 DEF Spare
  <2> QED BY <1>1, <2>1, <2>2, <2>3 DEF Custody!Rekey, Custody!Next
<1>13. CASE UNCHANGED <<db, minted, file>> BY <1>4, <1>13
<1> QED
  BY <1>5, <1>6, <1>7, <1>8, <1>9, <1>10, <1>11, <1>12, <1>13
     DEF Next, Effect, Begin, Classify, MarkRollback, MarkWiping, Mark, Flush, Complete,
         WriteJournal, Throw, DaemonEnds, Die, vars

LEMMA CustodyInit ==
  ASSUME Init
  PROVE  Custody!Init
<1> USE PathFacts
<1>1. IInv BY InitEstablishes
<1>2. FoundKey = IF db = None THEN file[canonicalKeyPath] ELSE db
  BY <1>1, KeyFound DEF FindsKey
<1>3. /\ minted \subseteq Key
      /\ file[canonicalKeyPath] \in minted \cup {None, Scrap}
      /\ file[nextKeyPath] \in minted \cup {None, Scrap}
  BY <1>1 DEF IInv, TypeOK, DiskInv, KeysApart
<1>4. Spare \in (minted \cup {None}) \ ({db} \ {None}) BY <1>3 DEF Spare
<1>5. CASE db # None
  <2>1. db \in minted BY <1>5 DEF Init, LegacyInit
  <2> QED BY <1>2, <1>3, <1>4, <1>5, <2>1 DEF Custody!Init
<1>6. CASE db = None
  <2>1. file[canonicalKeyPath] = None /\ minted \subseteq Key
    BY <1>3, <1>6, HelperConstants DEF Init, LegacyInit, Holding
  <2> QED BY <1>2, <1>4, <1>6, <2>1 DEF Custody!Init
<1> QED BY <1>5, <1>6

\* A rotation by the helper is atomic: wherever it is interrupted and whichever
\* cleanup fails, the key of the database and the key a recovery leaves change in one
\* step, to a key that was never in use (reencryptCredentialMasterKey, Recover-Rotation).
THEOREM HelperRotatesAtomically == Spec => ImplementsKeyCustody
<1>1. IInv /\ FindsKey /\ FindsKey' /\ [Next]_vars => [Custody!Next]_(Custody!vars)
  BY CustodyStep
<1>2. IInv => FindsKey BY KeyFound
<1> QED
  BY <1>1, <1>2, CustodyInit, InvariantHolds, PTL
     DEF Spec, ImplementsKeyCustody, Custody!Spec
================================================================================
