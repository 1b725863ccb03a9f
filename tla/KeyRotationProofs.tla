--------------------------- MODULE KeyRotationProofs ---------------------------
(***************************************************************************)
(* An interrupted key rotation never costs the database its key: proved    *)
(* for any number of programs and keys.                                    *)
(***************************************************************************)
EXTENDS KeyRotation, TLAPS

Busy(p) == pc[p] \notin {"idle", "serve"}

\* Programs begin one at a time.
Alone == \A p, q \in Proc : Busy(p) /\ Busy(q) => p = q

\* No key is drawn twice, and the prepared key is not the canonical one.
Fresh ==
  /\ \A q \in Path : file[q] \in minted \cup {None}
  /\ db \in minted \cup {None}
  /\ file["key"] = None \/ file["key"] # file["next"]

\* Only the journaled shelf is in use.
Markers == \A s \in Shelf : file[s] # None => s = journal.shelf

\* Without a journal the canonical key is the database's.
Settled == db # None => file["key"] = db

\* With one, the disk is in one of the states a rotation passes through.
Prepared(c, n) == db \in {c, None} /\ (At(c, n, None) \/ At(c, None, None))
Committed(c, n) ==
  db = n /\ (At(c, n, None) \/ At(None, n, c) \/ At(n, None, c) \/ At(n, None, None))

Disk ==
  IF journal = NoJournal THEN Settled
  ELSE /\ journal.from \in Key /\ journal.to \in Key /\ journal.from # journal.to
       /\ journal.shelf \in {"previous", journal.from}
       /\ Prepared(journal.from, journal.to) \/ Committed(journal.from, journal.to)

\* What a program in the middle of its effects may rely on.
Journaled(p) ==
  journal.from = cur[p] /\ journal.to = nxt[p] /\ cur[p] \in Key /\ nxt[p] \in Key
Holding(p) == kind[p] = "rotate" /\ holder = p
Loaded(p) == journal = NoJournal /\ cur[p] \in Key /\ file["key"] = cur[p]

Progress(p) ==
  /\ pc[p] = "load" => journal = NoJournal
  /\ pc[p] = "settleKey" => Loaded(p)
  /\ pc[p] \in {"provision", "settleNext", "journal"} => Loaded(p) /\ kind[p] = "rotate"
  /\ pc[p] \in {"settleNext", "journal"} => nxt[p] \in Key /\ file["next"] = nxt[p]
  /\ pc[p] = "open" /\ kind[p] = "daemon" => Loaded(p)
  /\ pc[p] = "open" /\ kind[p] = "rotate" =>
       Journaled(p) /\ At(cur[p], nxt[p], None) /\ db \in {cur[p], None}
  /\ pc[p] = "reencrypt" =>
       Journaled(p) /\ Holding(p) /\ db = cur[p] /\ At(cur[p], nxt[p], None)
  /\ pc[p] = "close" =>
       Journaled(p) /\ Holding(p) /\ db = nxt[p] /\ At(cur[p], nxt[p], None)
  /\ pc[p] = "retire" => Journaled(p) /\ db = nxt[p] /\ At(cur[p], nxt[p], None)
  /\ pc[p] = "promote" => Journaled(p) /\ db = nxt[p] /\ At(None, nxt[p], cur[p])
  /\ pc[p] = "wipe" => Journaled(p) /\ db = nxt[p] /\ At(nxt[p], None, cur[p])
  /\ pc[p] = "discard" => Journaled(p) /\ db = cur[p] /\ At(cur[p], nxt[p], None)
  /\ pc[p] = "unjournal" =>
       /\ Journaled(p)
       /\ \/ db = cur[p] /\ At(cur[p], None, None)
          \/ db = nxt[p] /\ At(nxt[p], None, None)
  /\ pc[p] = "serve" =>
       db # None /\ cur[p] \in Key /\ (holder = p => cur[p] = db)

RotationInv ==
  /\ TypeOK /\ Alone /\ Fresh /\ Markers /\ Disk
  /\ \A p \in Proc : Progress(p)
----------------------------------------------------------------------------
(* Facts shared by the steps. *)

LEMMA PathsDiffer ==
  /\ "key" \in Path /\ "next" \in Path /\ "key" # "next"
  /\ Key \subseteq Shelf /\ "previous" \in Shelf /\ "previous" \notin Key /\ None \notin Shelf
  /\ \A s \in Shelf : s \in Path /\ s # "key" /\ s # "next"
BY KeyConstants DEF Path, Shelf

\* Only one program moves, and another may move only after it is idle or serves.
LEMMA AloneStep ==
  ASSUME TypeOK, Alone, NEW p \in Proc, NEW l \in Label, Goto(p, l),
         Busy(p) \/ Undisturbed \/ l = "idle"
  PROVE  /\ Alone' /\ pc' \in [Proc -> Label] /\ pc'[p] = l
         /\ \A q \in Proc \ {p} : pc'[q] = pc[q]
BY DEF TypeOK, Alone, Busy, Undisturbed, Goto, Label

\* While p is busy, the others are idle or serve: a daemon that owns the database
\* relies on its key, and one that lost it on nothing.
LEMMA OthersServe ==
  ASSUME RotationInv, NEW p \in Proc, NEW q \in Proc \ {p},
         Busy(p) \/ Undisturbed,
         pc'[q] = pc[q], cur'[q] = cur[q], db # None => db' # None,
         holder' = q => holder = q /\ db' = db
  PROVE  Progress(q)'
<1>1. pc[q] \in {"idle", "serve"} BY DEF RotationInv, Alone, Busy, Undisturbed
<1>2. Progress(q) BY DEF RotationInv
<1>3. CASE pc[q] = "idle" BY <1>3 DEF Progress
<1>4. CASE pc[q] = "serve"
  <2>1. db # None /\ cur[q] \in Key /\ (holder = q => cur[q] = db)
    BY <1>2, <1>4 DEF Progress
  <2>2. db' # None /\ cur'[q] \in Key /\ (holder' = q => cur'[q] = db') BY <2>1
  <2>3. pc'[q] = "serve" BY <1>4
  <2>. QED BY <2>2, <2>3 DEF Progress
<1>. QED BY <1>1, <1>3, <1>4
----------------------------------------------------------------------------
(* Type correctness. *)

LEMMA ResumeLabel == Resume # "refused" => Resume \in Label
BY DEF Resume, Label

LEMMA LinkType ==
  ASSUME TypeOK, NEW p \in Proc, NEW path \in Path, NEW k \in Key, Link(p, path, k)
  PROVE  /\ file' \in [Path -> Key \cup {None}] /\ linked' \subseteq Key
         /\ minted' \subseteq Key /\ journal' = journal /\ db' = db
         /\ holder' = holder /\ due' = due /\ sealed' = sealed /\ kind' = kind
BY DEF TypeOK, Link, base

LEMMA MoveType ==
  ASSUME TypeOK, NEW p \in Proc, NEW from \in Path,
         Remove(p, from) \/ \E to \in Path : Rename(p, from, to)
  PROVE  /\ file' \in [Path -> Key \cup {None}]
         /\ UNCHANGED <<linked, journal, minted, base, kind, cur, nxt>>
BY DEF TypeOK, Remove, Rename

LEMMA ReleaseType ==
  ASSUME TypeOK, NEW p \in Proc, Release(p)
  PROVE  /\ holder' \in Proc \cup {None} /\ due' \in BOOLEAN
         /\ holder' = holder \/ holder = p
BY DEF TypeOK, Release

LEMMA EffectType ==
  ASSUME TypeOK, NEW p \in Proc, Effect(p)
  PROVE  TypeOK'
<1>. USE DEF TypeOK
<1>1. "key" \in Path /\ "next" \in Path /\ Key \subseteq Path BY DEF Path, Shelf
<1>2. AfterLoad(p) \in Label BY DEF AfterLoad, Label
<1>3. ASSUME NEW l \in Label, Goto(p, l) PROVE pc' \in [Proc -> Label]
  BY <1>3 DEF Goto
<1>4. CASE LoadKey(p)
  BY <1>1, <1>2, <1>3, <1>4 DEF LoadKey, disk, base
<1>5. CASE CreateKey(p)
  <2>1. PICK k \in Key : Link(p, "key", k) /\ cur' = [cur EXCEPT ![p] = k]
    BY <1>5 DEF CreateKey
  <2>2. "settleKey" \in Label BY DEF Label
  <2>. QED BY <1>1, <1>3, <1>5, <2>1, <2>2, LinkType DEF CreateKey
<1>6. CASE SettleKey(p) BY <1>2, <1>3, <1>6 DEF SettleKey, Unlink, base
<1>7. CASE LoadNext(p) BY <1>1, <1>3, <1>7 DEF LoadNext, disk, base, Label
<1>8. CASE CreateNext(p)
  <2>1. PICK k \in Key : Link(p, "next", k) /\ nxt' = [nxt EXCEPT ![p] = k]
    BY <1>8 DEF CreateNext
  <2>2. "settleNext" \in Label BY DEF Label
  <2>. QED BY <1>1, <1>3, <1>8, <2>1, <2>2, LinkType DEF CreateNext
<1>9. CASE SettleNext(p) BY <1>3, <1>9 DEF SettleNext, Unlink, base, Label
<1>10. CASE WriteJournal(p)
  BY <1>3, <1>10, PathsDiffer DEF WriteJournal, Journal2, base, Label
<1>11. CASE Open(p)
  <2>1. sealed' \subseteq Key \cup {None}
    <3>1. sealed' \in {{}, {cur[p]}} \/ sealed' = sealed BY <1>11 DEF Open
    <3>. QED BY <3>1
  <2>2. "serve" \in Label /\ "reencrypt" \in Label BY DEF Label
  <2>3. pc' \in [Proc -> Label] BY <1>3, <1>11, <2>2 DEF Open
  <2>. QED BY <1>11, <2>1, <2>3 DEF Open, disk
<1>12. CASE Reencrypt(p) BY <1>3, <1>12 DEF Reencrypt, disk, Label
<1>13. CASE CloseStore(p) BY <1>3, <1>13, ReleaseType DEF CloseStore, disk, Label
<1>14. CASE Retire(p)
  <2>2. file' \in [Path -> Key \cup {None}] BY <1>1, <1>14 DEF Retire, Rename
  <2>. QED BY <1>3, <1>14, <2>2 DEF Retire, Rename, base, Label
<1>15. CASE Promote(p)
  BY <1>1, <1>3, <1>15, MoveType DEF Promote, base, Label
<1>16. CASE Wipe(p)
  <2>1. file' \in [Path -> Key \cup {None}] BY <1>1, <1>16 DEF Wipe, Remove
  <2>. QED BY <1>3, <1>16, <2>1 DEF Wipe, Remove, base, Label
<1>17. CASE Discard(p)
  BY <1>1, <1>3, <1>17, MoveType DEF Discard, base, Label
<1>18. CASE Unjournal(p) BY <1>3, <1>18 DEF Unjournal, NoJournal, base, Label
<1>19. CASE Throw(p) BY <1>3, <1>19, ReleaseType DEF Throw, disk, Label
<1>. QED
  BY <1>4, <1>5, <1>6, <1>7, <1>8, <1>9, <1>10, <1>11, <1>12, <1>13, <1>14, <1>15,
     <1>16, <1>17, <1>18, <1>19 DEF Effect

LEMMA TypeStep ==
  ASSUME TypeOK, [Next]_vars
  PROVE  TypeOK'
<1>1. ASSUME NEW p \in Proc, Begin(p) PROVE TypeOK'
  <2>1. CASE journal = NoJournal
    BY <1>1, <2>1 DEF Begin, Goto, TypeOK, disk, base, Label
  <2>2. CASE journal # NoJournal
    BY <1>1, <2>2, ResumeLabel DEF Begin, Goto, TypeOK, Recoverable, disk, base
  <2>. QED BY <2>1, <2>2
<1>2. ASSUME NEW p \in Proc, Stop(p) \/ Die(p) PROVE TypeOK'
  BY <1>2, ReleaseType DEF Stop, Die, Goto, TypeOK, disk, base, Label
<1>3. ASSUME NEW p \in Proc, Renew(p) \/ StoreSecret(p) PROVE TypeOK'
  BY <1>3 DEF Renew, StoreSecret, TypeOK, disk, progs
<1>4. CASE LeaseLapses BY <1>4 DEF LeaseLapses, TypeOK, disk, progs
<1>5. CASE UNCHANGED vars BY <1>5 DEF vars, disk, base, progs, TypeOK
<1>. QED BY <1>1, <1>2, <1>3, <1>4, <1>5, EffectType DEF Next, Work, Serving

LEMMA InitTypes == Init => TypeOK
<1>. SUFFICES ASSUME Init PROVE TypeOK OBVIOUS
<1>1. CASE FirstInit
  BY <1>1 DEF Init, FirstInit, TypeOK, NoJournal, Label
<1>2. CASE LegacyInit
  <2>1. sealed \subseteq Key BY <1>2 DEF LegacyInit
  <2>2. /\ file \in [Path -> Key \cup {None}] /\ db \in Key \cup {None}
        /\ journal \in [from : Key \cup {None}, to : Key \cup {None},
                        shelf : Shelf \cup {None}]
        /\ minted \subseteq Key
    BY <1>2, PathsDiffer DEF LegacyInit, Journal1, Path
  <2>. QED BY <2>1, <2>2 DEF Init, TypeOK, Label
<1>. QED BY <1>1, <1>2 DEF Init

\* Every program, whatever interrupts it, keeps the files, the journal, the
\* database and the programs within their types.
THEOREM RotationTypes == Spec => []TypeOK
<1>. QED BY InitTypes, TypeStep, PTL DEF Spec
----------------------------------------------------------------------------
(* The invariant, one lemma per stage of a program. *)

LEMMA Idles ==
  ASSUME NEW q \in Proc, pc'[q] = "idle"
  PROVE  Progress(q)'
BY DEF Progress

LEMMA BeginInv ==
  ASSUME RotationInv, NEW p \in Proc, Begin(p)
  PROVE  RotationInv'
<1>. USE DEF RotationInv
<1>1. TypeOK'
  BY TypeStep DEF Next, Work
<1>2. UNCHANGED <<file, linked, journal, minted, db, holder>> BY DEF Begin, disk, base
<1>3. PICK l \in Label : Goto(p, l) /\ pc'[p] = l
  <2>1. CASE journal = NoJournal
    BY <2>1 DEF Begin, Goto, TypeOK, Label
  <2>2. CASE journal # NoJournal
    BY <2>2, ResumeLabel DEF Begin, Goto, TypeOK, Recoverable
  <2>. QED BY <2>1, <2>2
<1>4. /\ Alone' /\ \A q \in Proc \ {p} : pc'[q] = pc[q]
  BY <1>3, AloneStep DEF Begin
<1>5. Fresh' /\ Markers' /\ Disk'
  BY <1>2 DEF Fresh, Markers, Disk, Settled, Prepared, Committed, At
<1>6. ASSUME NEW q \in Proc \ {p} PROVE Progress(q)'
  <2>1. cur'[q] = cur[q] BY DEF Begin, TypeOK
  <2>. QED BY <1>2, <1>4, <2>1, OthersServe DEF Begin
<1>7. Progress(p)'
  <2>1. CASE journal = NoJournal
    <3>1. pc'[p] = "load" BY <2>1 DEF Begin, Goto, TypeOK
    <3>. QED BY <1>2, <2>1, <3>1 DEF Progress
  <2>2. CASE journal # NoJournal
    <3>1. /\ pc'[p] = Resume /\ Resume # "refused"
          /\ cur'[p] = journal.from /\ nxt'[p] = journal.to
      BY <2>2 DEF Begin, Goto, TypeOK, Recoverable
    <3>2. Journaled(p)'
      BY <1>2, <2>2, <3>1 DEF Journaled, Disk
    <3>. QED
      BY <1>2, <3>1, <3>2 DEF Resume, At, Progress
  <2>. QED BY <2>1, <2>2
<1>. QED BY <1>1, <1>4, <1>5, <1>6, <1>7

\* The lease and the secrets are nothing a rotation relies on.
LEMMA LeaseInv ==
  ASSUME RotationInv,
         LeaseLapses \/ \E p \in Proc : Renew(p) \/ StoreSecret(p)
  PROVE  RotationInv'
<1>. USE DEF RotationInv
<1>1. TypeOK' BY TypeStep DEF Next, Work, Serving
<1>2. UNCHANGED <<disk, db, holder, progs>> BY DEF LeaseLapses, Renew, StoreSecret
<1>3. Alone' /\ Fresh' /\ Markers' /\ Disk'
  BY <1>2 DEF disk, progs, Alone, Busy, Fresh, Markers, Disk, Settled, Prepared,
              Committed, At
<1>4. \A p \in Proc : Progress(p)'
  BY <1>2 DEF disk, progs, Progress, Journaled, Holding, Loaded, At
<1>. QED BY <1>1, <1>3, <1>4

LEMMA StopInv ==
  ASSUME RotationInv, NEW p \in Proc, Stop(p) \/ Die(p) \/ Throw(p)
  PROVE  RotationInv'
<1>. USE DEF RotationInv
<1>1. TypeOK' BY TypeStep DEF Next, Work, Serving, Effect
<1>2. UNCHANGED <<file, linked, journal, minted, db, kind, cur, nxt>>
  BY DEF Stop, Die, Throw, disk, base
<1>3. Goto(p, "idle") /\ "idle" \in Label BY DEF Stop, Die, Throw, Label
<1>4. Alone' /\ pc'[p] = "idle" /\ \A q \in Proc \ {p} : pc'[q] = pc[q]
  BY <1>3, AloneStep
<1>5. Fresh' /\ Markers' /\ Disk'
  BY <1>2 DEF Fresh, Markers, Disk, Settled, Prepared, Committed, At
<1>6. ASSUME NEW q \in Proc \ {p} PROVE Progress(q)'
  <2>1. holder' = holder \/ (holder = p /\ holder' = None)
    BY DEF Stop, Die, Throw, Release, base
  <2>2. Progress(q) /\ q # None BY KeyConstants
  <2>. QED
    BY <1>2, <1>4, <2>1, <2>2 DEF Progress, Loaded, Journaled, Holding, At
<1>. QED BY <1>1, <1>4, <1>5, <1>6, Idles

\* A busy program's effect that leaves the database and the other programs alone.
LEMMA QuietEffect ==
  ASSUME RotationInv, NEW p \in Proc, NEW l \in Label, Busy(p), Goto(p, l),
         UNCHANGED base, \A q \in Proc \ {p} : cur'[q] = cur[q]
  PROVE  Alone' /\ pc'[p] = l /\ \A q \in Proc \ {p} : Progress(q)'
<1>1. Alone' /\ pc'[p] = l /\ \A q \in Proc \ {p} : pc'[q] = pc[q]
  BY AloneStep DEF RotationInv
<1>. QED BY <1>1, OthersServe DEF base

LEMMA LoadInv ==
  ASSUME RotationInv, NEW p \in Proc, LoadKey(p) \/ LoadNext(p)
  PROVE  RotationInv'
<1>. USE DEF RotationInv
<1>1. TypeOK' BY EffectType DEF Effect
<1>2. UNCHANGED <<disk, base, kind>> BY DEF LoadKey, LoadNext
<1>3. Fresh' /\ Markers' /\ Disk'
  BY <1>2 DEF disk, base, Fresh, Markers, Disk, Settled, Prepared, Committed, At
<1>4. CASE LoadKey(p)
  <2>1. Busy(p) /\ AfterLoad(p) \in Label BY <1>4 DEF LoadKey, Busy, AfterLoad, Label
  <2>2. Alone' /\ pc'[p] = AfterLoad(p) /\ \A q \in Proc \ {p} : Progress(q)'
    BY <1>4, <2>1, QuietEffect DEF LoadKey, TypeOK
  <2>3. Loaded(p)'
    <3>1. journal = NoJournal /\ file["key"] \in Key
      BY <1>4, PathsDiffer DEF LoadKey, Progress, TypeOK
    <3>2. cur'[p] = file["key"] BY <1>4 DEF LoadKey, TypeOK
    <3>. QED BY <1>2, <3>1, <3>2 DEF Loaded, disk
  <2>4. kind[p] \in {"daemon", "rotate"} BY DEF TypeOK
  <2>5. Progress(p)' BY <1>2, <2>2, <2>3, <2>4 DEF Progress, AfterLoad
  <2>. QED BY <1>1, <1>3, <2>2, <2>5
<1>5. CASE LoadNext(p)
  <2>1. Busy(p) /\ "journal" \in Label BY <1>5 DEF LoadNext, Busy, Label
  <2>2. Alone' /\ pc'[p] = "journal" /\ \A q \in Proc \ {p} : Progress(q)'
    BY <1>5, <2>1, QuietEffect DEF LoadNext
  <2>3. Loaded(p) /\ kind[p] = "rotate" /\ file["next"] \in Key
    BY <1>5, PathsDiffer DEF LoadNext, Progress, TypeOK
  <2>4. nxt'[p] = file["next"] /\ cur' = cur BY <1>5 DEF LoadNext, TypeOK
  <2>5. Progress(p)' BY <1>2, <2>2, <2>3, <2>4 DEF Progress, Loaded, disk
  <2>. QED BY <1>1, <1>3, <2>2, <2>5
<1>. QED BY <1>4, <1>5

LEMMA CreateInv ==
  ASSUME RotationInv, NEW p \in Proc, CreateKey(p) \/ CreateNext(p)
  PROVE  RotationInv'
<1>. USE DEF RotationInv
<1>1. TypeOK' BY EffectType DEF Effect
<1>2. CASE CreateKey(p)
  <2>1. PICK k \in Key : Link(p, "key", k) /\ cur' = [cur EXCEPT ![p] = k]
    BY <1>2 DEF CreateKey
  <2>2. /\ UNCHANGED <<journal, base, kind>> /\ journal = NoJournal /\ db = None
        /\ file' = [file EXCEPT !["key"] = k] /\ k \notin minted /\ minted' = minted \cup {k}
    BY <1>2, <2>1 DEF CreateKey, Link, Progress
  <2>3. Fresh' /\ Markers' /\ Disk'
    BY <2>2, PathsDiffer, KeyConstants
       DEF base, Fresh, Markers, Disk, Settled, TypeOK
  <2>4. Busy(p) /\ "settleKey" \in Label BY <1>2 DEF CreateKey, Busy, Label
  <2>5. Alone' /\ pc'[p] = "settleKey" /\ \A q \in Proc \ {p} : Progress(q)'
    BY <1>2, <2>1, <2>2, <2>4, QuietEffect DEF CreateKey, TypeOK
  <2>6. Loaded(p)' BY <2>1, <2>2, PathsDiffer DEF Loaded, TypeOK
  <2>7. Progress(p)' BY <2>5, <2>6 DEF Progress
  <2>. QED BY <1>1, <2>3, <2>5, <2>7
<1>3. CASE CreateNext(p)
  <2>1. PICK k \in Key : Link(p, "next", k) /\ nxt' = [nxt EXCEPT ![p] = k]
    BY <1>3 DEF CreateNext
  <2>2. /\ UNCHANGED <<journal, base, kind, cur>> /\ Loaded(p) /\ kind[p] = "rotate"
        /\ file' = [file EXCEPT !["next"] = k] /\ k \notin minted /\ minted' = minted \cup {k}
    BY <1>3, <2>1 DEF CreateNext, Link, Progress
  <2>3. Fresh' /\ Markers' /\ Disk'
    BY <2>2, PathsDiffer, KeyConstants
       DEF base, Fresh, Markers, Disk, Settled, Loaded, TypeOK
  <2>4. Busy(p) /\ "settleNext" \in Label BY <1>3 DEF CreateNext, Busy, Label
  <2>5. Alone' /\ pc'[p] = "settleNext" /\ \A q \in Proc \ {p} : Progress(q)'
    BY <1>3, <2>2, <2>4, QuietEffect DEF CreateNext
  <2>6. Loaded(p)' /\ nxt'[p] = k /\ file'["next"] = k
    BY <2>1, <2>2, PathsDiffer DEF Loaded, TypeOK
  <2>7. Progress(p)' BY <2>2, <2>5, <2>6 DEF Progress
  <2>. QED BY <1>1, <2>3, <2>5, <2>7
<1>. QED BY <1>2, <1>3

LEMMA SettleInv ==
  ASSUME RotationInv, NEW p \in Proc, SettleKey(p) \/ SettleNext(p)
  PROVE  RotationInv'
<1>. USE DEF RotationInv
<1>1. TypeOK' BY EffectType DEF Effect
<1>2. UNCHANGED <<file, journal, minted, base, kind, cur, nxt>>
  BY DEF SettleKey, SettleNext, Unlink
<1>3. Fresh' /\ Markers' /\ Disk'
  BY <1>2 DEF base, Fresh, Markers, Disk, Settled, Prepared, Committed, At
<1>4. PICK l \in {"open", "provision", "journal"} :
        /\ Goto(p, l)
        /\ l = "open" => kind[p] = "daemon" /\ pc[p] = "settleKey"
        /\ l = "provision" => kind[p] = "rotate" /\ pc[p] = "settleKey"
        /\ l = "journal" => pc[p] = "settleNext"
  BY DEF SettleKey, SettleNext, AfterLoad, TypeOK
<1>5. Busy(p) /\ l \in Label BY <1>4 DEF Busy, Label
<1>6. Alone' /\ pc'[p] = l /\ \A q \in Proc \ {p} : Progress(q)'
  BY <1>2, <1>4, <1>5, QuietEffect
<1>7. Progress(p)' BY <1>2, <1>4, <1>6 DEF Progress, Loaded
<1>. QED BY <1>1, <1>3, <1>6, <1>7

LEMMA JournalInv ==
  ASSUME RotationInv, NEW p \in Proc, WriteJournal(p)
  PROVE  RotationInv'
<1>. USE DEF RotationInv
<1>1. TypeOK' BY EffectType DEF Effect
<1>2. /\ UNCHANGED <<file, minted, base, kind, cur, nxt>>
      /\ journal' = [from |-> cur[p], to |-> nxt[p], shelf |-> cur[p]]
  BY DEF WriteJournal, Journal2
<1>3. /\ Loaded(p) /\ kind[p] = "rotate" /\ nxt[p] \in Key
      /\ file["next"] = nxt[p] /\ file["key"] = cur[p] /\ cur[p] \in Key
  BY DEF WriteJournal, Progress, Loaded
<1>4. \A s \in Shelf : file[s] = None
  <2>1. journal.shelf = None BY <1>3 DEF Loaded, NoJournal
  <2>. QED BY <2>1, PathsDiffer DEF Markers
<1>5. db \in {cur[p], None}
  BY <1>3 DEF Disk, Settled, Loaded
<1>6. cur[p] # nxt[p] BY <1>3, KeyConstants DEF Fresh
<1>7. At(cur[p], nxt[p], None)' /\ Journaled(p)'
  BY <1>2, <1>3, <1>4, PathsDiffer DEF At, Journaled
<1>8. Fresh' /\ Markers' BY <1>2, <1>4 DEF Fresh, Markers, base
<1>9. Disk'
  <2>1. journal'.from = cur[p] /\ journal'.to = nxt[p] /\ journal' # NoJournal
    BY <1>2, <1>3, KeyConstants DEF NoJournal
  <2>. QED BY <1>2, <1>3, <1>5, <1>6, <1>7, <2>1 DEF Disk, Prepared, At, base
<1>10. Busy(p) /\ "open" \in Label BY DEF WriteJournal, Busy, Label
<1>11. Alone' /\ pc'[p] = "open" /\ \A q \in Proc \ {p} : Progress(q)'
  BY <1>2, <1>10, QuietEffect DEF WriteJournal
<1>12. Progress(p)' BY <1>2, <1>3, <1>5, <1>7, <1>11 DEF Progress, base
<1>. QED BY <1>1, <1>8, <1>9, <1>11, <1>12

LEMMA InJournal ==
  ASSUME RotationInv, NEW p \in Proc, Journaled(p)
  PROVE  /\ journal # NoJournal /\ journal.from = cur[p] /\ journal.to = nxt[p]
         /\ cur[p] \in Key /\ nxt[p] \in Key /\ cur[p] # nxt[p]
         /\ journal.shelf \in Shelf
BY KeyConstants, PathsDiffer DEF RotationInv, Disk, Journaled, NoJournal

\* Opening, re-encrypting and closing: only the owner touches the database, and a
\* daemon that still serves without it does not.
LEMMA StoreInv ==
  ASSUME RotationInv, NEW p \in Proc, Open(p) \/ Reencrypt(p) \/ CloseStore(p)
  PROVE  RotationInv'
<1>. USE DEF RotationInv
<1>1. TypeOK' BY EffectType DEF Effect
<1>2. UNCHANGED <<file, journal, minted, kind, cur, nxt>>
  BY DEF Open, Reencrypt, CloseStore, disk
<1>3. Markers' BY <1>2 DEF Markers
<1>4. Busy(p) BY DEF Open, Reencrypt, CloseStore, Busy
<1>5. CASE Open(p)
  <2>1. db' # None /\ holder' = p
    BY <1>5, KeyConstants DEF Open, Progress, Loaded, Journaled, TypeOK
  <2>2. PICK l \in {"serve", "reencrypt"} :
          Goto(p, l) /\ (l = "serve" <=> kind[p] = "daemon")
    BY <1>5 DEF Open
  <2>3. /\ Alone' /\ pc'[p] = l /\ \A q \in Proc \ {p} : Progress(q)'
    <3>1. Alone' /\ pc'[p] = l /\ \A q \in Proc \ {p} : pc'[q] = pc[q]
      BY <1>4, <2>2, AloneStep DEF Label
    <3>. QED BY <1>2, <1>4, <2>1, <3>1, OthersServe
  <2>4. db' = cur[p] /\ holder' = p /\ file["key"] = cur[p] /\ cur[p] \in Key
    BY <1>5 DEF Open, Progress, Loaded, Journaled, At, TypeOK
  <2>5. Fresh' BY <1>2, <2>4, KeyConstants, PathsDiffer DEF Fresh
  <2>6. CASE kind[p] = "daemon"
    <3>1. Loaded(p) BY <1>5, <2>6 DEF Open, Progress
    <3>2. Disk' BY <1>2, <2>4, <3>1 DEF Disk, Settled, Loaded
    <3>3. Progress(p)' BY <1>2, <2>2, <2>3, <2>4, <2>6, KeyConstants DEF Progress
    <3>. QED BY <1>1, <1>3, <2>3, <2>5, <3>2, <3>3
  <2>7. CASE kind[p] = "rotate"
    <3>1. Journaled(p) /\ At(cur[p], nxt[p], None)
      BY <1>5, <2>7 DEF Open, Progress
    <3>2. Disk'
      BY <1>2, <2>4, <3>1, InJournal DEF Disk, Prepared, At
    <3>3. Progress(p)'
      BY <1>2, <2>2, <2>3, <2>4, <2>7, <3>1 DEF Progress, Journaled, Holding, At
    <3>. QED BY <1>1, <1>3, <2>3, <2>5, <3>2, <3>3
  <2>. QED BY <2>6, <2>7 DEF TypeOK
<1>6. CASE Reencrypt(p)
  <2>1. /\ Journaled(p) /\ Holding(p) /\ At(cur[p], nxt[p], None)
        /\ db' = nxt[p] /\ holder' = holder /\ Goto(p, "close")
    BY <1>6 DEF Reencrypt, Progress
  <2>2. db' # None /\ holder' = p BY <2>1, KeyConstants DEF Journaled, Holding
  <2>3. Alone' /\ pc'[p] = "close" /\ \A q \in Proc \ {p} : Progress(q)'
    <3>1. Alone' /\ pc'[p] = "close" /\ \A q \in Proc \ {p} : pc'[q] = pc[q]
      BY <1>4, <2>1, AloneStep DEF Label
    <3>. QED BY <1>2, <1>4, <2>2, <3>1, OthersServe
  <2>4. Fresh' BY <1>2, <2>1, PathsDiffer DEF Fresh, At
  <2>5. Disk' BY <1>2, <2>1, InJournal DEF Disk, Committed, At
  <2>6. Progress(p)' BY <1>2, <2>1, <2>3 DEF Progress, Journaled, Holding, At
  <2>. QED BY <1>1, <1>3, <2>3, <2>4, <2>5, <2>6
<1>7. CASE CloseStore(p)
  <2>1. /\ Journaled(p) /\ Holding(p) /\ db = nxt[p] /\ At(cur[p], nxt[p], None)
        /\ db' = db /\ Goto(p, "retire")
    BY <1>7 DEF CloseStore, Progress
  <2>2. Alone' /\ pc'[p] = "retire" /\ \A q \in Proc \ {p} : pc'[q] = pc[q]
    BY <1>4, <2>1, AloneStep DEF Label
  <2>3. \A q \in Proc \ {p} : Progress(q)'
    <3>1. holder' = None BY <1>7, <2>1 DEF CloseStore, Release, Holding
    <3>. QED BY <1>2, <1>4, <2>1, <2>2, <3>1, OthersServe, KeyConstants
  <2>4. Fresh' /\ Disk' BY <1>2, <2>1 DEF Fresh, Disk, Prepared, Committed, Settled, At
  <2>5. Progress(p)' BY <1>2, <2>1, <2>2 DEF Progress, Journaled, At
  <2>. QED BY <1>1, <1>3, <2>2, <2>3, <2>4, <2>5
<1>. QED BY <1>5, <1>6, <1>7

\* The renames and removals of the key files.
LEMMA FilesInv ==
  ASSUME RotationInv, NEW p \in Proc,
         Retire(p) \/ Promote(p) \/ Wipe(p) \/ Discard(p)
  PROVE  RotationInv'
<1>. USE DEF RotationInv
<1>1. TypeOK' BY EffectType DEF Effect
<1>2. UNCHANGED <<journal, minted, base, kind, cur, nxt>>
  BY DEF Retire, Promote, Wipe, Discard, Rename, Remove
<1>3. Busy(p) BY DEF Retire, Promote, Wipe, Discard, Busy
<1>4. /\ Journaled(p) /\ journal # NoJournal
      /\ journal.from = cur[p] /\ journal.to = nxt[p] /\ cur[p] # nxt[p]
      /\ journal.shelf \in Shelf
  <2>1. Journaled(p) BY DEF Retire, Promote, Wipe, Discard, Progress
  <2>. QED BY <2>1, InJournal
<1>5. Journaled(p)' BY <1>2, <1>4 DEF Journaled
<1>6. CASE Retire(p)
  <2>1. db = nxt[p] /\ At(cur[p], nxt[p], None) /\ Goto(p, "promote")
        /\ file' = [file EXCEPT !["key"] = None, ![journal.shelf] = file["key"]]
    BY <1>6 DEF Retire, Rename, Progress
  <2>2. At(None, nxt[p], cur[p])'
    BY <1>2, <1>4, <2>1, PathsDiffer DEF At, Journaled, TypeOK
  <2>3. Alone' /\ pc'[p] = "promote" /\ \A q \in Proc \ {p} : Progress(q)'
    BY <1>2, <1>3, <2>1, QuietEffect DEF Label
  <2>4. Fresh' /\ Markers' /\ Disk'
    <3>1. Fresh' BY <1>2, <1>4, <2>1, <2>2, PathsDiffer, KeyConstants DEF Fresh, Journaled, TypeOK, base
    <3>2. Markers' BY <1>2, <1>4, <2>1, PathsDiffer DEF Markers, TypeOK
    <3>3. Disk' BY <1>2, <1>4, <2>1, <2>2 DEF Disk, Committed, Journaled, base
    <3>. QED BY <3>1, <3>2, <3>3
  <2>5. Progress(p)' BY <1>2, <1>5, <2>1, <2>2, <2>3 DEF Progress, base
  <2>. QED BY <1>1, <2>3, <2>4, <2>5
<1>7. CASE Promote(p)
  <2>1. db = nxt[p] /\ At(None, nxt[p], cur[p]) /\ Goto(p, "wipe")
        /\ file' = [file EXCEPT !["next"] = None, !["key"] = file["next"]]
    BY <1>7 DEF Promote, Rename, Progress
  <2>2. At(nxt[p], None, cur[p])'
    BY <1>2, <1>4, <2>1, PathsDiffer DEF At, Journaled, TypeOK
  <2>3. Alone' /\ pc'[p] = "wipe" /\ \A q \in Proc \ {p} : Progress(q)'
    BY <1>2, <1>3, <2>1, QuietEffect DEF Label
  <2>4. Fresh' /\ Markers' /\ Disk'
    <3>1. Fresh' BY <1>2, <1>4, <2>1, <2>2, PathsDiffer, KeyConstants DEF At, Fresh, Journaled, TypeOK, base
    <3>2. Markers' BY <1>2, <1>4, <2>1, PathsDiffer DEF Markers, TypeOK
    <3>3. Disk' BY <1>2, <1>4, <2>1, <2>2 DEF Disk, Committed, Journaled, base
    <3>. QED BY <3>1, <3>2, <3>3
  <2>5. Progress(p)' BY <1>2, <1>5, <2>1, <2>2, <2>3 DEF Progress, base
  <2>. QED BY <1>1, <2>3, <2>4, <2>5
<1>8. CASE Wipe(p)
  <2>1. db = nxt[p] /\ At(nxt[p], None, cur[p]) /\ Goto(p, "unjournal")
        /\ file' = [file EXCEPT ![journal.shelf] = None]
    BY <1>8 DEF Wipe, Remove, Progress
  <2>2. At(nxt[p], None, None)'
    BY <1>2, <1>4, <2>1, PathsDiffer DEF At, Journaled, TypeOK
  <2>3. Alone' /\ pc'[p] = "unjournal" /\ \A q \in Proc \ {p} : Progress(q)'
    BY <1>2, <1>3, <2>1, QuietEffect DEF Label
  <2>4. Fresh' /\ Markers' /\ Disk'
    <3>1. Fresh' BY <1>2, <1>4, <2>1, <2>2, PathsDiffer, KeyConstants DEF At, Fresh, Journaled, TypeOK, base
    <3>2. Markers' BY <1>2, <1>4, <2>1, PathsDiffer DEF Markers, TypeOK
    <3>3. Disk' BY <1>2, <1>4, <2>1, <2>2 DEF Disk, Committed, Journaled, base
    <3>. QED BY <3>1, <3>2, <3>3
  <2>5. Progress(p)' BY <1>2, <1>5, <2>1, <2>2, <2>3 DEF Progress, base
  <2>. QED BY <1>1, <2>3, <2>4, <2>5
<1>9. CASE Discard(p)
  <2>1. db = cur[p] /\ At(cur[p], nxt[p], None) /\ Goto(p, "unjournal")
        /\ file' = [file EXCEPT !["next"] = None]
    BY <1>9 DEF Discard, Remove, Progress
  <2>2. At(cur[p], None, None)'
    BY <1>2, <1>4, <2>1, PathsDiffer DEF At, Journaled, TypeOK
  <2>3. Alone' /\ pc'[p] = "unjournal" /\ \A q \in Proc \ {p} : Progress(q)'
    BY <1>2, <1>3, <2>1, QuietEffect DEF Label
  <2>4. Fresh' /\ Markers' /\ Disk'
    <3>1. Fresh' BY <1>2, <1>4, <2>1, <2>2, PathsDiffer, KeyConstants DEF At, Fresh, Journaled, TypeOK, base
    <3>2. Markers' BY <1>2, <1>4, <2>1, PathsDiffer DEF Markers, TypeOK
    <3>3. Disk' BY <1>2, <1>4, <2>1, <2>2 DEF Disk, Prepared, Journaled, base
    <3>. QED BY <3>1, <3>2, <3>3
  <2>5. Progress(p)' BY <1>2, <1>5, <2>1, <2>2, <2>3 DEF Progress, base
  <2>. QED BY <1>1, <2>3, <2>4, <2>5
<1>. QED BY <1>6, <1>7, <1>8, <1>9

LEMMA UnjournalInv ==
  ASSUME RotationInv, NEW p \in Proc, Unjournal(p)
  PROVE  RotationInv'
<1>. USE DEF RotationInv
<1>1. TypeOK' BY EffectType DEF Effect
<1>2. UNCHANGED <<file, minted, base, kind, cur, nxt>> /\ journal' = NoJournal
  BY DEF Unjournal
<1>3. file["key"] = db /\ \A s \in Shelf : file[s] = None
  BY DEF Unjournal, Progress, Journaled, At, Markers
<1>4. Fresh' /\ Markers' /\ Disk'
  BY <1>2, <1>3 DEF base, Fresh, Markers, Disk, Settled
<1>5. PICK l \in {"load", "idle"} : Goto(p, l) BY DEF Unjournal
<1>6. Busy(p) /\ l \in Label BY DEF Unjournal, Busy, Label
<1>7. Alone' /\ pc'[p] = l /\ \A q \in Proc \ {p} : Progress(q)'
  BY <1>2, <1>5, <1>6, QuietEffect
<1>8. Progress(p)' BY <1>2, <1>7 DEF Progress
<1>. QED BY <1>1, <1>4, <1>7, <1>8

LEMMA Stuttering ==
  ASSUME RotationInv, UNCHANGED vars
  PROVE  RotationInv'
BY DEF vars, disk, base, progs, RotationInv, TypeOK, Alone, Busy, Fresh, Markers, Disk,
       Settled, Prepared, Committed, Progress, Journaled, Holding, Loaded, At

LEMMA RotationStep ==
  ASSUME RotationInv, [Next]_vars
  PROVE  RotationInv'
<1>1. ASSUME NEW p \in Proc, Effect(p) PROVE RotationInv'
  BY <1>1, LoadInv, CreateInv, SettleInv, JournalInv, StoreInv, FilesInv, UnjournalInv,
     StopInv DEF Effect
<1>2. ASSUME NEW p \in Proc, Begin(p) \/ Stop(p) \/ Die(p) PROVE RotationInv'
  BY <1>2, BeginInv, StopInv
<1>. QED BY <1>1, <1>2, LeaseInv, Stuttering DEF Next, Work, Serving

LEMMA RotationInit == Init => RotationInv
<1>. SUFFICES ASSUME Init PROVE RotationInv OBVIOUS
<1>1. TypeOK BY InitTypes
<1>2. Alone BY DEF Init, Alone, Busy
<1>3. Fresh /\ Markers /\ Disk
  <2>1. CASE FirstInit
    BY <2>1, PathsDiffer DEF FirstInit, Fresh, Markers, Disk, Settled
  <2>2. CASE LegacyInit
    <3>1. PICK c, n \in Key :
            /\ c # n /\ minted = {c, n} /\ journal = Journal1(c, n)
            /\ db \in {c, n}
            /\ \A s \in Key : file[s] = None
            /\ Prepared(c, n) \/ Committed(c, n)
      BY <2>2, PathsDiffer
         DEF LegacyInit, Journal1, Prepared, Committed, At, Path
    <3>2. /\ journal # NoJournal /\ journal.from = c /\ journal.to = n
          /\ journal.shelf = "previous"
      BY <3>1, PathsDiffer DEF Journal1, NoJournal
    <3>3. Fresh /\ Markers
      BY <3>1, <3>2, PathsDiffer, KeyConstants
         DEF Fresh, Markers, Prepared, Committed, At, Path, Shelf
    <3>. QED BY <3>1, <3>2, <3>3 DEF Disk
  <2>. QED BY <2>1, <2>2 DEF Init
<1>4. \A p \in Proc : Progress(p) BY DEF Init, Progress
<1>. QED BY <1>1, <1>2, <1>3, <1>4 DEF RotationInv

LEMMA RotationInvariant == Spec => []RotationInv
BY RotationInit, RotationStep, PTL DEF Spec
----------------------------------------------------------------------------
(* The keys that matter are durable: their temporary links are gone. *)

Durable ==
  /\ db \notin linked
  /\ journal # NoJournal => journal.from \notin linked /\ journal.to \notin linked
  /\ \A p \in Proc : pc[p] \in {"provision", "settleNext", "journal", "open"} =>
       cur[p] \notin linked
  /\ \A p \in Proc : pc[p] = "journal" => nxt[p] \notin linked

\* Only a new key gets a link, and a new key is none that anyone works with.
LEMMA DurableLink ==
  ASSUME RotationInv, Durable, NEW p \in Proc, CreateKey(p) \/ CreateNext(p)
  PROVE  Durable'
<1>. USE DEF RotationInv
<1>1. PICK k \in Key : /\ k \notin minted /\ linked' = linked \cup {k}
                       /\ journal' = journal /\ db' = db
  BY DEF CreateKey, CreateNext, Link, base
<1>2. journal = NoJournal /\ db # k
  BY <1>1, KeyConstants DEF CreateKey, CreateNext, Progress, Loaded, Fresh
<1>3. \A q \in Proc \ {p} : pc'[q] \in {"idle", "serve"}
  BY DEF CreateKey, CreateNext, Goto, TypeOK, Alone, Busy
<1>4. CASE CreateKey(p)
  <2>1. pc'[p] = "settleKey" BY <1>4 DEF CreateKey, Goto, TypeOK
  <2>. QED BY <1>1, <1>2, <1>3, <2>1 DEF Durable
<1>5. CASE CreateNext(p)
  <2>1. pc'[p] = "settleNext" /\ cur' = cur BY <1>5 DEF CreateNext, Goto, TypeOK
  <2>2. cur[p] \in minted
    BY <1>5, PathsDiffer, KeyConstants DEF CreateNext, Progress, Loaded, Fresh
  <2>3. cur[p] \notin linked BY <1>5 DEF CreateNext, Durable
  <2>. QED BY <1>1, <1>2, <1>3, <2>1, <2>2, <2>3 DEF Durable
<1>. QED BY <1>4, <1>5

\* Every other step adds no link, and takes up only keys it has found durable.
LEMMA DurableElse ==
  ASSUME RotationInv, Durable, NEW p \in Proc,
         linked' \subseteq linked,
         \A q \in Proc \ {p} : pc'[q] = pc[q] /\ cur'[q] = cur[q] /\ nxt'[q] = nxt[q],
         db' = db \/ db' \notin linked,
         \/ journal' = journal \/ journal' = NoJournal
         \/ journal'.from \notin linked' /\ journal'.to \notin linked',
         pc'[p] \in {"provision", "settleNext", "journal", "open"} => cur'[p] \notin linked',
         pc'[p] = "journal" => nxt'[p] \notin linked'
  PROVE  Durable'
BY DEF Durable

LEMMA DurableStep ==
  ASSUME RotationInv, Durable, [Next]_vars
  PROVE  Durable'
<1>. USE DEF RotationInv
<1>1. CASE UNCHANGED vars BY <1>1 DEF vars, disk, base, progs, Durable
<1>2. ASSUME NEW p \in Proc, Begin(p) \/ Stop(p) \/ Die(p) \/ Throw(p) PROVE Durable'
  <2>1. UNCHANGED <<linked, journal, db>>
    BY <1>2 DEF Begin, Stop, Die, Throw, disk, base
  <2>2. \A q \in Proc \ {p} : pc'[q] = pc[q] /\ cur'[q] = cur[q] /\ nxt'[q] = nxt[q]
    BY <1>2 DEF Begin, Stop, Die, Throw, Goto, TypeOK
  <2>3. pc'[p] \notin {"provision", "settleNext", "journal", "open"}
    BY <1>2 DEF Begin, Stop, Die, Throw, Goto, TypeOK, Recoverable, Resume
  <2>4. linked' \subseteq linked /\ db' = db /\ journal' = journal BY <2>1
  <2>. QED BY <2>2, <2>3, <2>4, DurableElse
<1>3. ASSUME NEW p \in Proc, LoadKey(p) \/ LoadNext(p) PROVE Durable'
  BY <1>3, DurableElse
     DEF LoadKey, LoadNext, AfterLoad, Readable, Goto, TypeOK, disk, base, Durable
<1>4. ASSUME NEW p \in Proc, SettleKey(p) \/ SettleNext(p) PROVE Durable'
  BY <1>4, DurableElse
     DEF SettleKey, SettleNext, Unlink, AfterLoad, Goto, TypeOK, base, Durable
<1>5. ASSUME NEW p \in Proc, WriteJournal(p) PROVE Durable'
  BY <1>5, DurableElse DEF WriteJournal, Journal2, Goto, TypeOK, base, Durable
<1>6. ASSUME NEW p \in Proc, Open(p) PROVE Durable'
  BY <1>6, DurableElse DEF Open, Goto, TypeOK, disk, Durable
<1>7. ASSUME NEW p \in Proc, Reencrypt(p) \/ CloseStore(p) PROVE Durable'
  <2>1. Reencrypt(p) => db' \notin linked
    BY InJournal DEF Reencrypt, Progress, Durable
  <2>2. /\ linked' = linked /\ journal' = journal /\ cur' = cur /\ nxt' = nxt
        /\ db' = db \/ db' \notin linked
    BY <1>7, <2>1 DEF Reencrypt, CloseStore, disk
  <2>3. /\ \A q \in Proc \ {p} : pc'[q] = pc[q]
        /\ pc'[p] \in {"close", "retire"}
    BY <1>7 DEF Reencrypt, CloseStore, Goto, TypeOK
  <2>. QED BY <2>2, <2>3, DurableElse
<1>8. ASSUME NEW p \in Proc, Retire(p) \/ Promote(p) \/ Wipe(p) \/ Discard(p)
      PROVE  Durable'
  <2>1. UNCHANGED <<linked, journal, db, cur, nxt>>
    BY <1>8 DEF Retire, Promote, Wipe, Discard, Rename, Remove, base
  <2>2. /\ \A q \in Proc \ {p} : pc'[q] = pc[q]
        /\ pc'[p] \in {"promote", "wipe", "unjournal"}
    BY <1>8 DEF Retire, Promote, Wipe, Discard, Goto, TypeOK
  <2>. QED BY <2>1, <2>2, DurableElse
<1>9. ASSUME NEW p \in Proc, Unjournal(p) PROVE Durable'
  <2>1. UNCHANGED <<linked, db, cur, nxt>> /\ journal' = NoJournal
    BY <1>9 DEF Unjournal, base
  <2>2. /\ \A q \in Proc \ {p} : pc'[q] = pc[q]
        /\ pc'[p] \in {"load", "idle"}
    BY <1>9 DEF Unjournal, Goto, TypeOK
  <2>. QED BY <2>1, <2>2, DurableElse
<1>10. CASE LeaseLapses \/ \E p \in Proc : Renew(p) \/ StoreSecret(p)
  BY <1>10 DEF LeaseLapses, Renew, StoreSecret, disk, progs, Durable
<1>. QED
  BY <1>1, <1>2, <1>3, <1>4, <1>5, <1>6, <1>7, <1>8, <1>9, <1>10, DurableLink
     DEF Next, Work, Serving, Effect

LEMMA DurableInvariant == Spec => []Durable
<1>1. Init => Durable BY DEF Init, Durable
<1>. QED BY <1>1, DurableStep, RotationInvariant, PTL DEF Spec
----------------------------------------------------------------------------
(* What the invariant gives. *)

LEMMA ReadableAlways ==
  ASSUME RotationInv, Durable
  PROVE  DatabaseReadable
<1>. SUFFICES ASSUME db # None PROVE DatabaseReadable
  BY DEF DatabaseReadable
<1>1. CASE journal = NoJournal
  BY <1>1 DEF RotationInv, Disk, Settled, DatabaseReadable, Canonical, Durable
<1>2. CASE journal # NoJournal
  <2>1. Prepared(journal.from, journal.to) \/ Committed(journal.from, journal.to)
    BY <1>2 DEF RotationInv, Disk
  <2>2. ~Unexpected
    BY PathsDiffer DEF RotationInv, Markers, Unexpected
  <2>3. \A q \in {"key", "next", "previous", journal.shelf} : Readable(q)
    <3>1. /\ file["key"] \in {journal.from, journal.to, None}
          /\ file["next"] \in {journal.to, None}
          /\ file[journal.shelf] \in {journal.from, None}
          /\ file["previous"] \in {file[journal.shelf], None}
      BY <2>1, PathsDiffer DEF Prepared, Committed, At, RotationInv, Markers
    <3>2. {journal.from, journal.to, None} \cap linked = {}
      BY <1>2, KeyConstants DEF Durable, RotationInv, TypeOK
    <3>. QED BY <3>1, <3>2 DEF Readable
  <2>4. CASE Prepared(journal.from, journal.to)
    <3>1. Resume \in {"discard", "unjournal"} /\ file["key"] = db
      BY <2>2, <2>4 DEF Prepared, Resume, At
    <3>. QED BY <2>3, <3>1 DEF DatabaseReadable, Canonical, Recoverable, Durable
  <2>5. CASE Committed(journal.from, journal.to)
    <3>1. \/ Resume \in {"retire", "promote"} /\ file["next"] = db
          \/ Resume \in {"wipe", "unjournal"} /\ file["key"] = db
      BY <1>2, <2>2, <2>5, KeyConstants DEF Committed, Resume, At, RotationInv, Disk
    <3>. QED BY <1>2, <2>3, <3>1 DEF DatabaseReadable, Canonical, Recoverable, Durable
  <2>. QED BY <2>1, <2>4, <2>5
<1>. QED BY <1>1, <1>2

\* Whatever a rotation, a recovery or a start was doing when it died, the key that
\* opens the encrypted database is on disk where the next start finds it
\* (recoverVersionTwoRotation, rotateCredentialMasterKey).
THEOREM RotationKeepsDatabaseReadable == Spec => []DatabaseReadable
BY ReadableAlways, RotationInvariant, DurableInvariant, PTL

\* A retired master key stays on disk only while a journal names it for removal.
THEOREM RotationLeavesNoKeyBehind == Spec => []NoStrayKeys
<1>1. RotationInv => NoStrayKeys
  BY PathsDiffer DEF RotationInv, Markers, NoStrayKeys, NoJournal
<1>. QED BY <1>1, RotationInvariant, PTL

LEMMA SecretsStep ==
  ASSUME RotationInv, SecretsReadable, [Next]_vars
  PROVE  SecretsReadable'
<1>. USE DEF RotationInv, SecretsReadable
<1>1. ASSUME UNCHANGED <<db, sealed>> PROVE SecretsReadable' BY <1>1
<1>2. ASSUME NEW p \in Proc, Open(p) PROVE SecretsReadable'
  BY <1>2 DEF Open, Fits
<1>3. ASSUME NEW p \in Proc, Reencrypt(p) PROVE SecretsReadable'
  BY <1>3 DEF Reencrypt
<1>4. ASSUME NEW p \in Proc, StoreSecret(p) PROVE SecretsReadable'
  <2>1. cur[p] = db BY <1>4 DEF StoreSecret, Holds, Progress
  <2>. QED BY <1>4, <2>1 DEF StoreSecret
<1>5. ASSUME NEW p \in Proc,
             \/ Begin(p) \/ Stop(p) \/ Die(p) \/ Throw(p) \/ Renew(p) \/ LoadKey(p)
             \/ CreateKey(p) \/ SettleKey(p) \/ LoadNext(p) \/ CreateNext(p)
             \/ SettleNext(p) \/ WriteJournal(p) \/ CloseStore(p) \/ Retire(p)
             \/ Promote(p) \/ Wipe(p) \/ Discard(p) \/ Unjournal(p)
      PROVE  UNCHANGED <<db, sealed>>
  BY <1>5 DEF Begin, Stop, Die, Throw, Renew, LoadKey, CreateKey, SettleKey, LoadNext,
     CreateNext, SettleNext, WriteJournal, CloseStore, Retire, Promote, Wipe, Discard,
     Unjournal, Link, Unlink, Rename, Remove, base
<1>6. CASE LeaseLapses BY <1>1, <1>6 DEF LeaseLapses
<1>7. CASE UNCHANGED vars BY <1>1, <1>7 DEF vars, base
<1>. QED BY <1>1, <1>2, <1>3, <1>4, <1>5, <1>6, <1>7 DEF Next, Work, Serving, Effect

\* Every stored secret is under the key of the database, so that the next start can
\* read them all (validateSecretState): a daemon that lost the database to a rotation
\* stores nothing more under the key from before (assertOwnership in setChannelState).
THEOREM SecretsStayReadable == Spec => []SecretsReadable
<1>1. Init => SecretsReadable
  BY DEF Init, FirstInit, LegacyInit, SecretsReadable
<1>. QED BY <1>1, SecretsStep, RotationInvariant, PTL DEF Spec

\* An encrypted database changes keys only by rotateSecrets, under a journal that
\* names both keys, and only to a prepared key that a later start can read.
THEOREM KeysChangeOnlyAsJournaled == Spec => OnlyAsJournaled
<1>1. ASSUME RotationInv, Durable, [Next]_vars, db # None, db' # db
      PROVE  /\ journal.from = db /\ journal.to = db'
             /\ file["next"] = db' /\ db' \notin linked
  <2>1. PICK p \in Proc : Reencrypt(p)
    BY <1>1 DEF Fits, Next, Work, Serving, Renew, LeaseLapses, StoreSecret, vars, Begin,
       Effect, Stop, Die, LoadKey, CreateKey, SettleKey,
       LoadNext, CreateNext, SettleNext, WriteJournal, Open, CloseStore, Retire,
       Promote, Wipe, Discard, Unjournal, Throw, Link, Unlink, Rename, Remove, base
  <2>2. Journaled(p) /\ db = cur[p] /\ db' = nxt[p] /\ file["next"] = nxt[p]
    BY <1>1, <2>1 DEF RotationInv, Progress, Reencrypt, At
  <2>3. journal.to \notin linked
    BY <1>1, <2>2, InJournal DEF Durable
  <2>. QED BY <2>2, <2>3 DEF Journaled
<1>2. RotationInv /\ Durable /\ [Next]_vars =>
        [db # None /\ db' # db =>
           /\ journal.from = db /\ journal.to = db'
           /\ file["next"] = db' /\ db' \notin linked]_vars
  BY <1>1
<1>. QED BY <1>2, DurableInvariant, RotationInvariant, PTL DEF Spec, OnlyAsJournaled

\* Every rename and removal of a rotation or a recovery finds its file, replaces no
\* key and spares the database's: a program that is not killed never gets stuck
\* between two of them (rotateCredentialMasterKey, recoverVersionTwoRotation).
THEOREM RotationGoesOn == Spec => []EffectsFindTheirFiles
<1>1. RotationInv => EffectsFindTheirFiles
  <2>. SUFFICES ASSUME RotationInv, NEW p \in Proc
                PROVE  EffectsFindTheirFiles!(p)
    BY DEF EffectsFindTheirFiles
  <2>1. Progress(p) BY DEF RotationInv
  <2>2. Journaled(p) => /\ journal # NoJournal /\ cur[p] # nxt[p]
                        /\ None \notin {cur[p], nxt[p]}
    BY InJournal, KeyConstants
  <2>3. file[journal.shelf] = None => \A s \in Shelf : file[s] = None
    BY DEF RotationInv, Markers
  <2>. QED BY <2>1, <2>2, <2>3 DEF Progress, Holding, At
<1>. QED BY <1>1, RotationInvariant, PTL
----------------------------------------------------------------------------
(* The custody of the key.  What a start finds is the database's key wherever *)
(* there is one, so a step of the custody is a step that changes the key of   *)
(* the database, or what "key" and "next" hold besides it.                    *)

FindsKey == Found = IF db = None THEN file["key"] ELSE db

LEMMA KeyFound ==
  ASSUME RotationInv, Durable
  PROVE  FindsKey
<1>. USE DEF FindsKey
<1>1. CASE db # None BY <1>1, ReadableAlways DEF DatabaseReadable, Found
<1>2. CASE db = None
  <2>1. journal # NoJournal => Resume = "refused"
    BY <1>2, KeyConstants DEF RotationInv, Disk, Resume
  <2>. QED BY <1>2, <2>1 DEF Found, Canonical
<1>. QED BY <1>1, <1>2

LEMMA CustodyStep ==
  ASSUME RotationInv, FindsKey, FindsKey', [Next]_vars
  PROVE  [Custody!Next]_(Custody!vars)
<1>. USE DEF RotationInv
<1>1. /\ Found = IF db = None THEN file["key"] ELSE db
      /\ Found' = IF db' = None THEN file'["key"] ELSE db'
  BY DEF FindsKey
<1>2. ASSUME UNCHANGED <<db, minted>>, file'["key"] = file["key"] \/ db # None,
             Spare' = Spare
      PROVE  UNCHANGED Custody!vars
  BY <1>1, <1>2 DEF Custody!vars
<1>3. ASSUME UNCHANGED <<db, minted, file>> PROVE UNCHANGED Custody!vars
  BY <1>2, <1>3 DEF Spare
<1>4. ASSUME NEW p \in Proc, CreateKey(p) PROVE Custody!DrawKey
  <2>1. PICK k \in Key : Link(p, "key", k) BY <1>4 DEF CreateKey
  <2>2. /\ db = None /\ db' = None /\ file["key"] = None /\ file'["key"] = k
        /\ file'["next"] = file["next"] /\ k \notin minted /\ minted' = minted \cup {k}
    BY <1>4, <2>1, PathsDiffer DEF CreateKey, Link, base, TypeOK
  <2>. QED BY <1>1, <2>2 DEF Custody!DrawKey, Custody!Draw, Spare
<1>5. ASSUME NEW p \in Proc, CreateNext(p) PROVE Custody!DrawSpare
  <2>1. PICK k \in Key : Link(p, "next", k) BY <1>5 DEF CreateNext
  <2>2. /\ db' = db /\ file["next"] = None /\ file'["next"] = k
        /\ file'["key"] = file["key"] /\ k \notin minted /\ minted' = minted \cup {k}
    BY <2>1, PathsDiffer DEF Link, base, TypeOK
  <2>3. db # k BY <2>1, <2>2, KeyConstants DEF Fresh
  <2>. QED BY <1>1, <2>2, <2>3 DEF Custody!DrawSpare, Custody!Draw, Spare
<1>6. ASSUME NEW p \in Proc, Open(p) PROVE Custody!Encrypt \/ UNCHANGED Custody!vars
  <2>1. UNCHANGED <<file, minted>> /\ db' = cur[p] /\ db \in {None, cur[p]}
    BY <1>6 DEF Open, Fits, disk
  <2>2. CASE db = cur[p] BY <1>3, <2>1, <2>2
  <2>3. CASE db = None
    <3>1. file["key"] = cur[p] /\ cur[p] \in Key
      BY <1>6 DEF Open, Progress, Loaded, Journaled, At, TypeOK
    <3>2. cur[p] # None BY <3>1, KeyConstants
    <3>3. Spare' = Spare BY <2>1, <2>3, <3>1, <3>2 DEF Spare, Fresh
    <3>. QED BY <1>1, <2>1, <2>3, <3>1, <3>2, <3>3 DEF Custody!Encrypt
  <2>. QED BY <2>1, <2>2, <2>3
<1>7. ASSUME NEW p \in Proc, Reencrypt(p) PROVE Custody!Rekey
  <2>1. /\ UNCHANGED <<file, minted>> /\ db = cur[p] /\ db' = nxt[p]
        /\ file["next"] = nxt[p] /\ cur[p] # nxt[p] /\ {cur[p], nxt[p]} \subseteq Key
    BY <1>7, InJournal DEF Reencrypt, disk, Progress, Journaled, At
  <2>2. None \notin {cur[p], nxt[p]} BY <2>1, KeyConstants
  <2>. QED BY <1>1, <2>1, <2>2 DEF Custody!Rekey, Spare
<1>8. ASSUME NEW p \in Proc, Discard(p) PROVE Custody!DropSpare
  <2>1. /\ UNCHANGED <<db, minted>> /\ file' = [file EXCEPT !["next"] = None]
        /\ db = cur[p] /\ file["next"] = nxt[p] /\ cur[p] # nxt[p]
        /\ {cur[p], nxt[p]} \subseteq Key
    BY <1>8, InJournal DEF Discard, Remove, base, Progress, Journaled, At
  <2>2. None \notin {cur[p], nxt[p]} BY <2>1, KeyConstants
  <2>3. file'["next"] = None /\ file'["key"] = file["key"]
    BY <2>1, PathsDiffer DEF TypeOK
  <2>. QED BY <1>1, <2>1, <2>2, <2>3 DEF Custody!DropSpare, Spare
<1>9. ASSUME NEW p \in Proc, Retire(p) \/ Promote(p) \/ Wipe(p)
      PROVE  UNCHANGED Custody!vars
  <2>1. /\ UNCHANGED <<db, minted>> /\ db = nxt[p] /\ nxt[p] \in Key
        /\ journal.shelf \in Path /\ journal.shelf # "next"
    BY <1>9, InJournal, PathsDiffer
       DEF Retire, Promote, Wipe, Rename, Remove, base, Progress, Journaled
  <2>2. CASE Promote(p)
    <3>1. file["next"] = db /\ file'["next"] = None
      BY <1>9, <2>2, PathsDiffer DEF Promote, Rename, Progress, At, TypeOK
    <3>. QED BY <1>2, <2>1, <3>1, KeyConstants DEF Spare
  <2>3. CASE Retire(p) \/ Wipe(p)
    <3>1. file'["next"] = file["next"]
      BY <2>1, <2>3, PathsDiffer DEF Retire, Wipe, Rename, Remove, TypeOK
    <3>. QED BY <1>2, <2>1, <3>1, KeyConstants DEF Spare
  <2>. QED BY <1>9, <2>2, <2>3
<1>10. ASSUME NEW p \in Proc,
              \/ Begin(p) \/ Stop(p) \/ Die(p) \/ Throw(p) \/ LoadKey(p) \/ LoadNext(p)
              \/ SettleKey(p) \/ SettleNext(p) \/ WriteJournal(p) \/ CloseStore(p)
              \/ Unjournal(p) \/ Renew(p) \/ StoreSecret(p)
       PROVE  UNCHANGED Custody!vars
  <2>1. UNCHANGED <<db, minted, file>>
    BY <1>10 DEF Begin, Stop, Die, Throw, LoadKey, LoadNext, SettleKey, SettleNext, Unlink,
                 WriteJournal, CloseStore, Unjournal, Renew, StoreSecret, disk, base
  <2>. QED BY <1>3, <2>1
<1>11. CASE UNCHANGED vars BY <1>3, <1>11 DEF vars, disk, base
<1>. QED
  <2>1. ASSUME LeaseLapses PROVE UNCHANGED <<db, minted, file>>
    BY <2>1 DEF LeaseLapses, disk
  <2>. QED
    BY <1>3, <1>4, <1>5, <1>6, <1>7, <1>8, <1>9, <1>10, <1>11, <2>1
       DEF Next, Work, Serving, Effect, Custody!Next

LEMMA CustodyInit ==
  ASSUME Init
  PROVE  Custody!Init
<1>1. RotationInv /\ Durable BY RotationInit DEF Init, Durable
<1>2. Found = IF db = None THEN file["key"] ELSE db BY <1>1, KeyFound DEF FindsKey
<1>3. CASE FirstInit
  <2>1. db = None /\ file["key"] = None /\ file["next"] = None /\ minted = {}
    BY <1>3, PathsDiffer DEF FirstInit
  <2>. QED BY <1>2, <2>1 DEF Custody!Init, Spare
<1>4. CASE LegacyInit
  <2>1. minted \subseteq Key /\ db \in minted /\ file["next"] \in minted \cup {None}
    BY <1>1, <1>4, PathsDiffer DEF LegacyInit, RotationInv, TypeOK, Fresh
  <2>2. Found = db /\ db # None BY <1>2, <2>1, KeyConstants
  <2>. QED BY <2>1, <2>2 DEF Custody!Init, Spare
<1>. QED BY <1>3, <1>4 DEF Init

\* A rotation is atomic: whatever program is interrupted wherever, the key of the
\* database and the key the next start finds change in one step, to a key that was
\* never in use (rotateCredentialMasterKey, recoverInterruptedRotation).
THEOREM RotationIsAtomic == Spec => ImplementsKeyCustody
<1>1. RotationInv /\ FindsKey /\ FindsKey' /\ [Next]_vars
        => [Custody!Next]_(Custody!vars)
  BY CustodyStep
<1>2. RotationInv /\ Durable => FindsKey BY KeyFound
<1>. QED
  BY <1>1, <1>2, CustodyInit, RotationInvariant, DurableInvariant, PTL
     DEF Spec, ImplementsKeyCustody, Custody!Spec
================================================================================
