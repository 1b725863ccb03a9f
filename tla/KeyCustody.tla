------------------------------- MODULE KeyCustody -------------------------------
(***************************************************************************)
(* What the custody of the credential master key promises, on POSIX and on *)
(* Windows, without files, journals, markers, helpers or crashes: at every *)
(* moment there is one key that opens the database, and it is the key that *)
(* the next start finds.  A rotation replaces both in one step, by a spare *)
(* key that was drawn for it.  A key that was replaced or dropped never    *)
(* comes back, for a spare key is always a new one.                        *)
(***************************************************************************)
CONSTANTS
  Key,
  None

VARIABLES
  secret,  \* the key the database is encrypted under, or None
  found,   \* the key a start will find
  spare,   \* the key prepared for a rotation
  drawn    \* keys ever drawn

vars == <<secret, found, spare, drawn>>

\* The custody may be taken over from an earlier release.
Init ==
  /\ drawn \subseteq Key /\ found \in drawn \cup {None}
  /\ secret \in {None, found}
  /\ spare \in (drawn \cup {None}) \ ({found} \ {None})

Draw(k) == k \in Key \ drawn /\ drawn' = drawn \cup {k}

DrawKey ==
  /\ secret = None /\ found = None
  /\ \E k \in Key : Draw(k) /\ found' = k
  /\ UNCHANGED <<secret, spare>>

DrawSpare ==
  /\ spare = None
  /\ \E k \in Key : Draw(k) /\ spare' = k
  /\ UNCHANGED <<secret, found>>

DropSpare ==
  /\ spare # None /\ spare' = None
  /\ UNCHANGED <<secret, found, drawn>>

Encrypt ==
  /\ secret = None /\ found # None /\ secret' = found
  /\ UNCHANGED <<found, spare, drawn>>

Rekey ==
  /\ secret # None /\ spare # None
  /\ secret' = spare /\ found' = spare /\ spare' = None
  /\ UNCHANGED drawn

Next == DrawKey \/ DrawSpare \/ DropSpare \/ Encrypt \/ Rekey

Spec == Init /\ [][Next]_vars
=================================================================================
