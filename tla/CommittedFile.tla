---------------------------- MODULE CommittedFile ----------------------------
(***************************************************************************)
(* What a WAL region promises to its users: a file that changes only by    *)
(* whole transactions.  A commit is asked for, and then either takes       *)
(* effect entirely or not at all; nothing else, a crash included, changes  *)
(* the file.  Wal.tla is shown to implement this specification.            *)
(***************************************************************************)
EXTENDS FileData

VARIABLES
  file,      \* the committed contents
  inflight   \* the update whose commit was asked for, or None

cfVars == <<file, inflight>>

Init ==
  /\ file = EmptyFile
  /\ inflight = None

Ask(u) ==
  /\ inflight = None
  /\ inflight' = u
  /\ UNCHANGED file

Succeed ==
  /\ inflight # None
  /\ file' = Apply(file, inflight)
  /\ inflight' = None

Fail ==
  /\ inflight # None
  /\ inflight' = None
  /\ UNCHANGED file

Next ==
  \/ \E u \in Updates : Ask(u)
  \/ Succeed
  \/ Fail

Spec == Init /\ [][Next]_cfVars

==============================================================================
