---------------------------- MODULE MCSessionFiles -----------------------------
(***************************************************************************)
(* What keeps the files of one Codex session in order: the lock directory  *)
(* of its rebase epochs, the lock file of its journal, and the journal     *)
(* itself.  A behaviour is one of them; the others stay as they began.     *)
(***************************************************************************)
EXTENDS SessionLock, JournalLock, CodexJournal, TLC

CONSTANTS p1, p2, p3, c1, c2, a, b

VARIABLE file

fileVars == <<file, vars, jlVars, jrVars>>

FileInit ==
  file \in {"epochs", "lock", "journal"} /\ Init /\ JournalLockInit /\ JournalInit

EpochLock   == file = "epochs" /\ Next /\ UNCHANGED <<file, jlVars, jrVars>>
JournalFile == file = "lock" /\ JournalLockNext /\ UNCHANGED <<file, vars, jrVars>>
Journal     == file = "journal" /\ JournalNext /\ UNCHANGED <<file, vars, jlVars>>

\* All the requests of the session are answered.
JournalDone ==
  /\ file = "journal" /\ jrSent = JrMaxSent /\ \A p \in JrClients : jrPc[p] = "idle"
  /\ UNCHANGED fileVars

FileSpec ==
  FileInit /\ [][EpochLock \/ JournalFile \/ Journal \/ JournalDone]_fileVars

Symmetric == Permutations(Procs) \cup Permutations(JrClients) \cup Permutations(JrTexts)
================================================================================
