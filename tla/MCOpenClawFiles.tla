---------------------------- MODULE MCOpenClawFiles ----------------------------
(***************************************************************************)
(* Files several processes write at once: the session lock of OpenClaw,    *)
(* and the archives with their lookups.  A behaviour is one of them; the   *)
(* other stays as it began.                                                *)
(***************************************************************************)
EXTENDS OpenClawLock, ArtifactStore, TLC

CONSTANTS p1, p2, s1, d1, proxy

VARIABLES file, now

fileVars == <<file, now, vars, arVars>>

\* The directory of session s1 is not named by its id.
Directory == (s1 :> d1) @@ (proxy :> proxy)

Text(pass, session, path, n) == [by |-> pass, in |-> session, of |-> path, text |-> n]

\* What a behaviour takes out: two texts of one path, texts of two paths in one
\* directory, or a persisted tool result.
TextsOf(what) ==
  CASE what = "path"      -> {Text("read", s1, "f", 1), Text("trim", s1, "f", 2)}
    [] what = "paths"     -> {Text("exec", proxy, "f", 1), Text("trim", proxy, "g", 1)}
    [] what = "persisted" -> {Text("persist", s1, "f", 1)}

Kinds == {"path", "paths", "persisted"}
Texts == UNION {TextsOf(what) : what \in Kinds}

FileInit ==
  /\ \/ file = "lock" /\ now = {}
     \/ file = "archives" /\ now \in {TextsOf(what) : what \in Kinds}
  /\ Init /\ ArtifactInit

LockFile == file = "lock" /\ Next /\ UNCHANGED <<file, now, arVars>>
Archives ==
  /\ file = "archives" /\ ArtifactNext /\ UNCHANGED <<file, now, vars>>
  /\ \A p \in ArProcs : arTask'[p].item \in now \cup {ArNone}

FileSpec == FileInit /\ [][LockFile \/ Archives]_fileVars

Symmetric == Permutations(ArProcs)
================================================================================
