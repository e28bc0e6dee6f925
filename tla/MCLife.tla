-------------------------------- MODULE MCLife --------------------------------
(***************************************************************************)
(* Instances of StoreLife for TLC.  Change sets write one key, with a row  *)
(* or a delete.                                                            *)
(***************************************************************************)
EXTENDS StoreLife, TLC

CONSTANTS r1, r2, c1, c2, s1, s2

MCChangeSets ==
  {[p \in {pk} |-> image] : pk \in PKs, image \in {[c \in Cols |-> 1], Absent}}

Mix(ops, requests, callers, ids, n) ==
  [ops |-> ops, requests |-> requests, callers |-> callers, sessions |-> ids, commits |-> n]

(* The mixes of operations, each with the requests, the callers and the    *)
(* sessions at work and the number of commits they may record.             *)
MCWorkloads ==
  {Mix({"branch", "session", "tag"}, {}, {c1, c2}, {s1, s2}, 3),
   Mix({"commit", "branch", "session"}, {r1}, {c1}, {s1}, 3),
   Mix({"branch", "session", "lease", "collect"}, {}, {c1}, {s1, s2}, 3),
   Mix({"commit", "branch", "revert"}, {r1, r2}, {}, {}, 3),
   Mix({"commit", "branch", "merge", "revert"}, {r1}, {}, {}, 4),
   Mix({"commit", "branch", "update", "delete"}, {r1}, {}, {}, 4),
   Mix({"commit", "branch", "large", "crash", "delete"}, {r1}, {}, {}, 4),
   Mix({"branch", "large", "commit"}, {r1, r2}, {}, {}, 3),
   Mix({"commit", "track", "bypass"}, {r1}, {}, {}, 4),
   Mix({"commit", "branch", "prune", "purge"}, {r1}, {}, {}, 5),
   Mix({"commit", "branch", "delete", "collect"}, {r1}, {}, {}, 4),
   Mix({"commit", "partition"}, {r1}, {}, {}, 4)}

(* Keys, sessions, callers and requests are interchangeable: no action or  *)
(* property names one.                                                     *)
LifeSymmetry == Permutations(PKs) \cup Permutations(SessionIds) \cup Permutations(Callers)
                  \cup Permutations(Requests)
=============================================================================
