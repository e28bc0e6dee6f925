------------------------------- MODULE MCMySQL -------------------------------
(***************************************************************************)
(* An instance of MySQLCommits for TLC: one row is set or deleted.         *)
(***************************************************************************)
EXTENDS MySQLCommits

Put(pk, image) == [p \in {pk} |-> image]

MCChangeSets == {Put(pk, image) : pk \in PKs, image \in Image \cup {Absent}}
=============================================================================
