------------------------------- MODULE MCLocalDB -------------------------------
(* Two processes of one build, both alike, find any database, or none, and   *)
(* take turns or not.                                                        *)
EXTENDS LocalDB, TLC

Builds == {0, 1, 2}
Alike  == Permutations(Processes)
================================================================================
