----------------------------- MODULE MCRepository -----------------------------
(* Two processes that create, update and cross-reference one artifact of    *)
(* each kind, and write a project configuration and an agents roster.  The  *)
(* writers of the decision race, those of the task and the singletons take  *)
(* turns, as repository.go 92-105 asks of them.  The log entry may be       *)
(* linked or claimed.  A roster has two or three agents, with the same name *)
(* next to each other, apart, or once.                                      *)
EXTENDS Repository, FiniteSets, TLC

CONSTANTS p1, p2, t1, c1, e1, id1, id2, es, en, ann, bob

MCProcesses    == {p1, p2}
MCTasks        == {t1}
MCDecisions    == {c1}
MCEntries      == {e1}
MCSingletonIds == {id1, id2}
MCLanguages    == {es, en}
MCNames        == {ann, bob}
MCRosters      == {<<ann, Nameless, Nameless>>, <<ann, bob, ann>>, <<ann, ann>>}
MCRefs         == {{}, {t1, e1}}
MCSerialized   == {Config, Roster, t1}

(* All five files at once would show no more: a call touches one of them,   *)
(* and the references it looks up are to two.                               *)
FewFiles == Cardinality({f \in Path : disk[f] # Absent}) <= 3

(* The properties are all safety properties and tell no two processes, ids  *)
(* of singletons or languages apart.                                        *)
Symmetry ==
  Permutations(MCProcesses) \cup Permutations(MCSingletonIds)
    \cup Permutations(MCLanguages)

===============================================================================
