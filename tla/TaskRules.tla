------------------------------- MODULE TaskRules -------------------------------
(***************************************************************************)
(* core/task.go and core/environment.go: the pure rules of the task/bug    *)
(* lifecycle.  A task is the record of the fields the rules read; who made *)
(* a transition, when and why, and the reference to an origin task, are    *)
(* left out because no rule reads them.                                    *)
(***************************************************************************)
EXTENDS Naturals, Sequences

CONSTANTS
  Environments, \* the environments the project declares
  Names,        \* whatever a caller may write as the name of one
  Blockers,     \* what a task may be blocked by
  None          \* the empty string: no environment, no previous state

Types == {"task", "bug"}

States ==
  {"draft", "ready_for_dev", "triage", "in_progress", "blocked", "in_review",
   "deploying", "testing", "completed", "cancelled"}

Definitive == {"completed", "cancelled"}

ASSUME NoneIsNothing == None \notin Names /\ None \notin States
ASSUME DeclaredByName == Environments \subseteq Names

Transition == [from : States \cup {None}, to : States]

Task ==
  [type : Types, state : States, history : Seq(Transition),
   blockedBy : SUBSET Blockers,
   closure : Environments \cup {None}, current : Names \cup {None}]

--------------------------------------------------------------------------------

InitialState(type) == IF type = "bug" THEN "triage" ELSE "draft"

ValidateBirth(type, state) == type \in Types /\ state = InitialState(type)

NewTask(type) ==
  [type |-> type, state |-> InitialState(type),
   history |-> <<[from |-> None, to |-> InitialState(type)]>>,
   blockedBy |-> {}, closure |-> None, current |-> None]

taskTransitions == [s \in States |->
  CASE s = "draft"         -> {"ready_for_dev", "cancelled"}
    [] s = "ready_for_dev" -> {"in_progress", "cancelled"}
    [] s = "triage"        -> {"ready_for_dev", "in_progress", "cancelled"}
    [] s = "in_progress"   -> {"blocked", "in_review", "cancelled"}
    [] s = "blocked"       -> {"in_progress", "cancelled"}
    [] s = "in_review"     -> {"in_progress", "blocked", "deploying",
                               "completed", "cancelled"}
    [] s = "deploying"     -> {"testing", "cancelled"}
    [] s = "testing"       -> {"deploying", "in_progress", "completed",
                               "cancelled"}
    [] OTHER               -> {}]

(* A CanTransition that asks only whether testing has an environment. *)
CanTransitionAnyEnvironment(t, to) ==
  /\ t.type \in Types
  /\ to # "triage"
  /\ t.state = "triage" => t.type = "bug"
  /\ to \in taskTransitions[t.state]
  /\ t.state = "in_review" /\ to = "completed" => t.closure = None
  /\ t.state = "testing" /\ to = "completed" => t.current # None

(* The edge exists, and the two edges into completed respect the declared  *)
(* closure environment.                                                    *)
CanTransition(t, to) ==
  /\ t.type \in Types
  /\ to # "triage"
  /\ t.state = "triage" => t.type = "bug"
  /\ to \in taskTransitions[t.state]
  /\ t.state = "in_review" /\ to = "completed" => t.closure = None
  /\ t.state = "testing" /\ to = "completed" =>
       t.closure # None /\ t.current = t.closure

ValidateBlocked(t) == t.state = "blocked" => t.blockedBy # {}

(* core/environment.go *)
ValidateClosureEnvironment(closure) == closure \in Environments

(* An ApplyTransition that records only where the task went. *)
MovedForgettingFrom(t, to, current) ==
  [type |-> t.type, state |-> to,
   history |-> Append(t.history, [from |-> None, to |-> to]),
   blockedBy |-> t.blockedBy, closure |-> t.closure, current |-> current]

(* The copy ApplyTransition returns, with the move added to its history. *)
Moved(t, to, current) ==
  [type |-> t.type, state |-> to,
   history |-> Append(t.history, [from |-> t.state, to |-> to]),
   blockedBy |-> t.blockedBy, closure |-> t.closure, current |-> current]

(* withNextEnvironment *)
WithEnvironmentOf(t, next) ==
  [type |-> t.type, state |-> t.state, history |-> t.history,
   blockedBy |-> t.blockedBy, closure |-> next.closure,
   current |-> next.current]

(* A ValidateTaskUpdate that trusts the environments of the new version.   *)
ValidateAgainstNext(previous, next) ==
  IF previous.state \in Definitive
  THEN next = previous
  ELSE /\ previous.state # next.state =>
            CanTransition(WithEnvironmentOf(previous, next), next.state)
       /\ ValidateBlocked(next)

(* A ValidateTaskUpdate that compares only the state of a finished task.   *)
ValidateStateOnly(previous, next) ==
  /\ previous.state # next.state =>
       /\ CanTransition(previous, next.state)
       /\ CanTransition(WithEnvironmentOf(previous, next), next.state)
  /\ ValidateBlocked(next)

ValidateTaskUpdate(previous, next) ==
  IF previous.state \in Definitive
  THEN next = previous
  ELSE /\ previous.state # next.state =>
            /\ CanTransition(previous, next.state)
            /\ CanTransition(WithEnvironmentOf(previous, next), next.state)
       /\ ValidateBlocked(next)

--------------------------------------------------------------------------------
(* State predicates shared by the two machines built on the rules *)

(* A blocked task names what it waits for, for as long as it is blocked.   *)
BlockerNamed(t) == t.state = "blocked" => t.blockedBy # {}

(* A completed task was completed in the environment it declares as the    *)
(* one where it counts as closed, if it declares one.                      *)
ClosedWhereDeclared(t) ==
  t.state = "completed" => t.closure = None \/ t.current = t.closure

================================================================================
